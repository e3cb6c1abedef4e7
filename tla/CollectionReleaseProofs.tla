----------------------- MODULE CollectionReleaseProofs -----------------------
(***************************************************************************)
(* A release, for every manifest, picture and size: the chain draws what   *)
(* the rebuild script drew, the viewer shows what the chain shows, a       *)
(* generated data file is generated again the same, and the filters count  *)
(* the collection, wherever the scripts stop.                              *)
(***************************************************************************)
EXTENDS CollectionRelease, FunctionTheorems, FiniteSetTheorems, SequenceTheorems, WellFoundedInduction, TLAPS

-----------------------------------------------------------------------------
(* Sequences: a flattened one has its pieces where they start *)

(* Every nonempty set of naturals has a least element. *)
LEMMA NatMin == ASSUME NEW T, T \subseteq Nat, T # {}
                PROVE  \E n \in T : \A m \in T : n <= m
<1> DEFINE R == OpToRel(<, Nat)
<1>1. IsWellFoundedOn(R, Nat)
  BY NatLessThanWellFounded
<1> HIDE DEF R
<1>2. PICK n \in T : \A m \in T : ~(<<m, n>> \in R)
  BY <1>1, WFMin
<1>3. \A m \in T : ~(m < n)
  BY <1>2 DEF R, OpToRel
<1> QED
  BY <1>3

(* Induction on the naturals, for a set. *)
LEMMA SetInduction == ASSUME NEW T, T \subseteq Nat, 0 \in T, \A n \in T : n + 1 \in T
                      PROVE  T = Nat
<1> SUFFICES ASSUME Nat \ T # {} PROVE FALSE
  OBVIOUS
<1>1. PICK n \in Nat \ T : \A m \in Nat \ T : n <= m
  <2> DEFINE U == Nat \ T
  <2>1. U \subseteq Nat /\ U # {}
    OBVIOUS
  <2> HIDE DEF U
  <2>2. \E n \in U : \A m \in U : n <= m
    BY <2>1, NatMin
  <2> QED
    BY <2>2 DEF U
<1>2. n # 0 /\ n - 1 \in Nat
  BY SMT
<1>3. n - 1 \in T
  BY <1>1, <1>2
<1>4. (n - 1) + 1 = n
  BY SMT
<1> QED
  BY <1>3, <1>4

(* f lists the flattened beginnings of seqs, one for each length. *)
IsFlattening(f, seqs) == f = [i \in 1..Len(seqs) |-> IF i = 1 THEN seqs[i] ELSE f[i - 1] \o seqs[i]]

LEMMA FlatteningExists ==
    ASSUME NEW S, NEW seqs \in Seq(Seq(S))
    PROVE  \E f : IsFlattening(f, seqs)
<1> DEFINE Step(f, n) == f = [i \in 1..n |-> IF i = 1 THEN seqs[i] ELSE f[i - 1] \o seqs[i]]
           T == {n \in Nat : n <= Len(seqs) => \E f : Step(f, n)}
<1>1. 0 \in T
  <2>1. Step([i \in {} |-> 0], 0)
    <3>1. 1..0 = {}
      OBVIOUS
    <3>2. \A e : [i \in {} |-> 0] = [i \in {} |-> e]
      OBVIOUS
    <3> QED
      BY <3>1, <3>2, Zenon
  <2> QED
    BY <2>1
<1>2. ASSUME NEW n \in T PROVE n + 1 \in T
  <2>1. n \in Nat /\ n + 1 \in Nat
    BY DEF T
  <2>2. CASE n + 1 <= Len(seqs)
    <3>1. PICK f : Step(f, n)
      <4> HIDE DEF Step
      <4>1. n <= Len(seqs)
        BY <2>1, <2>2
      <4> QED
        BY <4>1 DEF T
    <3> DEFINE last == IF n = 0 THEN seqs[1] ELSE f[n] \o seqs[n + 1]
               g == [i \in 1..(n + 1) |-> IF i = n + 1 THEN last ELSE f[i]]
    <3>2. \A i \in 1..n : f[i] = IF i = 1 THEN seqs[i] ELSE f[i - 1] \o seqs[i]
      BY <3>1
    <3>3. \A i \in 1..(n + 1) : g[i] = IF i = 1 THEN seqs[i] ELSE g[i - 1] \o seqs[i]
      <4> TAKE i \in 1..(n + 1)
      <4>1. CASE i = n + 1
        <5>1. CASE n = 0
          BY <4>1, <5>1
        <5>2. CASE n # 0
          <6>1. i # 1 /\ i - 1 = n /\ n \in 1..(n + 1) /\ n # n + 1
            BY <2>1, <4>1, <5>2
          <6>2. g[i] = last /\ g[n] = f[n]
            BY <4>1, <6>1
          <6> QED
            BY <4>1, <5>2, <6>1, <6>2
        <5> QED
          BY <5>1, <5>2
      <4>2. CASE i # n + 1
        <5>1. i \in 1..n /\ g[i] = f[i]
          BY <2>1, <4>2
        <5>2. CASE i = 1
          BY <3>2, <5>1, <5>2
        <5>3. CASE i # 1
          <6>1. i - 1 \in 1..(n + 1) /\ i - 1 # n + 1
            BY <2>1, <4>2, <5>3
          <6>2. g[i - 1] = f[i - 1]
            BY <6>1
          <6> HIDE DEF g
          <6> QED
            BY <3>2, <5>1, <5>3, <6>2
        <5> QED
          BY <5>2, <5>3
      <4> QED
        BY <4>1, <4>2
    <3>4. Step(g, n + 1)
      <4>1. g = [i \in 1..(n + 1) |-> g[i]]
        OBVIOUS
      <4> HIDE DEF g
      <4> QED
        BY <3>3, <4>1
    <3> QED
      BY <2>1, <3>4 DEF T
  <2>3. CASE ~(n + 1 <= Len(seqs))
    BY <2>1, <2>3 DEF T
  <2> QED
    BY <2>2, <2>3
<1>3. T = Nat
  <2>1. T \subseteq Nat
    OBVIOUS
  <2> HIDE DEF T
  <2> QED
    BY <1>1, <1>2, <2>1, SetInduction
<1>4. Len(seqs) \in Nat
  OBVIOUS
<1>5. PICK f : Step(f, Len(seqs))
  <2> HIDE DEF Step
  <2>1. Len(seqs) \in T
    BY <1>3, <1>4
  <2>2. Len(seqs) <= Len(seqs)
    BY <1>4
  <2> QED
    BY <2>1, <2>2
<1> QED
  BY <1>5 DEF IsFlattening

LEMMA FlattenIs ==
    ASSUME NEW S, NEW seqs \in Seq(Seq(S)), Len(seqs) # 0
    PROVE  \E f : IsFlattening(f, seqs) /\ FlattenSeq(seqs) = f[Len(seqs)]
<1> DEFINE f == CHOOSE g : IsFlattening(g, seqs)
<1>1. IsFlattening(f, seqs)
  BY FlatteningExists
<1>2. FlattenSeq(seqs) = f[Len(seqs)]
  BY DEF FlattenSeq, IsFlattening
<1> HIDE DEF f
<1> QED
  BY <1>1, <1>2

(* Two flattenings agree as long as their sequences do, and hold sequences. *)
LEMMA FlatteningsAgree ==
    ASSUME NEW S, NEW s \in Seq(Seq(S)), NEW t \in Seq(Seq(S)), NEW f, NEW g,
           IsFlattening(f, s), IsFlattening(g, t),
           NEW n \in Nat, n <= Len(s), n <= Len(t), \A i \in 1..n : s[i] = t[i]
    PROVE  \A i \in 1..n : f[i] = g[i] /\ f[i] \in Seq(S)
<1> DEFINE T == {k \in Nat : k \in 1..n => f[k] = g[k] /\ f[k] \in Seq(S)}
<1>1. 0 \in T
  OBVIOUS
<1>2. ASSUME NEW k \in T PROVE k + 1 \in T
  <2>1. SUFFICES ASSUME k + 1 \in 1..n PROVE f[k + 1] = g[k + 1] /\ f[k + 1] \in Seq(S)
    BY DEF T
  <2>2. k \in Nat /\ k + 1 \in 1..Len(s) /\ k + 1 \in 1..Len(t)
    BY <2>1
  <2>3. /\ f[k + 1] = IF k + 1 = 1 THEN s[k + 1] ELSE f[k + 1 - 1] \o s[k + 1]
        /\ g[k + 1] = IF k + 1 = 1 THEN t[k + 1] ELSE g[k + 1 - 1] \o t[k + 1]
    <3>1. \A i \in 1..Len(s) : f[i] = IF i = 1 THEN s[i] ELSE f[i - 1] \o s[i]
      BY Zenon DEF IsFlattening
    <3>2. \A i \in 1..Len(t) : g[i] = IF i = 1 THEN t[i] ELSE g[i - 1] \o t[i]
      BY Zenon DEF IsFlattening
    <3> QED
      BY <2>2, <3>1, <3>2
  <2>4. s[k + 1] = t[k + 1] /\ s[k + 1] \in Seq(S)
    BY <2>1, <2>2
  <2>5. CASE k = 0
    BY <2>3, <2>4, <2>5
  <2>6. CASE k # 0
    <3>1. k \in 1..n /\ k + 1 # 1 /\ k + 1 - 1 = k
      BY <2>1, <2>2, <2>6
    <3>2. f[k] = g[k] /\ f[k] \in Seq(S)
      BY <3>1 DEF T
    <3>3. f[k + 1] = f[k] \o s[k + 1] /\ g[k + 1] = g[k] \o t[k + 1]
      BY <2>3, <3>1
    <3> QED
      BY <2>4, <3>2, <3>3, ConcatProperties
  <2> QED
    BY <2>5, <2>6
<1>3. T = Nat
  <2>1. T \subseteq Nat
    OBVIOUS
  <2> HIDE DEF T
  <2> QED
    BY <1>1, <1>2, <2>1, SetInduction
<1> QED
  <2> TAKE i \in 1..n
  <2>1. i \in T
    <3> HIDE DEF T
    <3> QED
      BY <1>3
  <2> QED
    BY <2>1

(* The flattened beginnings of a sequence of sequences. *)
Start(seqs, n) == FlattenSeq(SubSeq(seqs, 1, n))

LEMMA StartIs ==
    ASSUME NEW S, NEW seqs \in Seq(Seq(S)), NEW f, IsFlattening(f, seqs), NEW n \in 1..Len(seqs)
    PROVE  Start(seqs, n) = f[n] /\ f[n] \in Seq(S)
<1>1. PICK p : p = SubSeq(seqs, 1, n)
  OBVIOUS
<1>2. p \in Seq(Seq(S)) /\ Len(p) = n /\ \A i \in 1..n : seqs[i] = p[i]
  BY <1>1
<1>3. PICK g : IsFlattening(g, p) /\ FlattenSeq(p) = g[n]
  <2>1. Len(p) # 0
    BY <1>2
  <2> QED
    BY <1>2, <2>1, FlattenIs
<1>4. n \in Nat /\ n <= Len(seqs) /\ n <= Len(p) /\ n \in 1..n
  BY <1>2
<1>5. \A i \in 1..n : f[i] = g[i] /\ f[i] \in Seq(S)
  <2>1. IsFlattening(f, seqs) /\ IsFlattening(g, p)
    BY <1>3
  <2>2. n \in Nat /\ n <= Len(seqs) /\ n <= Len(p) /\ p \in Seq(Seq(S)) /\ seqs \in Seq(Seq(S))
    BY <1>2, <1>4
  <2>3. \A i \in 1..n : seqs[i] = p[i]
    BY <1>2
  <2>4. \A k \in Nat : k <= Len(seqs) /\ k <= Len(p) /\ (\A i \in 1..k : seqs[i] = p[i]) => \A i \in 1..k : f[i] = g[i] /\ f[i] \in Seq(S)
    BY <2>1, <2>2, FlatteningsAgree
  <2> QED
    BY <2>2, <2>3, <2>4
<1> QED
  BY <1>1, <1>3, <1>4, <1>5 DEF Start

LEMMA StartSteps ==
    ASSUME NEW S, NEW seqs \in Seq(Seq(S))
    PROVE  /\ Start(seqs, 0) = << >>
           /\ \A n \in 1..Len(seqs) : Start(seqs, n) = Start(seqs, n - 1) \o seqs[n]
           /\ \A n \in 0..Len(seqs) : Start(seqs, n) \in Seq(S)
           /\ Start(seqs, Len(seqs)) = FlattenSeq(seqs)
           /\ Len(seqs) \in Nat /\ \A n \in 1..Len(seqs) : seqs[n] \in Seq(S)
<1> DEFINE part(n) == SubSeq(seqs, 1, n)
<1>1. \A n \in 0..Len(seqs) : /\ part(n) \in Seq(Seq(S)) /\ Len(part(n)) = n
                              /\ \A i \in 1..n : part(n)[i] = seqs[i]
  OBVIOUS
<1>2. Start(seqs, 0) = << >>
  <2>1. part(0) = << >>
    BY <1>1
  <2> QED
    BY <2>1 DEF Start, FlattenSeq
<1>3. PICK f : IsFlattening(f, seqs)
  BY FlatteningExists
<1>4. \A n \in 1..Len(seqs) : Start(seqs, n) = f[n] /\ f[n] \in Seq(S)
  BY <1>3, StartIs
<1>5. ASSUME NEW n \in 1..Len(seqs) PROVE Start(seqs, n) = Start(seqs, n - 1) \o seqs[n]
  <2>1. f[n] = IF n = 1 THEN seqs[n] ELSE f[n - 1] \o seqs[n]
    BY <1>3 DEF IsFlattening
  <2>2. seqs[n] \in Seq(S)
    OBVIOUS
  <2>3. CASE n = 1
    <3>1. << >> \o seqs[n] = seqs[n]
      BY <2>2
    <3> QED
      BY <1>2, <1>4, <2>1, <2>3, <3>1
  <2>4. CASE n # 1
    <3>1. n - 1 \in 1..Len(seqs)
      BY <2>4
    <3>2. Start(seqs, n - 1) = f[n - 1]
      BY <3>1, <1>4
    <3> QED
      BY <1>4, <2>1, <2>4, <3>2
  <2> QED
    BY <2>3, <2>4
<1>6. \A n \in 0..Len(seqs) : Start(seqs, n) \in Seq(S)
  <2> TAKE n \in 0..Len(seqs)
  <2>1. n = 0 \/ n \in 1..Len(seqs)
    OBVIOUS
  <2>2. << >> \in Seq(S)
    OBVIOUS
  <2> QED
    BY <1>2, <1>4, <2>1, <2>2
<1>7. Start(seqs, Len(seqs)) = FlattenSeq(seqs)
  <2>1. part(Len(seqs)) = seqs
    OBVIOUS
  <2> QED
    BY <2>1 DEF Start
<1>8. Len(seqs) \in Nat /\ \A n \in 1..Len(seqs) : seqs[n] \in Seq(S)
  OBVIOUS
<1> QED
  BY <1>2, <1>5, <1>6, <1>7, <1>8

(* A sequence that starts with another one. *)
StartsWith(t, s) == Len(s) <= Len(t) /\ \A k \in 1..Len(s) : t[k] = s[k]

LEMMA StartsGrow ==
    ASSUME NEW S, NEW seqs \in Seq(Seq(S)), NEW i \in 0..Len(seqs)
    PROVE  StartsWith(FlattenSeq(seqs), Start(seqs, i))
<1>0. /\ Start(seqs, 0) = << >>
      /\ \A n \in 1..Len(seqs) : Start(seqs, n) = Start(seqs, n - 1) \o seqs[n]
      /\ \A n \in 0..Len(seqs) : Start(seqs, n) \in Seq(S)
      /\ Start(seqs, Len(seqs)) = FlattenSeq(seqs)
      /\ Len(seqs) \in Nat /\ \A n \in 1..Len(seqs) : seqs[n] \in Seq(S)
  BY StartSteps
<1> DEFINE T == {d \in Nat : i + d <= Len(seqs) => StartsWith(Start(seqs, i + d), Start(seqs, i))}
<1>1. 0 \in T
  <2>1. i + 0 = i /\ Start(seqs, i) \in Seq(S)
    BY <1>0
  <2>2. PICK a : a = Start(seqs, i)
    OBVIOUS
  <2>3. StartsWith(a, a)
    BY <2>1, <2>2 DEF StartsWith
  <2> QED
    BY <2>1, <2>2, <2>3
<1>2. ASSUME NEW d \in T PROVE d + 1 \in T
  <2>1. SUFFICES ASSUME i + (d + 1) <= Len(seqs)
                 PROVE  StartsWith(Start(seqs, i + (d + 1)), Start(seqs, i))
    BY DEF T
  <2>2. d \in Nat /\ i + d \in 0..Len(seqs) /\ i + (d + 1) \in 1..Len(seqs) /\ (i + (d + 1)) - 1 = i + d
    BY <2>1
  <2>3. Start(seqs, i + (d + 1)) = Start(seqs, i + d) \o seqs[i + (d + 1)]
    BY <1>0, <2>2
  <2>4. PICK a, b, c : a = Start(seqs, i) /\ b = Start(seqs, i + d) /\ c = seqs[i + (d + 1)]
    OBVIOUS
  <2>5. a \in Seq(S) /\ b \in Seq(S) /\ c \in Seq(S)
    BY <1>0, <2>2, <2>4
  <2>6. StartsWith(b, a)
    BY <2>2, <2>4 DEF T
  <2>7. StartsWith(b \o c, a)
    BY <2>5, <2>6, ConcatProperties DEF StartsWith
  <2> QED
    BY <2>3, <2>4, <2>7
<1>3. T = Nat
  <2>1. T \subseteq Nat
    OBVIOUS
  <2> HIDE DEF T
  <2> QED
    BY <1>1, <1>2, <2>1, SetInduction
<1>4. Len(seqs) - i \in T /\ i + (Len(seqs) - i) = Len(seqs)
  <2>1. Len(seqs) - i \in Nat /\ i + (Len(seqs) - i) = Len(seqs)
    OBVIOUS
  <2> HIDE DEF T
  <2> QED
    BY <1>3, <2>1
<1> QED
  BY <1>0, <1>4

(* A piece of a sequence, behind its first o elements. *)
StandsAt(all, o, piece) ==
    /\ o \in Nat /\ o + Len(piece) <= Len(all)
    /\ \A k \in 1..Len(piece) : all[o + k] = piece[k]

(* Each piece stands whole in the flattened sequence, behind those before it. *)
LEMMA FlattenPiece ==
    ASSUME NEW S, NEW seqs \in Seq(Seq(S)), NEW i \in 1..Len(seqs), NEW o, o = Len(Start(seqs, i - 1))
    PROVE  StandsAt(FlattenSeq(seqs), o, seqs[i]) /\ FlattenSeq(seqs) \in Seq(S)
<1>0. /\ Start(seqs, 0) = << >>
      /\ \A n \in 1..Len(seqs) : Start(seqs, n) = Start(seqs, n - 1) \o seqs[n]
      /\ \A n \in 0..Len(seqs) : Start(seqs, n) \in Seq(S)
      /\ Start(seqs, Len(seqs)) = FlattenSeq(seqs)
      /\ Len(seqs) \in Nat /\ \A n \in 1..Len(seqs) : seqs[n] \in Seq(S)
  BY StartSteps
<1>1. PICK a, b, c, d : /\ a = Start(seqs, i - 1) /\ b = seqs[i] /\ c = Start(seqs, i) /\ d = FlattenSeq(seqs)
  OBVIOUS
<1>2. a \in Seq(S) /\ b \in Seq(S) /\ c \in Seq(S) /\ d \in Seq(S) /\ c = a \o b
  <2>1. i - 1 \in 0..Len(seqs) /\ i \in 0..Len(seqs) /\ Len(seqs) \in 0..Len(seqs)
    OBVIOUS
  <2> QED
    BY <1>0, <1>1, <2>1
<1>3. StartsWith(d, c)
  <2>1. i \in 0..Len(seqs)
    OBVIOUS
  <2> QED
    BY <1>1, <2>1, StartsGrow
<1>4. Len(c) = Len(a) + Len(b) /\ \A k \in 1..Len(b) : c[Len(a) + k] = b[k]
  BY <1>2
<1>5. o \in Nat /\ o + Len(b) <= Len(d) /\ \A k \in 1..Len(b) : d[o + k] = b[k]
  <2>1. o = Len(a) /\ o \in Nat
    BY <1>1, <1>2
  <2>2. \A k \in 1..Len(b) : o + k \in 1..Len(c)
    BY <1>2, <1>4, <2>1
  <2> QED
    BY <1>2, <1>3, <1>4, <2>1, <2>2 DEF StartsWith
<1>6. StandsAt(d, o, b)
  BY <1>5 DEF StandsAt
<1> QED
  BY <1>1, <1>2, <1>6

(* Pieces of one length stand in steps of that length. *)
LEMMA EqualPieces ==
    ASSUME NEW S, NEW seqs \in Seq(Seq(S)), NEW c \in Nat, \A i \in 1..Len(seqs) : Len(seqs[i]) = c
    PROVE  \A n \in 0..Len(seqs) : Len(Start(seqs, n)) = c * n
<1>0. /\ Start(seqs, 0) = << >>
      /\ \A n \in 1..Len(seqs) : Start(seqs, n) = Start(seqs, n - 1) \o seqs[n]
      /\ \A n \in 0..Len(seqs) : Start(seqs, n) \in Seq(S)
      /\ Start(seqs, Len(seqs)) = FlattenSeq(seqs)
      /\ Len(seqs) \in Nat /\ \A n \in 1..Len(seqs) : seqs[n] \in Seq(S)
  BY StartSteps
<1> DEFINE T == {n \in Nat : n <= Len(seqs) => Len(Start(seqs, n)) = c * n}
<1>1. 0 \in T
  BY <1>0
<1>2. ASSUME NEW n \in T PROVE n + 1 \in T
  <2>1. SUFFICES ASSUME n + 1 <= Len(seqs) PROVE Len(Start(seqs, n + 1)) = c * (n + 1)
    BY DEF T
  <2>2. n \in Nat /\ n \in 0..Len(seqs) /\ n + 1 \in 1..Len(seqs) /\ (n + 1) - 1 = n
    BY <2>1
  <2>3. PICK a, b : a = Start(seqs, n) /\ b = seqs[n + 1]
    OBVIOUS
  <2>4. a \in Seq(S) /\ b \in Seq(S) /\ Len(b) = c
    BY <1>0, <2>2, <2>3
  <2>5. Start(seqs, n + 1) = a \o b
    BY <1>0, <2>2, <2>3
  <2>6. Len(a) = c * n
    BY <2>2, <2>3 DEF T
  <2>7. Len(a \o b) = c * n + c
    <3>1. Len(a \o b) = Len(a) + Len(b)
      BY <2>4, ConcatProperties
    <3> QED
      BY <2>4, <2>6, <3>1, Zenon
  <2>8. c * n + c = c * (n + 1)
    BY <2>2, SMT
  <2> QED
    BY <2>5, <2>7, <2>8
<1>3. T = Nat
  <2>1. T \subseteq Nat
    OBVIOUS
  <2> HIDE DEF T
  <2> QED
    BY <1>1, <1>2, <2>1, SetInduction
<1> QED
  <2> TAKE n \in 0..Len(seqs)
  <2>1. n \in T /\ n <= Len(seqs)
    <3> HIDE DEF T
    <3> QED
      BY <1>3
  <2> QED
    BY <2>1

-----------------------------------------------------------------------------
(* The distinct values of a sequence, and the runs of a pixel map *)

(* FirstSeen walks through its sequence and keeps what it has seen. *)
IsSeeing(f, start, seq) ==
    f = [n \in 0..Len(seq) |->
            IF n = 0 THEN start
            ELSE IF Known(f[n - 1], seq[n]) THEN f[n - 1] ELSE Append(f[n - 1], seq[n])]

LEMMA SeeingExists ==
    ASSUME NEW start, NEW seq, Len(seq) \in Nat
    PROVE  \E f : IsSeeing(f, start, seq)
<1> DEFINE Grown(seen, v) == IF Known(seen, v) THEN seen ELSE Append(seen, v)
           Step(f, n) == f = [i \in 0..n |-> IF i = 0 THEN start ELSE Grown(f[i - 1], seq[i])]
           T == {n \in Nat : \E f : Step(f, n)}
<1>1. 0 \in T
  <2>1. Step([i \in 0..0 |-> start], 0)
    <3>1. \A i \in 0..0 : i = 0
      OBVIOUS
    <3> HIDE DEF Grown
    <3> QED
      BY <3>1
  <2> HIDE DEF Step
  <2> QED
    BY <2>1
<1>2. ASSUME NEW n \in T PROVE n + 1 \in T
  <2>1. n \in Nat /\ n + 1 \in Nat
    BY DEF T
  <2>2. PICK f : Step(f, n)
    <3> HIDE DEF Step
    <3> QED
      BY DEF T
  <2> DEFINE last == Grown(f[n], seq[n + 1])
             g == [i \in 0..(n + 1) |-> IF i = n + 1 THEN last ELSE f[i]]
  <2> HIDE DEF Grown
  <2>3. \A i \in 0..n : f[i] = IF i = 0 THEN start ELSE Grown(f[i - 1], seq[i])
    BY <2>2, Zenon
  <2>4. \A i \in 0..(n + 1) : g[i] = IF i = 0 THEN start ELSE Grown(g[i - 1], seq[i])
    <3> TAKE i \in 0..(n + 1)
    <3>1. CASE i = n + 1
      <4>1. i # 0 /\ i - 1 = n /\ n \in 0..(n + 1) /\ n # n + 1
        BY <2>1, <3>1
      <4>2. g[i] = last /\ g[n] = f[n]
        BY <3>1, <4>1
      <4> HIDE DEF g
      <4> QED
        BY <3>1, <4>1, <4>2
    <3>2. CASE i # n + 1
      <4>1. i \in 0..n /\ g[i] = f[i]
        BY <2>1, <3>2
      <4>2. CASE i = 0
        BY <2>3, <4>1, <4>2
      <4>3. CASE i # 0
        <5>1. i - 1 \in 0..(n + 1) /\ i - 1 # n + 1
          BY <2>1, <3>2, <4>3
        <5>2. g[i - 1] = f[i - 1]
          BY <5>1
        <5> HIDE DEF g
        <5> QED
          BY <2>3, <4>1, <4>3, <5>2
      <4> QED
        BY <4>2, <4>3
    <3> QED
      BY <3>1, <3>2
  <2>5. Step(g, n + 1)
    <3>1. g = [i \in 0..(n + 1) |-> g[i]]
      OBVIOUS
    <3> HIDE DEF g
    <3> QED
      BY <2>4, <3>1
  <2> HIDE DEF Step, g
  <2> QED
    BY <2>1, <2>5 DEF T
<1>3. T = Nat
  <2>1. T \subseteq Nat
    OBVIOUS
  <2> HIDE DEF T
  <2> QED
    BY <1>1, <1>2, <2>1, SetInduction
<1>4. PICK f : Step(f, Len(seq))
  <2> HIDE DEF Step
  <2>1. Len(seq) \in T
    BY <1>3
  <2> QED
    BY <2>1
<1> QED
  BY <1>4 DEF IsSeeing

LEMMA FirstSeenIs ==
    ASSUME NEW start, NEW seq, Len(seq) \in Nat
    PROVE  \E f : IsSeeing(f, start, seq) /\ FirstSeen(start, seq) = f[Len(seq)]
<1> DEFINE f == CHOOSE g : IsSeeing(g, start, seq)
<1>1. IsSeeing(f, start, seq)
  BY SeeingExists
<1>2. FirstSeen(start, seq) = f[Len(seq)]
  BY DEF FirstSeen, IsSeeing
<1> HIDE DEF f
<1> QED
  BY <1>1, <1>2

(* No value stands at two places. *)
Distinct(s) == \A i, j \in 1..Len(s) : s[i] = s[j] => i = j

(* The list begins with start, has every value of the sequence and none other, and none twice. *)
LEMMA FirstSeenHolds ==
    ASSUME NEW V, NEW start \in Seq(V), NEW seq \in Seq(V), Distinct(start)
    PROVE  /\ FirstSeen(start, seq) \in Seq(V) /\ Distinct(FirstSeen(start, seq))
           /\ StartsWith(FirstSeen(start, seq), start)
           /\ \A i \in 1..Len(seq) : Known(FirstSeen(start, seq), seq[i])
<1>1. Len(seq) \in Nat
  OBVIOUS
<1>2. PICK f : IsSeeing(f, start, seq) /\ FirstSeen(start, seq) = f[Len(seq)]
  BY <1>1, FirstSeenIs
<1>3. /\ f[0] = start
      /\ \A n \in 1..Len(seq) : f[n] = IF Known(f[n - 1], seq[n]) THEN f[n - 1] ELSE Append(f[n - 1], seq[n])
  <2>1. \A n \in 0..Len(seq) :
            f[n] = IF n = 0 THEN start
                   ELSE IF Known(f[n - 1], seq[n]) THEN f[n - 1] ELSE Append(f[n - 1], seq[n])
    BY <1>2, Zenon DEF IsSeeing
  <2>2. 0 \in 0..Len(seq) /\ \A n \in 1..Len(seq) : n \in 0..Len(seq) /\ n # 0
    BY <1>1
  <2> QED
    BY <2>1, <2>2
<1> DEFINE Good(s, n) == /\ s \in Seq(V) /\ Distinct(s) /\ StartsWith(s, start)
                         /\ \A i \in 1..n : Known(s, seq[i])
           T == {n \in Nat : n <= Len(seq) => Good(f[n], n)}
<1>4. 0 \in T
  BY <1>3 DEF StartsWith
<1>5. ASSUME NEW n \in T PROVE n + 1 \in T
  <2>1. SUFFICES ASSUME n + 1 <= Len(seq) PROVE Good(f[n + 1], n + 1)
    BY DEF T
  <2>2. n \in Nat /\ n + 1 \in 1..Len(seq) /\ (n + 1) - 1 = n
    BY <2>1
  <2>3. PICK s, v : s = f[n] /\ v = seq[n + 1]
    OBVIOUS
  <2>4. Good(s, n) /\ v \in V
    BY <2>2, <2>3 DEF T
  <2>5. f[n + 1] = IF Known(s, v) THEN s ELSE Append(s, v)
    BY <1>3, <2>2, <2>3
  <2>6. \A i \in 1..(n + 1) : i \in 1..n \/ seq[i] = v
    BY <2>2, <2>3
  <2>7. CASE Known(s, v)
    BY <2>4, <2>5, <2>6, <2>7
  <2>8. CASE ~Known(s, v)
    <3>1. PICK t : t = Append(s, v)
      OBVIOUS
    <3>2. /\ t \in Seq(V) /\ Len(t) = Len(s) + 1 /\ t[Len(s) + 1] = v /\ Len(s) \in Nat
          /\ \A k \in 1..Len(s) : t[k] = s[k]
      BY <2>4, <3>1
    <3>3. \A i \in 1..Len(t) : i \in 1..Len(s) \/ i = Len(s) + 1
      BY <3>2
    <3>4. Distinct(t)
      <4>1. \A i, j \in 1..Len(s) : s[i] = s[j] => i = j
        BY <2>4 DEF Distinct
      <4>2. \A i \in 1..Len(s) : s[i] # v
        BY <2>8 DEF Known
      <4> QED
        BY ONLY <3>2, <3>3, <4>1, <4>2 DEF Distinct
    <3>5. StartsWith(t, start)
      BY <2>4, <3>2 DEF StartsWith
    <3>6. \A i \in 1..(n + 1) : Known(t, seq[i])
      <4> TAKE i \in 1..(n + 1)
      <4>1. CASE seq[i] = v
        BY <3>2, <4>1 DEF Known
      <4>2. CASE i \in 1..n
        <5>1. Known(s, seq[i])
          BY <2>4, <4>2
        <5>2. PICK k \in 1..Len(s) : s[k] = seq[i]
          BY <5>1 DEF Known
        <5>3. k \in 1..Len(t) /\ t[k] = seq[i]
          BY <3>2, <5>2
        <5> QED
          BY <5>3 DEF Known
      <4> QED
        BY <2>6, <4>1, <4>2
    <3> QED
      BY <2>5, <2>8, <3>1, <3>2, <3>4, <3>5, <3>6
  <2> QED
    BY <2>7, <2>8
<1>6. T = Nat
  <2>1. T \subseteq Nat
    OBVIOUS
  <2> HIDE DEF T
  <2> QED
    BY <1>4, <1>5, <2>1, SetInduction
<1>7. Len(seq) \in T /\ Len(seq) <= Len(seq)
  <2> HIDE DEF T
  <2> QED
    BY <1>1, <1>6
<1>8. Good(f[Len(seq)], Len(seq))
  <2> HIDE DEF Good
  <2> QED
    BY <1>7
<1> QED
  BY <1>2, <1>8

LEMMA DistinctBound ==
    ASSUME NEW V, IsFiniteSet(V), NEW s \in Seq(V), Distinct(s)
    PROVE  Len(s) <= Cardinality(V)
<1>1. Len(s) \in Nat /\ s \in [1..Len(s) -> V]
  OBVIOUS
<1>2. s \in Injection(1..Len(s), V)
  BY <1>1, Fun_IsInj DEF Distinct
<1>3. Cardinality(1..Len(s)) <= Cardinality(V)
  BY <1>2, FS_Injection
<1>4. Cardinality(1..Len(s)) = Len(s)
  BY <1>1, FS_Interval
<1> QED
  BY <1>3, <1>4

LEMMA IdInTable ==
    ASSUME NEW table, Len(table) \in Nat, NEW name, Known(table, name)
    PROVE  IdIn(table, name) \in 0..(Len(table) - 1) /\ table[IdIn(table, name) + 1] = name
<1>1. PICK i \in 1..Len(table) : table[i] = name
  BY DEF Known
<1>2. i - 1 \in 0..(Len(table) - 1) /\ (i - 1) + 1 = i
  OBVIOUS
<1>3. \E k \in 0..(Len(table) - 1) : table[k + 1] = name
  BY <1>1, <1>2
<1> QED
  BY <1>3 DEF IdIn

(* A pixel's place, and its column and row. *)
LEMMA PixelParts ==
    /\ Width \in Nat \ {0} /\ Height \in Nat \ {0}
    /\ \A p \in Pixels : p[1] \in 0..(Width - 1) /\ p[2] \in 0..(Height - 1) /\ p = << p[1], p[2] >>
    /\ \A x \in 0..(Width - 1), y \in 0..(Height - 1) : << x, y >> \in Pixels
BY CatArtAssumption DEF Pixels

(* A run goes on as long as the value does. *)
LEMMA RunLengthIs ==
    ASSUME NEW map, NEW p \in Pixels
    PROVE  /\ RunLength(map, p) \in 1..(Width - p[1])
           /\ \A x \in p[1]..(p[1] + RunLength(map, p) - 1) : map[<< x, p[2] >>] = map[p]
           /\ p[1] + RunLength(map, p) < Width => map[<< p[1] + RunLength(map, p), p[2] >>] # map[p]
<1> DEFINE a == p[1]
           y == p[2]
           Ends(v) == a + v < Width => map[<< a + v, y >>] # map[p]
           U == {v \in Nat : v >= 1 /\ Ends(v)}
<1>1. Width \in Nat \ {0} /\ a \in 0..(Width - 1) /\ p = << a, y >>
  BY PixelParts
<1> HIDE DEF a, y
<1>2. Width - a \in U
  <2>1. Width - a \in Nat /\ Width - a >= 1 /\ ~(a + (Width - a) < Width)
    BY <1>1
  <2> QED
    BY <2>1
<1>3. PICK v \in U : \A u \in U : v <= u
  <2>1. U \subseteq Nat /\ U # {}
    BY <1>2
  <2> HIDE DEF U
  <2>2. \E n \in U : \A m \in U : n <= m
    BY <2>1, NatMin
  <2> QED
    BY <2>2
<1>4. v \in Nat /\ v >= 1 /\ Ends(v) /\ v <= Width - a
  BY <1>2, <1>3
<1>5. \A x \in a..(a + v - 1) : map[<< x, y >>] = map[p]
  <2> TAKE x \in a..(a + v - 1)
  <2>1. CASE x = a
    BY <1>1, <2>1
  <2>2. CASE x # a
    <3>1. x - a \in Nat /\ x - a >= 1 /\ x - a < v /\ a + (x - a) = x
      BY <1>1, <1>4, <2>2
    <3>2. x - a \notin U
      <4> HIDE DEF U
      <4> QED
        BY <1>3, <1>4, <3>1
    <3>3. ~Ends(x - a)
      BY <3>1, <3>2
    <3> QED
      BY <3>1, <3>3
  <2> QED
    BY <2>1, <2>2
<1>6. v \in 1..(Width - a)
  BY <1>1, <1>4
<1>7. \E u \in 1..(Width - a) :
        /\ \A x \in a..(a + u - 1) : map[<< x, y >>] = map[p]
        /\ a + u < Width => map[<< a + u, y >>] # map[p]
  BY <1>4, <1>5, <1>6
<1>. DEFINE w == RunLength(map, p)
<1>8. w = CHOOSE u \in 1..(Width - a) :
        /\ \A x \in a..(a + u - 1) : map[<< x, y >>] = map[p]
        /\ a + u < Width => map[<< a + u, y >>] # map[p]
  BY DEF RunLength, a, y
<1>9. /\ w \in 1..(Width - a)
      /\ \A x \in a..(a + w - 1) : map[<< x, y >>] = map[p]
      /\ a + w < Width => map[<< a + w, y >>] # map[p]
  BY <1>7, <1>8, Zenon
<1> QED
  BY <1>9 DEF a, y

(* Where a run may start. *)
RunStarts(map) == {q \in Pixels : map[q] # Clear /\ (q[1] > 0 => map[<< q[1] - 1, q[2] >>] # map[q])}

LEMMA RunThrough ==
    ASSUME NEW map, NEW p \in Pixels, map[p] # Clear
    PROVE  \E q \in RunStarts(map) : /\ q[2] = p[2] /\ map[q] = map[p]
                                     /\ p[1] \in q[1]..(q[1] + RunLength(map, q) - 1)
<1> DEFINE a == p[1]
           y == p[2]
           Same(x) == \A z \in x..a : map[<< z, y >>] = map[p]
           U == {x \in Nat : x <= a /\ Same(x)}
<1>1. a \in 0..(Width - 1) /\ y \in 0..(Height - 1) /\ p = << a, y >> /\ Width \in Nat /\ Height \in Nat
  BY PixelParts
<1> HIDE DEF a, y
<1>2. a \in U
  <2>1. \A z \in a..a : z = a
    BY <1>1
  <2> QED
    BY <1>1, <2>1
<1>3. PICK b \in U : \A u \in U : b <= u
  <2>1. U \subseteq Nat /\ U # {}
    BY <1>2
  <2> HIDE DEF U
  <2>2. \E n \in U : \A m \in U : n <= m
    BY <2>1, NatMin
  <2> QED
    BY <2>2
<1>4. b \in Nat /\ b <= a /\ Same(b)
  BY <1>3
<1>5. PICK q : q = << b, y >>
  OBVIOUS
<1>6. q \in Pixels /\ q[1] = b /\ q[2] = y /\ map[q] = map[p]
  <2>1. b \in 0..(Width - 1) /\ b \in b..a
    BY <1>1, <1>4
  <2> QED
    BY <1>1, <1>4, <1>5, <2>1, PixelParts
<1>7. q[1] > 0 => map[<< q[1] - 1, q[2] >>] # map[q]
  <2> SUFFICES ASSUME b > 0, map[<< b - 1, y >>] = map[p] PROVE FALSE
    BY <1>6
  <2>1. b - 1 \in Nat /\ b - 1 <= a /\ ~(b <= b - 1)
    BY <1>1, <1>4
  <2>2. \A z \in (b - 1)..a : z = b - 1 \/ z \in b..a
    BY <1>1, <1>4
  <2>3. Same(b - 1)
    BY <1>4, <2>2
  <2> QED
    BY <1>3, <2>1, <2>3
<1>8. q \in RunStarts(map)
  BY <1>6, <1>7 DEF RunStarts
<1>9. PICK w : w = RunLength(map, q)
  OBVIOUS
<1>10. w \in 1..(Width - b) /\ (b + w < Width => map[<< b + w, y >>] # map[p])
  <2>1. /\ RunLength(map, q) \in 1..(Width - q[1])
        /\ q[1] + RunLength(map, q) < Width => map[<< q[1] + RunLength(map, q), q[2] >>] # map[q]
    BY <1>6, RunLengthIs
  <2> QED
    BY <1>6, <1>9, <2>1
<1>11. a \in b..(b + w - 1)
  <2> SUFFICES ASSUME ~(a <= b + w - 1) PROVE FALSE
    BY <1>1, <1>4, <1>10
  <2>1. b + w \in b..a /\ b + w < Width
    BY <1>1, <1>4, <1>10
  <2> QED
    BY <1>4, <1>10, <2>1
<1>12. q[2] = p[2] /\ map[q] = map[p] /\ p[1] \in q[1]..(q[1] + RunLength(map, q) - 1)
  BY <1>6, <1>9, <1>11 DEF a, y
<1> QED
  BY <1>8, <1>12

(* Painting the runs of a map colours each pixel that is not clear, and no other. *)
THEOREM RunsPaintTheMap ==
    ASSUME NEW map, NEW colours, NEW image, NEW p \in Pixels
    PROVE  Paint(image, Rects(map, colours))[p] = IF map[p] # Clear THEN colours[map[p]] ELSE image[p]
<1> DEFINE rects == Rects(map, colours)
<1>1. Paint(image, rects)[p] = IF \E r \in rects : Covers(r, p)
                               THEN (CHOOSE r \in rects : Covers(r, p)).colour ELSE image[p]
  BY DEF Paint
<1>2. ASSUME NEW r \in rects, Covers(r, p) PROVE map[p] # Clear /\ r.colour = colours[map[p]]
  <2>1. PICK q \in RunStarts(map) :
           r = [x |-> q[1], y |-> q[2], w |-> RunLength(map, q), h |-> 1, colour |-> colours[map[<< q[1], q[2] >>]]]
    <3>1. PICK run \in Runs(map) :
             r = [x |-> run.x, y |-> run.y, w |-> run.w, h |-> 1, colour |-> colours[map[<< run.x, run.y >>]]]
      BY DEF Rects
    <3>2. PICK q \in RunStarts(map) : run = [x |-> q[1], y |-> q[2], w |-> RunLength(map, q)]
      BY DEF Runs, RunStarts
    <3> QED
      BY <3>1, <3>2
  <2>2. q \in Pixels /\ map[q] # Clear /\ q = << q[1], q[2] >> /\ q[2] \in 0..(Height - 1)
    BY PixelParts DEF RunStarts
  <2>3. p[1] \in q[1]..(q[1] + RunLength(map, q) - 1) /\ p[2] \in q[2]..(q[2] + 1 - 1)
    BY <1>2, <2>1 DEF Covers
  <2>4. p[2] = q[2] /\ p = << p[1], p[2] >>
    BY <2>2, <2>3, PixelParts
  <2>5. map[p] = map[q]
    <3>1. q \in Pixels
      BY <2>2
    <3>2. \A x \in q[1]..(q[1] + RunLength(map, q) - 1) : map[<< x, q[2] >>] = map[q]
      BY ONLY <3>1, RunLengthIs
    <3>3. PICK x : x = p[1]
      OBVIOUS
    <3>4. map[<< x, q[2] >>] = map[q]
      BY <2>3, <3>2, <3>3
    <3> QED
      BY <2>4, <3>3, <3>4
  <2> QED
    BY <2>1, <2>2, <2>5
<1>3. ASSUME map[p] # Clear PROVE \E r \in rects : Covers(r, p)
  <2>1. PICK q \in RunStarts(map) : q[2] = p[2] /\ p[1] \in q[1]..(q[1] + RunLength(map, q) - 1)
    BY <1>3, RunThrough
  <2> DEFINE r == [x |-> q[1], y |-> q[2], w |-> RunLength(map, q), h |-> 1, colour |-> colours[map[<< q[1], q[2] >>]]]
  <2> DEFINE run == [x |-> q[1], y |-> q[2], w |-> RunLength(map, q)]
  <2>2. r \in rects
    <3>1. run \in Runs(map)
      BY DEF Runs, RunStarts
    <3>2. r = [x |-> run.x, y |-> run.y, w |-> run.w, h |-> 1, colour |-> colours[map[<< run.x, run.y >>]]]
      OBVIOUS
    <3> HIDE DEF run, r
    <3> QED
      BY <3>1, <3>2 DEF Rects
  <2>3. Covers(r, p)
    <3>1. p[2] \in q[2]..(q[2] + 1 - 1)
      BY <2>1, PixelParts
    <3> QED
      BY <2>1, <3>1 DEF Covers
  <2> QED
    BY <2>2, <2>3
<1> HIDE DEF rects
<1>4. ASSUME map[p] # Clear PROVE Paint(image, rects)[p] = colours[map[p]]
  <2>1. PICK r : r = CHOOSE drawn \in rects : Covers(drawn, p)
    OBVIOUS
  <2>2. r \in rects /\ Covers(r, p)
    BY <1>3, <1>4, <2>1
  <2>3. Paint(image, rects)[p] = r.colour
    BY <1>1, <2>1, <2>2
  <2> QED
    BY <1>2, <2>2, <2>3
<1>5. ASSUME map[p] = Clear PROVE Paint(image, rects)[p] = image[p]
  <2>1. ~\E r \in rects : Covers(r, p)
    BY <1>2, <1>5
  <2> QED
    BY <1>1, <2>1
<1> QED
  BY <1>4, <1>5 DEF rects

-----------------------------------------------------------------------------
(* The packed data *)

(* Every number is a quotient and a byte. *)
LEMMA Bytes == ASSUME NEW w \in Nat
               PROVE  \E q \in Nat, r \in 0..255 : w = 256 * q + r
<1> DEFINE q == w \div 256  r == w % 256
<1>1. q \in Nat /\ r \in 0..255
  BY SMT
<1>2. r = w - 256 * q
  BY SMT
<1> HIDE DEF q, r
<1>3. w = 256 * q + r
  BY <1>1, <1>2, SMT
<1> QED
  BY <1>1, <1>3

(* A word whose top byte is a byte reads back whole from its four bytes. *)
LEMMA WordRoundTrip ==
    ASSUME NEW w \in Nat, ((w \div 256) \div 256) \div 256 < 256
    PROVE  Word(RecordBytes(w)) = w
<1>1. PICK q1 \in Nat, r1 \in 0..255 : w = 256 * q1 + r1
  BY Bytes
<1>2. PICK q2 \in Nat, r2 \in 0..255 : q1 = 256 * q2 + r2
  BY Bytes
<1>3. PICK q3 \in Nat, r3 \in 0..255 : q2 = 256 * q3 + r3
  BY Bytes
<1>4. /\ w \div 256 = q1 /\ w % 256 = r1
      /\ q1 \div 256 = q2 /\ q1 % 256 = r2
      /\ q2 \div 256 = q3 /\ q2 % 256 = r3
  <2>1. w \div 256 = q1 /\ w % 256 = r1
    BY <1>1, SMT
  <2>2. q1 \div 256 = q2 /\ q1 % 256 = r2
    BY <1>2, SMT
  <2>3. q2 \div 256 = q3 /\ q2 % 256 = r3
    BY <1>3, SMT
  <2> QED
    BY <2>1, <2>2, <2>3
<1>5. q3 \in 0..255
  BY <1>4, SMT
<1>6. q3 % 256 = q3
  BY <1>5, SMT
<1>7. RecordBytes(w) = << r1, r2, r3, q3 >>
  BY <1>4, <1>6 DEF RecordBytes
<1>8. Word(RecordBytes(w)) = r1 + 256 * (r2 + 256 * (r3 + 256 * q3))
  BY <1>7 DEF Word
<1> QED
  BY <1>1, <1>2, <1>3, <1>8, SMT

(* Packing keeps each field in its own bits: no field reads another one's. *)
LEMMA FieldsRoundTrip ==
    ASSUME NEW f \in Fields
    PROVE  /\ Pack(f) \in Nat
           /\ ((Pack(f) \div 256) \div 256) \div 256 < 256
           /\ Decoded(Pack(f)) = f
<1>1. PICK n \in 1..512 : n = TupleIndexes
  BY RecordsAssumption
<1>2. PICK a \in 0..15, b \in 0..15, c \in 0..3, d \in 0..3, e \in 0..15, t \in 0..511 :
         /\ f = [pattern |-> a, palette |-> b, collar |-> c, tier |-> d, rtype |-> e, tuple |-> t]
         /\ t \in 0..(n - 1)
  <2>1. PICK a \in 0..15, b \in 0..15, c \in 0..3, d \in 0..3, e \in 0..15, t \in 0..(n - 1) :
           f = [pattern |-> a, palette |-> b, collar |-> c, tier |-> d, rtype |-> e, tuple |-> t]
    BY <1>1 DEF Fields
  <2>2. t \in 0..511
    OBVIOUS
  <2> QED
    BY <2>1, <2>2
<1>3. t % n = t
  <2>1. t < n
    BY <1>2
  <2> QED
    BY <2>1, SMT
<1>4. a % 16 = a /\ b % 16 = b /\ c % 4 = c /\ d % 4 = d /\ e % 16 = e
  BY SMT
<1>5. Pack(f) = a + 16 * b + 256 * c + 1024 * d + 4096 * e + 256 * 256 * t
  BY <1>1, <1>2, <1>3, <1>4 DEF Pack
<1>6. PICK P \in Nat : P = a + 16 * b + 256 * c + 1024 * d + 4096 * e + 256 * 256 * t
  BY SMT
<1>7. /\ P % 16 = a
      /\ P \div 16 = 16 * (c + 4 * d + 16 * e + 256 * t) + b
  BY <1>6, SMT
<1>8. (P \div 16) % 16 = b
  BY <1>7, SMT
<1>9. P \div 256 = 4 * (d + 4 * e + 64 * t) + c
  BY <1>6, SMT
<1>10. (P \div 256) % 4 = c
  BY <1>9, SMT
<1>11. P \div 1024 = 4 * (e + 16 * t) + d
  BY <1>6, SMT
<1>12. (P \div 1024) % 4 = d
  BY <1>11, SMT
<1>13. P \div 4096 = 16 * t + e
  BY <1>6, SMT
<1>14. (P \div 4096) % 16 = e
  BY <1>13, SMT
<1>15. (P \div 256) \div 256 = t
  <2>1. P \div 256 = 256 * t + (c + 4 * d + 16 * e)
    BY <1>9, SMT
  <2> QED
    BY <2>1, SMT
<1>16. ((P \div 256) \div 256) \div 256 < 256
  BY <1>15, SMT
<1>17. Decoded(P) = f
  BY <1>1, <1>2, <1>3, <1>7, <1>8, <1>10, <1>12, <1>14, <1>15 DEF Decoded
<1> QED
  BY <1>5, <1>6, <1>16, <1>17

(* The renderer's _decodeTokenRecord finds in the generated records exactly the fields
   build_tuple_and_token_records packed for the token. *)
THEOREM RecordRoundTrip ==
    ASSUME NEW f \in Fields, NEW records \in Seq(Nat), NEW tokenId \in Nat \ {0},
           SubSeq(records, 4 * (tokenId - 1) + 1, 4 * tokenId) = RecordBytes(Pack(f))
    PROVE  DecodeTokenRecord(records, tokenId) = f
<1>1. DecodeTokenRecord(records, tokenId) = Decoded(Word(RecordBytes(Pack(f))))
  BY DEF DecodeTokenRecord
<1> QED
  BY <1>1, FieldsRoundTrip, WordRoundTrip

(* _nibbleAt reads from a packed pixel map the value pack_nibbles put at that pixel. *)
THEOREM NibbleRoundTrip ==
    ASSUME NEW vals \in Seq(0..15), NEW n \in Nat, Len(vals) = 2 * n, NEW i \in 0..(2 * n - 1)
    PROVE  NibbleAt(PackNibbles(vals), i) = vals[i + 1]
<1>1. PICK k \in 1..n : i = 2 * k - 2 \/ i = 2 * k - 1
  <2>1. /\ i \div 2 + 1 \in 1..n
        /\ i = 2 * (i \div 2 + 1) - 2 \/ i = 2 * (i \div 2 + 1) - 1
    BY SMT
  <2> QED
    BY <2>1
<1>2. i \div 2 + 1 = k /\ (i % 2 = 0 <=> i = 2 * k - 2)
  BY <1>1, SMT
<1>3. Len(vals) \div 2 = n
  BY SMT
<1>4. PackNibbles(vals)[k] = 16 * vals[2 * k - 1] + vals[2 * k]
  BY <1>3 DEF PackNibbles
<1>5. vals[2 * k - 1] \in 0..15 /\ vals[2 * k] \in 0..15
  BY SMT
<1>7. NibbleAt(PackNibbles(vals), i) = IF i = 2 * k - 2 THEN vals[2 * k - 1] ELSE vals[2 * k]
  <2> DEFINE b == PackNibbles(vals)[k]
  <2>1. NibbleAt(PackNibbles(vals), i) = IF i = 2 * k - 2 THEN b \div 16 ELSE b % 16
    BY <1>2 DEF NibbleAt
  <2>2. PICK hi \in 0..15, lo \in 0..15 : hi = vals[2 * k - 1] /\ lo = vals[2 * k]
    BY <1>5
  <2>3. b = 16 * hi + lo
    BY <1>4, <2>2
  <2>4. b \div 16 = hi /\ b % 16 = lo
    BY <2>3, SMT
  <2> QED
    BY <2>1, <2>2, <2>4
<1>8. CASE i = 2 * k - 2
  <2>1. i + 1 = 2 * k - 1
    BY <1>8, SMT
  <2> QED
    BY <1>7, <1>8, <2>1
<1>9. CASE i = 2 * k - 1
  <2>1. i + 1 = 2 * k /\ i # 2 * k - 2
    BY <1>9, SMT
  <2> QED
    BY <1>7, <2>1
<1> QED
  BY <1>1, <1>8, <1>9

(* The port in generate_viewer_data.mjs and the renderer name every record alike, unused ids
   included: the viewer's comparison of attributes reads what the chain will answer. *)
THEOREM TheTablesAgree ==
    ASSUME NEW rec \in Fields
    PROVE  TraitNames(rec) = Attributes(rec)
<1>1. rec.pattern \in 0..15 /\ rec.palette \in 0..15 /\ rec.collar \in 0..3 /\ rec.tier \in 0..3 /\ rec.rtype \in 0..15
  BY DEF Fields
<1>2. NameOr(PATTERN_NAMES, rec.pattern, "unknown") = PatternName(rec.pattern)
  BY <1>1 DEF NameOr, PATTERN_NAMES, PatternName
<1>3. NameOr(PALETTE_NAMES, rec.palette, "unknown") = PaletteName(rec.palette)
  BY <1>1 DEF NameOr, PALETTE_NAMES, PaletteName
<1>4. NameOr(COLLAR_TYPE_NAMES, rec.collar, "none") = CollarTypeName(rec.collar)
  BY <1>1 DEF NameOr, COLLAR_TYPE_NAMES, CollarTypeName
<1>5. NameOr(RARITY_TIER_NAMES, rec.tier, "common") = RarityTierName(rec.tier)
  BY <1>1 DEF NameOr, RARITY_TIER_NAMES, RarityTierName
<1>6. NameOr(RARITY_TYPE_NAMES, rec.rtype, "none") = RarityTypeName(rec.rtype)
  BY <1>1 DEF NameOr, RARITY_TYPE_NAMES, RarityTypeName
<1> QED
  BY <1>2, <1>3, <1>4, <1>5, <1>6 DEF TraitNames, Attributes

-----------------------------------------------------------------------------
(* A release *)

(* A manifest's items: a full list, numbered in order. *)
Numbered(items) == /\ items = [i \in 1..MaxSupply |-> items[i]]
                   /\ \A i \in 1..MaxSupply : items[i].token_id = i

LEMMA NumberedItems ==
    ASSUME NEW items, Numbered(items)
    PROVE  Len(items) = MaxSupply /\ ByToken(items) = items
<1> DEFINE n == MaxSupply
           Lower(k) == {j \in 1..n : items[j].token_id < items[k].token_id}
<1>1. n \in Nat \ {0}
  BY CatArtAssumption
<1>2. Len(items) = n
  <2> DEFINE S == {items[i] : i \in 1..n}
  <2>1. items \in [1..n -> S]
    BY DEF Numbered
  <2>2. items \in Seq(S) /\ DOMAIN items = 1..n
    <3> HIDE DEF S, n
    <3> QED
      BY <1>1, <2>1
  <2> HIDE DEF S
  <2> QED
    BY <1>1, <2>2
<1>3. \A k \in 1..n : Cardinality(Lower(k)) = k - 1
  <2> TAKE k \in 1..n
  <2>1. Lower(k) = 1..(k - 1)
    BY <1>1 DEF Numbered
  <2>2. k - 1 \in Nat /\ 1 \in Int
    BY <1>1
  <2>3. Cardinality(1..(k - 1)) = IF 1 > k - 1 THEN 0 ELSE (k - 1) - 1 + 1
    BY <2>2, FS_Interval
  <2> HIDE DEF Lower, n
  <2> QED
    BY <1>1, <2>1, <2>2, <2>3
<1>4. ByToken(items) = [i \in 1..n |-> items[CHOOSE k \in 1..n : Cardinality(Lower(k)) = i - 1]]
  BY <1>2 DEF ByToken
<1>5. ASSUME NEW i \in 1..n PROVE (CHOOSE k \in 1..n : Cardinality(Lower(k)) = i - 1) = i
  <2> HIDE DEF Lower, n
  <2>1. \A k \in 1..n : Cardinality(Lower(k)) = i - 1 <=> k = i
    BY <1>1, <1>3
  <2> QED
    BY <2>1
<1>6. ByToken(items) = [i \in 1..n |-> items[i]]
  BY <1>4, <1>5
<1> QED
  BY <1>2, <1>6 DEF Numbered

(* The script that runs holds all it read. *)
JobIsWhole ==
    \/ job = Idle
    \/ job = [script |-> "rebuild", step |-> job.step, sel |-> job.sel, items |-> job.items]
    \/ job = [script |-> "viewer", step |-> job.step, items |-> job.items, summary |-> job.summary]

(* The inductive invariant: what a script holds it holds of the repository as it is, and only a
   rebuild between its two writes leaves a summary that is older than the manifest, and true of
   the collection of an earlier one. *)
ReleaseInv ==
    /\ Numbered(manifest.items)
    /\ manifest.created \in Nat /\ summary.created \in Nat /\ summary.created <= manifest.created
    /\ Numbered(summary.of) /\ summary.counts = Summarize(TraitsOf(summary.of))
    /\ summary.created = manifest.created => summary.of = manifest.items
    /\ JobIsWhole
    /\ job.script = "rebuild" /\ job.step = "manifest" => Numbered(job.items)
    /\ job.script = "rebuild" /\ job.step = "summary"  => job.items = manifest.items
    /\ {"collection", "filters"} \subseteq DOMAIN viewer
    /\ job.script = "viewer" =>
         /\ job.items = manifest.items /\ job.summary = summary /\ job.step \in 1..Len(DocOrder)
         /\ job.step > 1 => viewer.collection = ViewerDoc(job.items, job.summary.counts, "collection")
         /\ job.step > 2 => viewer.filters = ViewerDoc(job.items, job.summary.counts, "filters")

LEMMA DocsInOrder ==
    /\ Len(DocOrder) = 4 /\ DocOrder[1] = "collection" /\ DocOrder[2] = "filters"
    /\ DocOrder[3] = "detail" /\ DocOrder[4] = "index"
    /\ {"collection", "filters"} \subseteq ToSet(DocOrder)
BY DEF DocOrder, ToSet

LEMMA HashedItemsAreNumbered ==
    ASSUME NEW items, NEW pictures, NEW sel, Valid(WithHash(items, pictures), sel)
    PROVE  Numbered(WithHash(items, pictures))
<1> DEFINE final == WithHash(items, pictures)
<1>1. final = [i \in DOMAIN final |-> final[i]]
  BY DEF WithHash
<1>2. DOMAIN final = 1..MaxSupply /\ \A i \in 1..MaxSupply : final[i].token_id = i
  BY DEF Valid
<1> HIDE DEF final
<1>3. Numbered(final)
  BY <1>1, <1>2 DEF Numbered
<1> QED
  BY <1>3 DEF final

LEMMA InitIsConsistent == Init => ReleaseInv
<1> SUFFICES ASSUME Init PROVE ReleaseInv
  OBVIOUS
<1>1. PICK sel \in Selections :
        LET items == Rebuilt(sel)
            first == Generated(items, BaseData)
            pictures == [i \in 1..Len(items) |-> BuildSvgFromItem(first, items[i])]
            final == WithHash(items, pictures)
        IN  /\ Valid(final, sel)
            /\ manifest = [created |-> 0, items |-> final]
            /\ summary = [created |-> 0, counts |-> Summarize(TraitsOf(final)), of |-> final]
            /\ DOMAIN viewer = {"svgs"} \cup ToSet(DocOrder)
            /\ job = Idle
  BY DEF Init
<1>2. Numbered(manifest.items)
  BY <1>1, HashedItemsAreNumbered
<1>3. /\ manifest.created = 0 /\ summary.created = 0 /\ summary.of = manifest.items
      /\ summary.counts = Summarize(TraitsOf(summary.of))
  BY <1>1
<1>4. {"collection", "filters"} \subseteq DOMAIN viewer
  BY <1>1, DocsInOrder
<1>5. job = Idle /\ job.script = "none"
  BY <1>1 DEF Idle
<1> QED
  BY <1>2, <1>3, <1>4, <1>5 DEF ReleaseInv, JobIsWhole

LEMMA NextIsConsistent == ReleaseInv /\ [Next]_vars => ReleaseInv'
<1> SUFFICES ASSUME ReleaseInv, [Next]_vars PROVE ReleaseInv'
  OBVIOUS
<1>1. CASE EditSelection
  BY <1>1 DEF EditSelection, ReleaseInv, JobIsWhole
<1>2. CASE RebuildStarts
  <2>1. job' = [script |-> "rebuild", step |-> "draw", sel |-> selection, items |-> Rebuilt(selection)]
        /\ UNCHANGED <<manifest, summary, viewer>>
    BY <1>2 DEF RebuildStarts
  <2>2. job'.script = "rebuild" /\ job'.step = "draw" /\ JobIsWhole'
    BY <2>1 DEF JobIsWhole
  <2> QED
    BY <2>1, <2>2 DEF ReleaseInv
<1>3. CASE RebuildDraws
  <2>1. PICK drawn : LET final == WithHash(job.items, drawn) IN
          /\ \/ job' = Idle
             \/ Valid(final, job.sel) /\ job' = [job EXCEPT !.step = "manifest", !.items = final]
          /\ UNCHANGED <<manifest, summary, viewer>> /\ job.script = "rebuild"
    BY <1>3 DEF RebuildDraws
  <2>2. CASE job' = Idle
    BY <2>1, <2>2 DEF ReleaseInv, JobIsWhole, Idle
  <2>3. CASE job' # Idle
    <3> DEFINE final == WithHash(job.items, drawn)
    <3>1. Valid(final, job.sel) /\ job' = [job EXCEPT !.step = "manifest", !.items = final]
      BY <2>1, <2>3
    <3>2. Numbered(final)
      BY <3>1, HashedItemsAreNumbered
    <3> HIDE DEF final
    <3>3. PICK step, kept, items : job = [script |-> "rebuild", step |-> step, sel |-> kept, items |-> items]
      BY <2>1 DEF ReleaseInv, JobIsWhole, Idle
    <3>4. job' = [script |-> "rebuild", step |-> "manifest", sel |-> kept, items |-> final]
      BY <3>1, <3>3
    <3>5. job'.script = "rebuild" /\ job'.step = "manifest" /\ job'.items = final /\ JobIsWhole'
      BY <3>4 DEF JobIsWhole
    <3> QED
      BY <2>1, <3>2, <3>5 DEF ReleaseInv
  <2> QED
    BY <2>2, <2>3
<1>4. CASE RebuildWritesManifest
  <2>1. /\ job.script = "rebuild" /\ job.step = "manifest"
        /\ manifest' = [created |-> manifest.created + 1, items |-> job.items]
        /\ job' = [job EXCEPT !.step = "summary"] /\ UNCHANGED <<summary, viewer>>
    BY <1>4 DEF RebuildWritesManifest
  <2>2. job = [script |-> "rebuild", step |-> job.step, sel |-> job.sel, items |-> job.items]
    BY <2>1 DEF ReleaseInv, JobIsWhole, Idle
  <2>3. job' = [script |-> "rebuild", step |-> "summary", sel |-> job.sel, items |-> job.items]
    BY <2>1, <2>2
  <2>4. job'.script = "rebuild" /\ job'.step = "summary" /\ job'.items = job.items /\ JobIsWhole'
    BY <2>3 DEF JobIsWhole
  <2>5. manifest'.items = job.items /\ manifest'.created = manifest.created + 1
    BY <2>1
  <2>6. /\ manifest.created + 1 \in Nat /\ summary.created <= manifest.created + 1
        /\ summary.created # manifest.created + 1 /\ Numbered(job.items)
    BY <2>1 DEF ReleaseInv
  <2> QED
    BY <2>1, <2>4, <2>5, <2>6 DEF ReleaseInv
<1>5. CASE RebuildWritesSummary
  <2>1. /\ job.script = "rebuild" /\ job.step = "summary"
        /\ summary' = [created |-> manifest.created, counts |-> Summarize(TraitsOf(job.items)), of |-> job.items]
        /\ job' = Idle /\ UNCHANGED <<manifest, viewer>>
    BY <1>5 DEF RebuildWritesSummary
  <2>2. job.items = manifest.items
    BY <2>1 DEF ReleaseInv
  <2>3. /\ summary'.created = manifest.created /\ summary'.of = manifest.items
        /\ summary'.counts = Summarize(TraitsOf(summary'.of))
    BY <2>1, <2>2
  <2> QED
    BY <2>1, <2>3 DEF ReleaseInv, JobIsWhole, Idle
<1>6. CASE GenerateOnchainData
  BY <1>6 DEF GenerateOnchainData, ReleaseInv, JobIsWhole
<1>7. CASE ViewerChecksItems
  <2>1. PICK svgs : viewer' = [viewer EXCEPT !.svgs = svgs]
    BY <1>7 DEF ViewerChecksItems
  <2>2. /\ job' = Idle \/ job' = [script |-> "viewer", step |-> 1, items |-> ByToken(manifest.items), summary |-> summary]
        /\ UNCHANGED <<manifest, summary>>
    BY <1>7 DEF ViewerChecksItems
  <2>3. ByToken(manifest.items) = manifest.items
    BY NumberedItems DEF ReleaseInv
  <2>4. {"collection", "filters"} \subseteq DOMAIN viewer'
    BY <2>1 DEF ReleaseInv
  <2>5. CASE job' = Idle
    BY <2>2, <2>4, <2>5 DEF ReleaseInv, JobIsWhole, Idle
  <2>6. CASE job' # Idle
    <3>1. job' = [script |-> "viewer", step |-> 1, items |-> manifest.items, summary |-> summary]
      BY <2>2, <2>3, <2>6
    <3>2. /\ job'.script = "viewer" /\ job'.step = 1 /\ job'.items = manifest.items /\ job'.summary = summary
          /\ JobIsWhole'
      BY <3>1 DEF JobIsWhole
    <3> QED
      BY <2>2, <2>4, <3>2, DocsInOrder DEF ReleaseInv
  <2> QED
    BY <2>5, <2>6
<1>8. CASE ViewerWritesDoc
  <2> DEFINE doc == DocOrder[job.step]
  <2>1. /\ job.script = "viewer"
        /\ viewer' = [viewer EXCEPT ![doc] = ViewerDoc(job.items, job.summary.counts, doc)]
        /\ job' = IF job.step = Len(DocOrder) THEN Idle ELSE [job EXCEPT !.step = @ + 1]
        /\ UNCHANGED <<manifest, summary>>
    BY <1>8 DEF ViewerWritesDoc
  <2>2. {"collection", "filters"} \subseteq DOMAIN viewer'
    BY <2>1 DEF ReleaseInv
  <2>3. CASE job.step = Len(DocOrder)
    BY <2>1, <2>2, <2>3 DEF ReleaseInv, JobIsWhole, Idle
  <2>4. CASE job.step # Len(DocOrder)
    <3>1. job = [script |-> "viewer", step |-> job.step, items |-> job.items, summary |-> job.summary]
      BY <2>1 DEF ReleaseInv, JobIsWhole, Idle
    <3>2. job' = [script |-> "viewer", step |-> job.step + 1, items |-> job.items, summary |-> job.summary]
      BY <2>1, <2>4, <3>1
    <3>3. /\ job'.script = "viewer" /\ job'.step = job.step + 1 /\ job'.items = job.items
          /\ job'.summary = job.summary /\ JobIsWhole'
      BY <3>2 DEF JobIsWhole
    <3>4. job.step \in 1..3 /\ job.step + 1 \in 1..Len(DocOrder)
      BY <2>1, <2>4, DocsInOrder DEF ReleaseInv
    <3>5. /\ job.step = 1 => viewer'.collection = ViewerDoc(job.items, job.summary.counts, "collection")
          /\ job.step = 2 => viewer'.filters = ViewerDoc(job.items, job.summary.counts, "filters")
          /\ job.step # 1 => viewer'.collection = viewer.collection
          /\ job.step # 2 => viewer'.filters = viewer.filters
      <4>1. {"collection", "filters"} \subseteq DOMAIN viewer
        BY DEF ReleaseInv
      <4>2. /\ job.step = 1 <=> doc = "collection"
            /\ job.step = 2 <=> doc = "filters"
        BY <3>4, DocsInOrder
      <4> HIDE DEF doc
      <4> QED
        BY <2>1, <4>1, <4>2
    <3>6. /\ job.items = manifest.items /\ job.summary = summary
          /\ job.step > 1 => viewer.collection = ViewerDoc(job.items, job.summary.counts, "collection")
          /\ job.step > 2 => viewer.filters = ViewerDoc(job.items, job.summary.counts, "filters")
      BY <2>1 DEF ReleaseInv
    <3>7. /\ job'.step > 1 => viewer'.collection = ViewerDoc(job'.items, job'.summary.counts, "collection")
          /\ job'.step > 2 => viewer'.filters = ViewerDoc(job'.items, job'.summary.counts, "filters")
      BY <3>3, <3>4, <3>5, <3>6
    <3> QED
      BY <2>1, <2>2, <3>3, <3>4, <3>6, <3>7 DEF ReleaseInv
  <2> QED
    BY <2>3, <2>4
<1>9. CASE Stops
  BY <1>9 DEF Stops, ReleaseInv, JobIsWhole, Idle
<1>10. CASE UNCHANGED vars
  BY <1>10 DEF vars, ReleaseInv, JobIsWhole
<1> QED
  BY <1>1, <1>2, <1>3, <1>4, <1>5, <1>6, <1>7, <1>8, <1>9, <1>10 DEF Next

(* What the filters list of a summary are the counts of the items it was made from. *)
LEMMA FiltersCount ==
    ASSUME NEW items, Numbered(items), NEW filters, filters = FilterDoc(Summarize(TraitsOf(items))),
           NEW key \in TraitKeys, NEW value \in DOMAIN filters[key]
    PROVE  filters[key][value] = Cardinality({i \in 1..MaxSupply : TraitValues(items[i])[key] = value})
<1> DEFINE traits == TraitsOf(items)
           counts == Summarize(traits)
<1>1. Len(items) = MaxSupply /\ MaxSupply \in Nat
  BY NumberedItems, CatArtAssumption
<1>2. traits = [i \in 1..MaxSupply |-> TraitValues(items[i])] /\ Len(traits) = MaxSupply
  <2>1. traits = [i \in 1..MaxSupply |-> TraitValues(items[i])]
    BY <1>1 DEF TraitsOf
  <2> QED
    BY <1>1, <2>1
<1> HIDE DEF traits
<1>3. filters[key][value] = counts[key][value] /\ value \in DOMAIN counts[key]
  <2>1. DOMAIN counts = TraitKeys
    BY DEF Summarize
  <2>2. filters = FilterDoc(counts)
    BY DEF traits
  <2> HIDE DEF counts
  <2> QED
    BY ONLY <2>1, <2>2, key \in TraitKeys, value \in DOMAIN filters[key] DEF FilterDoc, TraitKeys
<1>4. counts[key][value] = Cardinality({i \in 1..MaxSupply : traits[i][key] = value})
  BY <1>2, <1>3 DEF Summarize, CountOf
<1>5. {i \in 1..MaxSupply : traits[i][key] = value} =
        {i \in 1..MaxSupply : TraitValues(items[i])[key] = value}
  BY <1>2
<1> QED
  BY <1>3, <1>4, <1>5

(* summarize, buildFilterDoc: the option counts of the browse site are the true counts of the
   collection of the last rebuild that ended, in whatever order the scripts ran, failed and
   stopped; of the one shown beside them if that rebuild wrote its manifest too. *)
THEOREM FiltersAreTrueCounts == Spec => []FiltersCountTheCollection
<1>1. ReleaseInv => FiltersCountTheCollection
  <2> SUFFICES ASSUME ReleaseInv, job.script = "viewer", job.step > 2 PROVE FiltersCountTheCollection
    BY DEF FiltersCountTheCollection
  <2>1. job.step \in 1..4 /\ job.step > 1
    BY DocsInOrder DEF ReleaseInv
  <2>2. /\ viewer.collection = ViewerDoc(manifest.items, summary.counts, "collection")
        /\ viewer.filters = ViewerDoc(manifest.items, summary.counts, "filters")
    BY <2>1 DEF ReleaseInv
  <2>3. viewer.filters = FilterDoc(Summarize(TraitsOf(summary.of))) /\ Numbered(summary.of)
    BY <2>2 DEF ReleaseInv, ViewerDoc
  <2>4. viewer.collection = [i \in 1..Len(manifest.items) |-> CollectionItem(manifest.items[i])]
    BY <2>2 DEF ViewerDoc
  <2>5. Len(manifest.items) = MaxSupply /\ MaxSupply \in Nat
    BY NumberedItems, CatArtAssumption DEF ReleaseInv
  <2>6. summary.created = manifest.created =>
          \A i \in 1..MaxSupply : viewer.collection[i].trait_values = TraitValues(summary.of[i])
    BY <2>4, <2>5 DEF ReleaseInv, CollectionItem
  <2>7. ASSUME NEW key \in TraitKeys, NEW value \in DOMAIN viewer.filters[key]
        PROVE  viewer.filters[key][value] =
                 Cardinality({i \in 1..MaxSupply : TraitValues(summary.of[i])[key] = value})
    BY <2>3, <2>7, FiltersCount
  <2> QED
    BY <2>6, <2>7 DEF FiltersCountTheCollection
<1> QED
  BY <1>1, InitIsConsistent, NextIsConsistent, PTL DEF Spec

-----------------------------------------------------------------------------
(* The fixed layers and the beam of a generated file *)

LEMMA MaxHolds ==
    ASSUME NEW T, T \subseteq Nat, T # {}, NEW b \in Nat, \A x \in T : x <= b
    PROVE  Max(T) \in T /\ \A x \in T : Max(T) >= x
<1> DEFINE U == {u \in Nat : \A x \in T : x <= u}
<1>1. PICK u \in U : \A v \in U : u <= v
  <2>1. U \subseteq Nat /\ U # {}
    OBVIOUS
  <2> HIDE DEF U
  <2>2. \E n \in U : \A m \in U : n <= m
    BY <2>1, NatMin
  <2> QED
    BY <2>2
<1>2. u \in T
  <2> SUFFICES ASSUME u \notin T PROVE FALSE
    OBVIOUS
  <2>1. \A x \in T : x \in Nat /\ x < u
    BY <1>1
  <2>2. u - 1 \in Nat
    <3>1. \E x \in T : x \in Nat /\ x < u
      BY <2>1
    <3> QED
      BY <1>1, <3>1
  <2>3. \A x \in T : x <= u - 1
    BY <1>1, <2>1
  <2>4. u - 1 \in U
    BY <2>2, <2>3
  <2>5. u <= u - 1
    BY <1>1, <2>4
  <2> QED
    BY <1>1, <2>5
<1>3. \A x \in T : u >= x
  BY <1>1
<1>4. \E x \in T : \A y \in T : x >= y
  BY <1>2, <1>3
<1> QED
  BY <1>4 DEF Max

Half == Area \div 2

LEMMA Halves == Half \in Nat /\ Area = 2 * Half /\ Area \in Nat /\ Half >= 0
<1>1. PICK a \in Nat : a = Width * Height
  BY CatArtAssumption
<1>2. a % 2 = 0
  BY <1>1, CatArtAssumption
<1>3. a \div 2 \in Nat /\ a = 2 * (a \div 2)
  BY <1>2, SMT
<1> QED
  BY <1>1, <1>3 DEF Half, Area

(* Beam pixels: the table of values, the clear one first, and each pixel's place in it. *)
LEMMA RowOfPlace ==
    ASSUME NEW w \in Nat \ {0}, NEW x \in Nat, x < w, NEW y \in Nat, NEW m \in Nat, m = y * w
    PROVE  (m + x) % w = x /\ (m + x) \div w = y
<1>1. PICK j \in Nat : j = m + x
  OBVIOUS
<1>2. PICK d \in Nat, r \in Nat : d = j \div w /\ r = j % w /\ j = w * d + r /\ r < w
  BY SMT
<1>3. ~(d < y)
  <2> SUFFICES ASSUME d < y PROVE FALSE
    OBVIOUS
  <2>1. PICK e \in Nat : y = d + 1 + e
    <3>1. y - (d + 1) \in Nat /\ y = d + 1 + (y - (d + 1))
      OBVIOUS
    <3> QED
      BY <3>1
  <2>2. m = d * w + w + e * w /\ e * w \in Nat
    BY <2>1, SMT
  <2>3. d * w = w * d /\ w * d \in Nat
    BY SMT
  <2> QED
    BY <1>1, <1>2, <2>2, <2>3
<1>4. ~(d > y)
  <2> SUFFICES ASSUME d > y PROVE FALSE
    OBVIOUS
  <2>1. PICK e \in Nat : d = y + 1 + e
    <3>1. d - (y + 1) \in Nat /\ d = y + 1 + (d - (y + 1))
      OBVIOUS
    <3> QED
      BY <3>1
  <2>2. w * d = w * y + w + w * e /\ w * e \in Nat
    BY <2>1, SMT
  <2>3. w * y = m
    BY SMT
  <2> QED
    BY <1>1, <1>2, <2>2, <2>3
<1>5. d = y
  BY <1>3, <1>4
<1>6. w * d = m
  BY <1>5, SMT
<1> QED
  BY <1>1, <1>2, <1>5, <1>6

LEMMA RowMajorIs ==
    ASSUME NEW p \in Pixels, NEW k, k = p[2] * Width + p[1] + 1
    PROVE  k \in 1..Area /\ (k - 1) % Width = p[1] /\ (k - 1) \div Width = p[2]
<1>1. PICK w \in Nat \ {0}, h \in Nat \ {0} : w = Width /\ h = Height
  BY CatArtAssumption
<1>2. PICK x \in Nat, y \in Nat : x = p[1] /\ y = p[2] /\ x < w /\ y < h /\ y + 1 <= h
  BY <1>1, PixelParts
<1>3. PICK m \in Nat : m = y * w
  BY <1>1, <1>2
<1>4. (y + 1) * w = m + w /\ m + w <= h * w /\ h * w = w * h
  <2>1. (y + 1) * w = m + w
    BY <1>3, SMT
  <2>2. PICK d \in Nat : h = (y + 1) + d
    <3>1. h - (y + 1) \in Nat /\ h = (y + 1) + (h - (y + 1))
      BY <1>2
    <3> QED
      BY <3>1
  <2>3. h * w = (y + 1) * w + d * w /\ d * w \in Nat
    BY <2>2, SMT
  <2>4. h * w = w * h
    BY SMT
  <2> QED
    BY <2>1, <2>3, <2>4
<1>5. k = m + x + 1 /\ m + x \in Nat /\ k <= w * h
  BY <1>1, <1>2, <1>3, <1>4
<1>6. (m + x) % w = x /\ (m + x) \div w = y
  BY <1>2, <1>3, RowOfPlace
<1>7. k \in 1..Area
  BY <1>1, <1>4, <1>5 DEF Area
<1>8. k - 1 = m + x
  BY <1>5
<1> QED
  BY <1>1, <1>2, <1>6, <1>7, <1>8

LEMMA PixelOf ==
    ASSUME NEW k \in 1..Area
    PROVE  << (k - 1) % Width, (k - 1) \div Width >> \in Pixels
<1>1. PICK w \in Nat \ {0}, h \in Nat \ {0} : w = Width /\ h = Height
  BY CatArtAssumption
<1>2. PICK a \in Nat : a = w * h
  OBVIOUS
<1>3. k \in 1..a
  BY <1>1, <1>2 DEF Area
<1>4. k - 1 \in Nat /\ k - 1 < w * h
  BY <1>2, <1>3
<1>5. PICK j \in Nat : j = k - 1
  BY <1>4
<1>6. j % w \in 0..(w - 1)
  BY SMT
<1>7. j \div w \in Nat /\ j \div w < h
  <2>1. j < w * h
    BY <1>4, <1>5
  <2>2. PICK d \in Nat, r \in Nat : d = j \div w /\ r = j % w /\ j = w * d + r
    BY SMT
  <2>3. d < h
    <3> SUFFICES ASSUME d >= h PROVE FALSE
      OBVIOUS
    <3>1. w * d >= w * h
      BY SMT
    <3> QED
      BY <2>1, <2>2, <3>1, SMT
  <2> QED
    BY <2>2, <2>3
<1>8. j \div w \in 0..(h - 1)
  BY <1>7
<1> QED
  BY <1>1, <1>5, <1>6, <1>8, PixelParts

LEMMA BeamTable ==
    /\ BeamValues \in Seq(Nat) /\ Distinct(BeamValues) /\ Len(BeamValues) >= 1 /\ BeamValues[1] = Clear
    /\ BeamColors \in Seq(Nat) /\ Len(BeamColors) = Len(BeamValues) - 1
    /\ \A v \in 1..Len(BeamColors) : BeamColors[v] = BeamValues[v + 1]
    /\ BeamNibbles \in Seq(0..Len(BeamColors)) /\ Len(BeamNibbles) = Area
    /\ \A k \in 1..Area : BeamValues[BeamNibbles[k] + 1] = RowMajor(BeamPixels)[k]
<1> DEFINE row == RowMajor(BeamPixels)
<1>1. Area \in Nat /\ row \in [1..Area -> Nat]
  BY Halves, PixelOf, OnchainAssumption DEF RowMajor
<1>2. row \in Seq(Nat) /\ Len(row) = Area
  BY <1>1
<1> HIDE DEF row
<1>3. << Clear >> \in Seq(Nat) /\ Distinct(<< Clear >>) /\ Len(<< Clear >>) = 1 /\ << Clear >>[1] = Clear
  BY DEF Clear, Distinct
<1>4. /\ BeamValues \in Seq(Nat) /\ Distinct(BeamValues) /\ StartsWith(BeamValues, << Clear >>)
      /\ \A i \in 1..Len(row) : Known(BeamValues, row[i])
  BY <1>2, <1>3, FirstSeenHolds DEF BeamValues, row
<1>5. Len(BeamValues) >= 1 /\ BeamValues[1] = Clear /\ Len(BeamValues) \in Nat
  BY <1>3, <1>4 DEF StartsWith
<1>6. BeamColors \in Seq(Nat) /\ Len(BeamColors) = Len(BeamValues) - 1
      /\ \A v \in 1..Len(BeamColors) : BeamColors[v] = BeamValues[v + 1]
  <2>1. BeamValues # << >>
    BY <1>5
  <2> QED
    BY <1>4, <2>1, HeadTailProperties DEF BeamColors
<1>7. \A k \in 1..Area : IdIn(BeamValues, row[k]) \in 0..(Len(BeamValues) - 1)
                         /\ BeamValues[IdIn(BeamValues, row[k]) + 1] = row[k]
  BY <1>2, <1>4, <1>5, IdInTable
<1>8. BeamNibbles = [k \in 1..Area |-> IdIn(BeamValues, row[k])]
  BY DEF BeamNibbles, row
<1>9. BeamNibbles \in [1..Area -> 0..Len(BeamColors)]
  BY <1>6, <1>7, <1>8
<1>10. BeamNibbles \in Seq(0..Len(BeamColors)) /\ Len(BeamNibbles) = Area
  BY <1>1, <1>9
<1>11. \A k \in 1..Area : BeamValues[BeamNibbles[k] + 1] = row[k]
  BY <1>7, <1>8
<1> QED
  BY <1>4, <1>5, <1>6, <1>10, <1>11 DEF row

LEMMA Beginning ==
    ASSUME NEW S, NEW s \in Seq(S), NEW n \in 0..Len(s)
    PROVE  /\ SubSeq(s, 1, n) \in Seq(S) /\ Len(SubSeq(s, 1, n)) = n
           /\ \A k \in 1..n : SubSeq(s, 1, n)[k] = s[k]
<1>1. \A k \in 1..n : s[k] \in S
  BY ElementOfSeq, LenProperties
<1>2. n \in Int /\ 1 \in Int /\ n \in Nat
  BY LenProperties
<1>3. /\ SubSeq(s, 1, n) \in Seq(S) /\ Len(SubSeq(s, 1, n)) = IF 1 <= n THEN n - 1 + 1 ELSE 0
      /\ \A i \in 1..(n - 1 + 1) : SubSeq(s, 1, n)[i] = s[1 + i - 1]
  BY ONLY <1>1, <1>2, SubSeqProperties
<1> QED
  BY <1>2, <1>3

LEMMA FrontOfConcat ==
    ASSUME NEW S, NEW s \in Seq(S), NEW t \in Seq(S), NEW n, n = Len(s)
    PROVE  SubSeq(s \o t, 1, n) = s
<1>1. s \o t \in Seq(S) /\ Len(s \o t) = Len(s) + Len(t) /\ Len(s) \in Nat /\ Len(t) \in Nat
      /\ \A i \in 1..Len(s) + Len(t) : (s \o t)[i] = IF i <= Len(s) THEN s[i] ELSE t[i - Len(s)]
  BY ConcatProperties, LenProperties
<1>2. n \in 0..Len(s \o t)
  BY <1>1
<1>3. /\ SubSeq(s \o t, 1, n) \in Seq(S) /\ Len(SubSeq(s \o t, 1, n)) = n
      /\ \A k \in 1..n : SubSeq(s \o t, 1, n)[k] = (s \o t)[k]
  BY <1>1, <1>2, Beginning
<1>4. \A k \in 1..Len(s) : SubSeq(s \o t, 1, n)[k] = s[k]
  BY <1>1, <1>3
<1>5. PICK u \in Seq(S) : u = SubSeq(s \o t, 1, n)
  BY <1>3
<1>6. Len(u) = Len(s) /\ \A k \in 1..Len(u) : u[k] = s[k]
  BY <1>3, <1>4, <1>5
<1>7. u = s
  BY <1>6, SeqEqual
<1> QED
  BY <1>5, <1>7

LEMMA AllOfIt ==
    ASSUME NEW n \in Nat, NEW S, NEW s \in [1..n -> S]
    PROVE  SubSeq(s, 1, n) = s
<1>1. s \in Seq(S) /\ Len(s) = n
  OBVIOUS
<1> QED
  BY <1>1, SubSeqFull

LEMMA PaletteEndIs == PaletteEnd(BaseData) \in Nat
<1> DEFINE meta == BaseData.fixedMeta
           f(layer) == OffsetBase * meta[3 * layer + 1] + meta[3 * layer + 2] + meta[3 * layer + 3]
           T == {0} \cup {f(layer) : layer \in 0..7}
<1>1. meta \in Seq(Nat) /\ Len(meta) >= 24 /\ OffsetBase \in Nat
  BY BaseDataAssumption, RecordsAssumption DEF PreservedLayers
<1> HIDE DEF meta
<1>2. \A layer \in 0..7 : f(layer) \in Nat
  <2> TAKE layer \in 0..7
  <2>1. 3 * layer + 1 \in 1..Len(meta) /\ 3 * layer + 2 \in 1..Len(meta) /\ 3 * layer + 3 \in 1..Len(meta)
    BY <1>1
  <2>2. PICK a \in Nat, b \in Nat, c \in Nat : a = meta[3 * layer + 1] /\ b = meta[3 * layer + 2] /\ c = meta[3 * layer + 3]
    BY <1>1, <2>1
  <2>3. OffsetBase * a + b + c \in Nat
    BY <1>1
  <2> QED
    BY <2>2, <2>3
<1> HIDE DEF f
<1>3. PICK b \in Nat : \A layer \in 0..7 : f(layer) <= b
  <2>1. f(0) + f(1) + f(2) + f(3) + f(4) + f(5) + f(6) + f(7) \in Nat
    BY <1>2
  <2>2. \A layer \in 0..7 : f(layer) <= f(0) + f(1) + f(2) + f(3) + f(4) + f(5) + f(6) + f(7)
    BY <1>2
  <2> QED
    BY <2>1, <2>2
<1>4. T \subseteq Nat /\ T # {} /\ \A x \in T : x <= b
  BY <1>2, <1>3
<1>5. Max(T) \in Nat
  <2> HIDE DEF T
  <2> QED
    BY <1>4, MaxHolds
<1>6. PaletteEnd(BaseData) = Max(T)
  BY DEF PaletteEnd, PreservedLayers, TupleMeta, f, meta
<1> QED
  BY <1>5, <1>6

(* The palettes of the first eight layers end where their entries say. *)
LEMMA PaletteEndReads ==
    ASSUME NEW d, \A k \in 1..24 : d.fixedMeta[k] = BaseData.fixedMeta[k]
    PROVE  PaletteEnd(d) = PaletteEnd(BaseData)
<1>1. \A layer \in 0..(PreservedLayers - 1) :
          /\ d.fixedMeta[3 * layer + 1] = BaseData.fixedMeta[3 * layer + 1]
          /\ d.fixedMeta[3 * layer + 2] = BaseData.fixedMeta[3 * layer + 2]
          /\ d.fixedMeta[3 * layer + 3] = BaseData.fixedMeta[3 * layer + 3]
  BY DEF PreservedLayers
<1>2. \A layer \in 0..(PreservedLayers - 1) : TupleMeta(d.fixedMeta, layer) = TupleMeta(BaseData.fixedMeta, layer)
  BY <1>1 DEF TupleMeta
<1> QED
  BY <1>2 DEF PaletteEnd

(* What a generated file has of the one before it: the front of every list. *)
KeptPixels  == SubSeq(BaseData.fixedPixels, 1, PreservedLayers * Half)
KeptMeta    == SubSeq(BaseData.fixedMeta, 1, 3 * PreservedLayers)
KeptColours == SubSeq(BaseData.fixedPalettes, 1, PaletteEnd(BaseData))
BeamMeta    == MetaBytes(Len(KeptColours), Len(BeamColors))

LEMMA KeptIs ==
    /\ KeptPixels \in Seq(Nat) /\ Len(KeptPixels) = PreservedLayers * Half
    /\ KeptMeta \in Seq(Nat) /\ Len(KeptMeta) = 24 /\ \A k \in 1..24 : KeptMeta[k] = BaseData.fixedMeta[k]
    /\ KeptColours \in Seq(Nat) /\ Len(KeptColours) = PaletteEnd(BaseData)
    /\ PackNibbles(BeamNibbles) \in Seq(Nat) /\ BeamMeta \in Seq(Nat) /\ BeamColors \in Seq(Nat)
<1>1. PreservedLayers * Half \in 0..Len(BaseData.fixedPixels) /\ BaseData.fixedPixels \in Seq(Nat)
  <2>1. Half \in Nat /\ PreservedLayers * Half \in Nat /\ Len(BaseData.fixedPixels) \in Nat
    BY Halves, BaseDataAssumption, LenProperties DEF PreservedLayers
  <2> QED
    BY <2>1, BaseDataAssumption DEF Half
<1>2. 24 \in 0..Len(BaseData.fixedMeta) /\ BaseData.fixedMeta \in Seq(Nat) /\ 3 * PreservedLayers = 24
  BY BaseDataAssumption, LenProperties DEF PreservedLayers
<1>3. PaletteEnd(BaseData) \in 0..Len(BaseData.fixedPalettes) /\ BaseData.fixedPalettes \in Seq(Nat)
  BY BaseDataAssumption, LenProperties, PaletteEndIs
<1>4. KeptPixels \in Seq(Nat) /\ Len(KeptPixels) = PreservedLayers * Half
  BY <1>1, Beginning DEF KeptPixels
<1>5. KeptMeta \in Seq(Nat) /\ Len(KeptMeta) = 24 /\ \A k \in 1..24 : KeptMeta[k] = BaseData.fixedMeta[k]
  <2>1. PICK n : n = 3 * PreservedLayers
    OBVIOUS
  <2>2. n \in 0..Len(BaseData.fixedMeta) /\ n = 24
    BY <1>2, <2>1
  <2>3. KeptMeta = SubSeq(BaseData.fixedMeta, 1, n)
    BY <2>1 DEF KeptMeta
  <2>4. PICK s \in Seq(Nat) : s = BaseData.fixedMeta
    BY <1>2
  <2>5. n \in 0..Len(s)
    BY <2>2, <2>4
  <2>6. /\ SubSeq(s, 1, n) \in Seq(Nat) /\ Len(SubSeq(s, 1, n)) = n
        /\ \A k \in 1..n : SubSeq(s, 1, n)[k] = s[k]
    BY ONLY <2>5, Beginning
  <2> QED
    BY <2>2, <2>3, <2>4, <2>6
<1>6. KeptColours \in Seq(Nat) /\ Len(KeptColours) = PaletteEnd(BaseData)
  BY <1>3, Beginning DEF KeptColours
<1>7. PackNibbles(BeamNibbles) \in Seq(Nat)
  <2>1. PICK n \in Nat : n = Len(BeamColors)
    BY BeamTable
  <2>2. BeamNibbles \in Seq(0..n) /\ Len(BeamNibbles) = 2 * Half /\ Half \in Nat /\ (2 * Half) \div 2 = Half
    BY <2>1, BeamTable, Halves
  <2>3. \A k \in 1..Half : 16 * BeamNibbles[2 * k - 1] + BeamNibbles[2 * k] \in Nat
    <3> TAKE k \in 1..Half
    <3>1. 2 * k - 1 \in 1..Len(BeamNibbles) /\ 2 * k \in 1..Len(BeamNibbles)
      BY <2>2
    <3>2. PICK a \in 0..n, b \in 0..n : a = BeamNibbles[2 * k - 1] /\ b = BeamNibbles[2 * k]
      BY <2>2, <3>1
    <3> QED
      BY <3>2
  <2>4. PackNibbles(BeamNibbles) = [k \in 1..Half |-> 16 * BeamNibbles[2 * k - 1] + BeamNibbles[2 * k]]
    BY <2>2 DEF PackNibbles
  <2>5. PackNibbles(BeamNibbles) \in [1..Half -> Nat]
    BY <2>3, <2>4
  <2> QED
    BY <2>2, <2>5
<1>8. BeamMeta \in Seq(Nat)
  <2>1. PICK a \in Nat, c \in Nat, o \in Nat \ {0} : a = Len(KeptColours) /\ c = Len(BeamColors) /\ o = OffsetBase
    BY <1>6, BeamTable, RecordsAssumption, LenProperties
  <2>2. (a \div o) \in Nat /\ (a \div o) % o \in Nat /\ a % o \in Nat
    <3>1. PICK d \in Nat : d = a \div o
      BY SMT
    <3> QED
      BY <3>1, SMT
  <2> QED
    BY <2>1, <2>2 DEF BeamMeta, MetaBytes
<1> QED
  BY <1>4, <1>5, <1>6, <1>7, <1>8, BeamTable

LEMMA LayersAre ==
    FixedLayers(BaseData) = [pixels   |-> KeptPixels \o PackNibbles(BeamNibbles),
                             meta     |-> KeptMeta \o BeamMeta,
                             palettes |-> KeptColours \o BeamColors]
BY DEF FixedLayers, KeptPixels, KeptMeta, KeptColours, BeamMeta, Half

(* A generated file has the same fixed layers when a file is generated from it. *)
LEMMA LayersAreKept ==
    ASSUME NEW d, d.fixedPixels = KeptPixels \o PackNibbles(BeamNibbles),
           d.fixedMeta = KeptMeta \o BeamMeta, d.fixedPalettes = KeptColours \o BeamColors
    PROVE  FixedLayers(d) = FixedLayers(BaseData)
<1>1. SubSeq(d.fixedPixels, 1, PreservedLayers * Half) = KeptPixels
  BY KeptIs, FrontOfConcat
<1>2. SubSeq(d.fixedMeta, 1, 3 * PreservedLayers) = KeptMeta
  <2>1. PICK n : n = 3 * PreservedLayers
    OBVIOUS
  <2>2. n = Len(KeptMeta)
    BY <2>1, KeptIs DEF PreservedLayers
  <2>3. SubSeq(KeptMeta \o BeamMeta, 1, n) = KeptMeta
    BY <2>2, KeptIs, FrontOfConcat
  <2> QED
    BY <2>1, <2>3
<1>3. \A k \in 1..24 : d.fixedMeta[k] = BaseData.fixedMeta[k]
  <2>1. \A i \in 1..Len(KeptMeta) + Len(BeamMeta) :
           (KeptMeta \o BeamMeta)[i] = IF i <= Len(KeptMeta) THEN KeptMeta[i] ELSE BeamMeta[i - Len(KeptMeta)]
    BY KeptIs, ConcatProperties
  <2>2. Len(BeamMeta) \in Nat
    BY KeptIs, LenProperties
  <2>3. Len(KeptMeta) = 24 /\ \A k \in 1..24 : KeptMeta[k] = BaseData.fixedMeta[k]
    BY KeptIs
  <2>4. PICK m \in Nat : m = Len(BeamMeta)
    BY <2>2
  <2>5. \A k \in 1..(24 + m) : (KeptMeta \o BeamMeta)[k] = IF k <= 24 THEN KeptMeta[k] ELSE BeamMeta[k - 24]
    BY <2>1, <2>3, <2>4
  <2>6. \A k \in 1..24 : k \in 1..(24 + m) /\ k <= 24
    OBVIOUS
  <2>7. \A k \in 1..24 : (KeptMeta \o BeamMeta)[k] = KeptMeta[k]
    BY <2>5, <2>6
  <2> QED
    BY <2>3, <2>7
<1>4. PaletteEnd(d) = PaletteEnd(BaseData)
  BY <1>3, PaletteEndReads
<1>5. SubSeq(d.fixedPalettes, 1, PaletteEnd(d)) = KeptColours
  BY <1>4, KeptIs, FrontOfConcat
<1>6. FixedLayers(d) = [pixels   |-> KeptPixels \o PackNibbles(BeamNibbles),
                        meta     |-> KeptMeta \o BeamMeta,
                        palettes |-> KeptColours \o BeamColors]
  BY <1>1, <1>2, <1>5 DEF FixedLayers, BeamMeta, Half
<1> QED
  BY <1>6, LayersAre

(* A data file generated, however often, from the first one: its parts that no manifest changes. *)
HasKeptParts(d) ==
    /\ d.slotCounts = BaseData.slotCounts /\ d.masks = BaseData.masks
    /\ d.fixedPixels = KeptPixels \o PackNibbles(BeamNibbles)
    /\ d.fixedMeta = KeptMeta \o BeamMeta /\ d.fixedPalettes = KeptColours \o BeamColors

LEMMA CountsAndMasks ==
    /\ SubSeq(BaseData.slotCounts, 1, PatternCount) = BaseData.slotCounts
    /\ SubSeq(BaseData.masks, 1, PatternCount * (Area \div 2)) = BaseData.masks
<1>1. PatternCount = 10
  BY DEF PatternCount, PATTERN_NAMES
<1>2. PICK n \in Nat, m \in Nat : n = PatternCount /\ m = PatternCount * (Area \div 2)
  BY <1>1, Halves DEF Half
<1> QED
  BY <1>2, AllOfIt, BaseDataAssumption

LEMMA GeneratedHasThem == ASSUME NEW items PROVE HasKeptParts(Generated(items, BaseData))
BY LayersAre, CountsAndMasks DEF HasKeptParts, Generated

(* Generating from a generated file is generating from the first one. *)
LEMMA GeneratedAgain ==
    ASSUME NEW d, HasKeptParts(d), NEW items
    PROVE  Generated(items, d) = Generated(items, BaseData)
<1>1. FixedLayers(d) = FixedLayers(BaseData)
  BY LayersAreKept DEF HasKeptParts
<1> QED
  BY <1>1 DEF Generated, HasKeptParts

-----------------------------------------------------------------------------
(* The records and the colour tuples of a generated file *)

LEMMA QuotientAndRest ==
    ASSUME NEW b \in Nat \ {0}, NEW o \in Nat
    PROVE  \E q \in Nat, r \in Nat : q = o \div b /\ r = o % b /\ o = b * q + r
BY SMT

(* An offset of two bytes is read back from its entry. *)
LEMMA MetaRoundTrip ==
    ASSUME NEW meta, NEW n \in Nat, NEW o \in 0..MaxOffset, NEW l, StandsAt(meta, 3 * n, MetaBytes(o, l))
    PROVE  TupleMeta(meta, n) = [offset |-> o, len |-> l]
<1>1. PICK b \in Nat \ {0} : b = OffsetBase
  BY RecordsAssumption
<1>2. o \in Nat /\ o < b * b
  BY <1>1, SMT DEF MaxOffset
<1>3. PICK q \in Nat, r \in Nat : q = o \div b /\ r = o % b /\ o = b * q + r
  BY <1>2, QuotientAndRest
<1>4. q < b
  <2> SUFFICES ASSUME q >= b PROVE FALSE
    BY <1>1
  <2>1. b * q >= b * b
    BY SMT
  <2> QED
    BY <1>2, <1>3, <2>1, SMT
<1>5. q % b = q
  BY <1>4, SMT
<1>6. meta[3 * n + 1] = q /\ meta[3 * n + 2] = r /\ meta[3 * n + 3] = l
  <2>1. PICK bytes : bytes = MetaBytes(o, l)
    OBVIOUS
  <2>2. bytes = << q, r, l >>
    BY <1>1, <1>3, <1>5, <2>1 DEF MetaBytes
  <2>3. Len(bytes) = 3 /\ bytes[1] = q /\ bytes[2] = r /\ bytes[3] = l
    BY <2>2
  <2>4. \A k \in 1..3 : meta[3 * n + k] = bytes[k]
    BY <2>1, <2>3 DEF StandsAt
  <2> QED
    BY <2>3, <2>4
<1> QED
  BY <1>1, <1>3, <1>6 DEF TupleMeta

(* The names of a trait come back from the ids they were packed as. *)
LEMMA NamesRoundTrip ==
    /\ \A name : Known(PATTERN_NAMES, name) => /\ IdIn(PATTERN_NAMES, name) \in 0..9
                                              /\ PatternName(IdIn(PATTERN_NAMES, name)) = name
    /\ \A name : Known(PALETTE_NAMES, name) => /\ IdIn(PALETTE_NAMES, name) \in 0..12
                                              /\ PaletteName(IdIn(PALETTE_NAMES, name)) = name
    /\ \A name : Known(COLLAR_TYPE_NAMES, name) => /\ IdIn(COLLAR_TYPE_NAMES, name) \in 0..2
                                                  /\ CollarTypeName(IdIn(COLLAR_TYPE_NAMES, name)) = name
    /\ \A name : Known(RARITY_TIER_NAMES, name) => /\ IdIn(RARITY_TIER_NAMES, name) \in 0..2
                                                  /\ RarityTierName(IdIn(RARITY_TIER_NAMES, name)) = name
    /\ \A name : Known(RARITY_TYPE_NAMES, name) => /\ IdIn(RARITY_TYPE_NAMES, name) \in 0..6
                                                  /\ RarityTypeName(IdIn(RARITY_TYPE_NAMES, name)) = name
<1>1. /\ Len(PATTERN_NAMES) = 10 /\ Len(PALETTE_NAMES) = 13 /\ Len(COLLAR_TYPE_NAMES) = 3
      /\ Len(RARITY_TIER_NAMES) = 3 /\ Len(RARITY_TYPE_NAMES) = 7
  BY DEF PATTERN_NAMES, PALETTE_NAMES, COLLAR_TYPE_NAMES, RARITY_TIER_NAMES, RARITY_TYPE_NAMES
<1>2. \A id \in 0..9 : PatternName(id) = PATTERN_NAMES[id + 1]
  BY DEF PatternName, PATTERN_NAMES
<1>3. \A id \in 0..12 : PaletteName(id) = PALETTE_NAMES[id + 1]
  BY DEF PaletteName, PALETTE_NAMES
<1>4. \A id \in 0..2 : CollarTypeName(id) = COLLAR_TYPE_NAMES[id + 1]
  BY DEF CollarTypeName, COLLAR_TYPE_NAMES
<1>5. \A id \in 0..2 : RarityTierName(id) = RARITY_TIER_NAMES[id + 1]
  BY DEF RarityTierName, RARITY_TIER_NAMES
<1>6. \A id \in 0..6 : RarityTypeName(id) = RARITY_TYPE_NAMES[id + 1]
  BY DEF RarityTypeName, RARITY_TYPE_NAMES
<1>7. ASSUME NEW name, Known(PATTERN_NAMES, name)
      PROVE  IdIn(PATTERN_NAMES, name) \in 0..9 /\ PATTERN_NAMES[IdIn(PATTERN_NAMES, name) + 1] = name
  <2>1. Len(PATTERN_NAMES) \in Nat
    BY <1>1
  <2>2. IdIn(PATTERN_NAMES, name) \in 0..(Len(PATTERN_NAMES) - 1) /\ PATTERN_NAMES[IdIn(PATTERN_NAMES, name) + 1] = name
    BY ONLY <2>1, <1>7, IdInTable
  <2> QED
    BY <1>1, <2>2
<1>8. ASSUME NEW name, Known(PALETTE_NAMES, name)
      PROVE  IdIn(PALETTE_NAMES, name) \in 0..12 /\ PALETTE_NAMES[IdIn(PALETTE_NAMES, name) + 1] = name
  <2>1. Len(PALETTE_NAMES) \in Nat
    BY <1>1
  <2>2. IdIn(PALETTE_NAMES, name) \in 0..(Len(PALETTE_NAMES) - 1) /\ PALETTE_NAMES[IdIn(PALETTE_NAMES, name) + 1] = name
    BY ONLY <2>1, <1>8, IdInTable
  <2> QED
    BY <1>1, <2>2
<1>9. ASSUME NEW name, Known(COLLAR_TYPE_NAMES, name)
      PROVE  IdIn(COLLAR_TYPE_NAMES, name) \in 0..2 /\ COLLAR_TYPE_NAMES[IdIn(COLLAR_TYPE_NAMES, name) + 1] = name
  <2>1. Len(COLLAR_TYPE_NAMES) \in Nat
    BY <1>1
  <2>2. IdIn(COLLAR_TYPE_NAMES, name) \in 0..(Len(COLLAR_TYPE_NAMES) - 1) /\ COLLAR_TYPE_NAMES[IdIn(COLLAR_TYPE_NAMES, name) + 1] = name
    BY ONLY <2>1, <1>9, IdInTable
  <2> QED
    BY <1>1, <2>2
<1>10. ASSUME NEW name, Known(RARITY_TIER_NAMES, name)
       PROVE  IdIn(RARITY_TIER_NAMES, name) \in 0..2 /\ RARITY_TIER_NAMES[IdIn(RARITY_TIER_NAMES, name) + 1] = name
  <2>1. Len(RARITY_TIER_NAMES) \in Nat
    BY <1>1
  <2>2. IdIn(RARITY_TIER_NAMES, name) \in 0..(Len(RARITY_TIER_NAMES) - 1) /\ RARITY_TIER_NAMES[IdIn(RARITY_TIER_NAMES, name) + 1] = name
    BY ONLY <2>1, <1>10, IdInTable
  <2> QED
    BY <1>1, <2>2
<1>11. ASSUME NEW name, Known(RARITY_TYPE_NAMES, name)
       PROVE  IdIn(RARITY_TYPE_NAMES, name) \in 0..6 /\ RARITY_TYPE_NAMES[IdIn(RARITY_TYPE_NAMES, name) + 1] = name
  <2>1. Len(RARITY_TYPE_NAMES) \in Nat
    BY <1>1
  <2>2. IdIn(RARITY_TYPE_NAMES, name) \in 0..(Len(RARITY_TYPE_NAMES) - 1) /\ RARITY_TYPE_NAMES[IdIn(RARITY_TYPE_NAMES, name) + 1] = name
    BY ONLY <2>1, <1>11, IdInTable
  <2> QED
    BY <1>1, <2>2
<1> QED
  BY <1>2, <1>3, <1>4, <1>5, <1>6, <1>7, <1>8, <1>9, <1>10, <1>11

(* The tiers and rarity types that decide which layers are painted. *)
LEMMA RarityIds ==
    /\ \A name : Known(RARITY_TIER_NAMES, name) =>
          /\ IdIn(RARITY_TIER_NAMES, name) = 1 <=> name = "rare"
          /\ IdIn(RARITY_TIER_NAMES, name) = 2 <=> name = "superrare"
    /\ \A name : Known(RARITY_TYPE_NAMES, name) =>
          /\ IdIn(RARITY_TYPE_NAMES, name) = 6 <=> name = "beam"
          /\ RareLayer(IdIn(RARITY_TYPE_NAMES, name)) = NamedRareLayer(name)
<1>1. ASSUME NEW name, Known(RARITY_TIER_NAMES, name)
      PROVE  /\ IdIn(RARITY_TIER_NAMES, name) = 1 <=> name = "rare"
             /\ IdIn(RARITY_TIER_NAMES, name) = 2 <=> name = "superrare"
  <2>1. PICK id \in 0..2 : id = IdIn(RARITY_TIER_NAMES, name) /\ RarityTierName(id) = name
    BY <1>1, NamesRoundTrip
  <2> QED
    BY <2>1 DEF RarityTierName
<1>2. ASSUME NEW name, Known(RARITY_TYPE_NAMES, name)
      PROVE  /\ IdIn(RARITY_TYPE_NAMES, name) = 6 <=> name = "beam"
             /\ RareLayer(IdIn(RARITY_TYPE_NAMES, name)) = NamedRareLayer(name)
  <2>1. PICK id \in 0..6 : id = IdIn(RARITY_TYPE_NAMES, name) /\ RarityTypeName(id) = name
    BY <1>2, NamesRoundTrip
  <2>2. id = 0 \/ id = 1 \/ id = 2 \/ id = 3 \/ id = 4 \/ id = 5 \/ id = 6
    OBVIOUS
  <2>3. RareLayer(id) = NamedRareLayer(name)
    BY <2>1, <2>2 DEF RarityTypeName, RareLayer, NamedRareLayer
  <2>4. id = 6 <=> name = "beam"
    BY <2>1, <2>2 DEF RarityTypeName
  <2> QED
    BY <2>1, <2>3, <2>4
<1> QED
  BY <1>1, <1>2

SourceTuples == {<<>>} \cup {SourceItems[i].color_tuple : i \in 1..Len(SourceItems)}

(* An item made of a source item, whose traits it has but those a beam replaces. *)
MadeOf(item, source) ==
    /\ item.pattern = source.pattern /\ item.category = source.category /\ item.palette_id = source.palette_id
    /\ item.rarity_tier \in {source.rarity_tier, "superrare"}
    /\ item.rarity_type \in {source.rarity_type, "beam"}

(* An item made of a source item and with the colours of one; superrare only with a type that is
   the beam's or that generate_onchain_data.py refuses. *)
Made(item) ==
    /\ \E i \in 1..Len(SourceItems) : MadeOf(item, SourceItems[i])
    /\ item.color_tuple \in SourceTuples
    /\ item.rarity_tier = "superrare" => item.rarity_type = "beam" \/ ~Known(RARITY_TYPE_NAMES, item.rarity_type)

LEMMA SourceTuplesAreFew ==
    IsFiniteSet(SourceTuples) /\ Cardinality(SourceTuples) <= TupleIndexes /\ SourceTuples \subseteq Seq(Nat)
<1> DEFINE n == Len(SourceItems)
           f == [i \in 0..n |-> IF i = 0 THEN <<>> ELSE SourceItems[i].color_tuple]
<1>1. n \in Nat /\ \A i \in 1..n : SourceItems[i].color_tuple \in Seq(Nat)
  <2>1. n \in Nat /\ \A i \in 1..n : SourceItems[i] \in ManifestItem
    BY SourcesAssumption, LenProperties, ElementOfSeq
  <2> HIDE DEF n
  <2> QED
    BY <2>1 DEF ManifestItem
<1> HIDE DEF n
<1>2. f \in [0..n -> SourceTuples]
  BY DEF SourceTuples, n
<1>3. ASSUME NEW t \in SourceTuples PROVE \E i \in 0..n : f[i] = t
  <2>1. CASE t = <<>>
    <3>1. 0 \in 0..n /\ f[0] = <<>>
      BY <1>1
    <3> QED
      BY <2>1, <3>1
  <2>2. CASE t # <<>>
    <3>1. PICK i \in 1..n : t = SourceItems[i].color_tuple
      BY <1>3, <2>2 DEF SourceTuples, n
    <3>2. i \in 0..n /\ f[i] = t
      BY <1>1, <3>1
    <3> QED
      BY <3>2
  <2> QED
    BY <2>1, <2>2
<1> HIDE DEF f
<1>4. f \in Surjection(0..n, SourceTuples)
  BY <1>2, <1>3, Fun_IsSurj
<1>5. IsFiniteSet(0..n)
  BY <1>1, FS_Interval
<1>6. IsFiniteSet(SourceTuples)
  BY <1>4, <1>5, FS_Surjection
<1>7. SourceTuples \subseteq Seq(Nat)
  BY <1>1, EmptySeq DEF SourceTuples, n
<1> QED
  BY <1>6, <1>7, SourcesAssumption DEF SourceTuples

LEMMA TuplesFit ==
    ASSUME NEW n \in Nat, NEW items, Len(items) = n, \A i \in 1..n : items[i].color_tuple \in SourceTuples
    PROVE  /\ ColorTuples(items) \in Seq(Seq(Nat)) /\ Len(ColorTuples(items)) \in 0..TupleIndexes
           /\ \A i \in 1..n : Known(ColorTuples(items), items[i].color_tuple)
<1> DEFINE seq == [i \in 1..n |-> items[i].color_tuple]
<1>1. seq \in [1..n -> SourceTuples]
  OBVIOUS
<1>2. seq \in Seq(SourceTuples) /\ Len(seq) = n /\ \A i \in 1..n : seq[i] = items[i].color_tuple
  <2>1. \A i \in 1..n : seq[i] = items[i].color_tuple
    OBVIOUS
  <2> HIDE DEF seq
  <2> QED
    BY <1>1, <2>1
<1>3. ColorTuples(items) = FirstSeen(<< <<>> >>, seq)
  BY DEF ColorTuples
<1> HIDE DEF seq
<1>4. << <<>> >> \in Seq(SourceTuples) /\ Distinct(<< <<>> >>)
  <2>1. <<>> \in SourceTuples
    BY DEF SourceTuples
  <2>2. \A i \in 1..Len(<< <<>> >>) : i = 1
    OBVIOUS
  <2> QED
    BY <2>1, <2>2 DEF Distinct
<1>5. PICK tuples : tuples = ColorTuples(items)
  OBVIOUS
<1>6. tuples \in Seq(SourceTuples) /\ Distinct(tuples) /\ \A i \in 1..Len(seq) : Known(tuples, seq[i])
  BY <1>2, <1>3, <1>4, <1>5, FirstSeenHolds
<1>7. Len(tuples) <= Cardinality(SourceTuples)
  BY <1>6, SourceTuplesAreFew, DistinctBound
<1>8. Cardinality(SourceTuples) \in Nat /\ TupleIndexes \in Nat /\ Len(tuples) \in Nat
  BY <1>6, SourceTuplesAreFew, FS_CardinalityType, RecordsAssumption, LenProperties
<1>9. Len(tuples) \in 0..TupleIndexes
  BY <1>7, <1>8, SourceTuplesAreFew
<1>10. tuples \in Seq(Seq(Nat))
  BY <1>6, SourceTuplesAreFew, SeqMonotonic
<1>11. \A i \in 1..n : Known(tuples, items[i].color_tuple)
  BY <1>2, <1>6
<1> QED
  BY <1>5, <1>9, <1>10, <1>11

(* The fields of an item's record. *)
FieldsOf(item, tuples) ==
    [pattern |-> IdIn(PATTERN_NAMES, item.pattern),
     palette |-> IdIn(PALETTE_NAMES, item.palette_id),
     collar  |-> IdIn(COLLAR_TYPE_NAMES, item.collar_type),
     tier    |-> IdIn(RARITY_TIER_NAMES, item.rarity_tier),
     rtype   |-> IdIn(RARITY_TYPE_NAMES, item.rarity_type),
     tuple   |-> IdIn(tuples, item.color_tuple)]

LEMMA FieldsFit ==
    ASSUME NEW item, TraitsAreKnown(item), NEW tuples, Len(tuples) \in 0..TupleIndexes, Known(tuples, item.color_tuple)
    PROVE  /\ FieldsOf(item, tuples) \in Fields
           /\ IdIn(tuples, item.color_tuple) + 1 \in 1..Len(tuples)
           /\ tuples[IdIn(tuples, item.color_tuple) + 1] = item.color_tuple
<1>1. PICK k : k = IdIn(tuples, item.color_tuple)
  OBVIOUS
<1>2. Len(tuples) \in Nat /\ TupleIndexes \in Nat /\ Len(tuples) <= TupleIndexes
  BY RecordsAssumption
<1>3. k \in 0..(Len(tuples) - 1) /\ tuples[k + 1] = item.color_tuple
  BY <1>1, <1>2, IdInTable
<1>4. k \in 0..(TupleIndexes - 1) /\ k + 1 \in 1..Len(tuples)
  BY <1>2, <1>3
<1>5. /\ IdIn(PATTERN_NAMES, item.pattern) \in 0..15 /\ IdIn(PALETTE_NAMES, item.palette_id) \in 0..15
      /\ IdIn(COLLAR_TYPE_NAMES, item.collar_type) \in 0..3 /\ IdIn(RARITY_TIER_NAMES, item.rarity_tier) \in 0..3
      /\ IdIn(RARITY_TYPE_NAMES, item.rarity_type) \in 0..15
  <2>1. /\ IdIn(PATTERN_NAMES, item.pattern) \in 0..9 /\ IdIn(PALETTE_NAMES, item.palette_id) \in 0..12
        /\ IdIn(COLLAR_TYPE_NAMES, item.collar_type) \in 0..2 /\ IdIn(RARITY_TIER_NAMES, item.rarity_tier) \in 0..2
        /\ IdIn(RARITY_TYPE_NAMES, item.rarity_type) \in 0..6
    BY NamesRoundTrip DEF TraitsAreKnown
  <2> QED
    BY <2>1
<1>6. FieldsOf(item, tuples) \in Fields
  BY <1>1, <1>4, <1>5 DEF FieldsOf, Fields
<1> QED
  BY <1>1, <1>3, <1>4, <1>6

LEMMA RecordBytesAre ==
    ASSUME NEW word \in Nat
    PROVE  RecordBytes(word) \in Seq(Nat) /\ Len(RecordBytes(word)) = 4
<1>1. PICK q1 \in Nat, r1 \in Nat : q1 = word \div 256 /\ r1 = word % 256
  BY SMT
<1>2. PICK q2 \in Nat, r2 \in Nat : q2 = q1 \div 256 /\ r2 = q1 % 256
  BY SMT
<1>3. PICK q3 \in Nat, r3 \in Nat : q3 = q2 \div 256 /\ r3 = q2 % 256
  BY SMT
<1>4. PICK r4 \in Nat : r4 = q3 % 256
  BY SMT
<1>5. RecordBytes(word) = << r1, r2, r3, r4 >>
  BY <1>1, <1>2, <1>3, <1>4 DEF RecordBytes
<1> QED
  BY <1>5

LEMMA RecordOf ==
    ASSUME NEW item, NEW tuples, FieldsOf(item, tuples) \in Fields
    PROVE  /\ TokenRecord(item, tuples) = RecordBytes(Pack(FieldsOf(item, tuples)))
           /\ TokenRecord(item, tuples) \in Seq(Nat) /\ Len(TokenRecord(item, tuples)) = 4
<1>1. TokenRecord(item, tuples) = RecordBytes(Pack(FieldsOf(item, tuples)))
  BY DEF TokenRecord, FieldsOf
<1>2. Pack(FieldsOf(item, tuples)) \in Nat
  BY FieldsRoundTrip
<1> QED
  BY <1>1, <1>2, RecordBytesAre

(* A piece of the flattened sequence is cut out of it whole. *)
LEMMA PieceIsCutOut ==
    ASSUME NEW S, NEW seqs \in Seq(Seq(S)), NEW i \in 1..Len(seqs), NEW o, o = Len(Start(seqs, i - 1)),
           NEW n, n = Len(seqs[i])
    PROVE  SubSeq(FlattenSeq(seqs), o + 1, o + n) = seqs[i]
<1>1. PICK all \in Seq(S) : all = FlattenSeq(seqs)
  BY FlattenPiece
<1>2. PICK piece \in Seq(S) : piece = seqs[i]
  BY StartSteps
<1>3. StandsAt(FlattenSeq(seqs), o, seqs[i])
  BY FlattenPiece
<1>4. o \in Nat /\ n \in Nat /\ n = Len(piece) /\ \A k \in 1..n : all[o + k] = piece[k]
  <2>1. StandsAt(all, o, piece)
    BY <1>1, <1>2, <1>3
  <2> QED
    BY <1>2, <2>1, LenProperties DEF StandsAt
<1>5. \A x \in (o + 1)..(o + n) : all[x] \in S
  <2> TAKE x \in (o + 1)..(o + n)
  <2>1. x - o \in 1..n /\ o + (x - o) = x
    BY <1>4
  <2>2. piece[x - o] \in S
    BY <1>4, <2>1, ElementOfSeq
  <2> QED
    BY <1>4, <2>1, <2>2
<1>6. PICK m \in Int, e \in Int : m = o + 1 /\ e = o + n
  BY <1>4
<1>7. /\ SubSeq(all, m, e) \in Seq(S) /\ Len(SubSeq(all, m, e)) = IF m <= e THEN e - m + 1 ELSE 0
      /\ \A k \in 1..(e - m + 1) : SubSeq(all, m, e)[k] = all[m + k - 1]
  <2>1. \A x \in m..e : all[x] \in S
    BY <1>5, <1>6
  <2> QED
    BY ONLY <2>1, SubSeqProperties
<1>8. PICK cut \in Seq(S) : cut = SubSeq(all, m, e)
  BY <1>7
<1>9. Len(cut) = n
  BY <1>4, <1>6, <1>7, <1>8
<1>10. \A k \in 1..n : cut[k] = piece[k]
  <2> TAKE k \in 1..n
  <2>1. k \in 1..(e - m + 1) /\ m + k - 1 = o + k
    BY <1>4, <1>6
  <2> QED
    BY <1>4, <1>7, <1>8, <2>1
<1>11. cut = piece
  BY <1>4, <1>9, <1>10, SeqEqual
<1> QED
  BY <1>1, <1>2, <1>6, <1>8, <1>11

LEMMA RecordsRead ==
    ASSUME NEW n \in Nat, NEW items, NEW tuples, \A j \in 1..n : FieldsOf(items[j], tuples) \in Fields, NEW i \in 1..n
    PROVE  DecodeTokenRecord(FlattenSeq([j \in 1..n |-> TokenRecord(items[j], tuples)]), i) = FieldsOf(items[i], tuples)
<1> DEFINE pieces == [j \in 1..n |-> TokenRecord(items[j], tuples)]
<1>1. \A j \in 1..n : TokenRecord(items[j], tuples) \in Seq(Nat) /\ Len(TokenRecord(items[j], tuples)) = 4
  BY RecordOf
<1>2. pieces \in [1..n -> Seq(Nat)]
  BY <1>1
<1>3. \A j \in 1..n : pieces[j] = TokenRecord(items[j], tuples)
  OBVIOUS
<1> HIDE DEF pieces
<1>4. pieces \in Seq(Seq(Nat)) /\ Len(pieces) = n
  BY <1>2
<1>5. \A j \in 1..Len(pieces) : Len(pieces[j]) = 4
  BY <1>1, <1>3, <1>4
<1>6. i - 1 \in 0..Len(pieces) /\ i \in 1..Len(pieces) /\ 4 \in Nat
  BY <1>4
<1>7. \A k \in 0..Len(pieces) : Len(Start(pieces, k)) = 4 * k
  BY <1>4, <1>5, <1>6, EqualPieces
<1>8. PICK o : o = Len(Start(pieces, i - 1))
  OBVIOUS
<1>9. o = 4 * (i - 1)
  BY <1>6, <1>7, <1>8
<1>10. SubSeq(FlattenSeq(pieces), o + 1, o + 4) = pieces[i]
  <2>1. PICK m : m = Len(pieces[i])
    OBVIOUS
  <2>2. SubSeq(FlattenSeq(pieces), o + 1, o + m) = pieces[i]
    BY <1>4, <1>6, <1>8, <2>1, PieceIsCutOut
  <2> QED
    BY <1>5, <1>6, <2>1, <2>2
<1>11. FlattenSeq(pieces) \in Seq(Nat)
  BY <1>4, <1>6, <1>8, FlattenPiece
<1>12. PICK records \in Seq(Nat) : records = FlattenSeq(pieces)
  BY <1>11
<1>13. PICK f \in Fields : f = FieldsOf(items[i], tuples)
  OBVIOUS
<1>14. pieces[i] = RecordBytes(Pack(f))
  BY <1>3, <1>13, RecordOf
<1>15. o + 1 = 4 * (i - 1) + 1 /\ o + 4 = 4 * i /\ i \in Nat \ {0}
  BY <1>9
<1>16. SubSeq(records, 4 * (i - 1) + 1, 4 * i) = RecordBytes(Pack(f))
  BY <1>10, <1>12, <1>14, <1>15
<1>17. DecodeTokenRecord(records, i) = f
  BY <1>15, <1>16, RecordRoundTrip
<1> QED
  BY <1>12, <1>13, <1>17 DEF pieces

LEMMA TuplesRead ==
    ASSUME NEW tuples \in Seq(Seq(Nat)), \A j \in 1..Len(tuples) : ColorOffset(tuples, j) <= MaxOffset,
           NEW k \in 0..(Len(tuples) - 1), NEW o, o = ColorOffset(tuples, k + 1)
    PROVE  /\ TupleMeta(TupleTable(tuples).meta, k) = [offset |-> o, len |-> Len(tuples[k + 1])]
           /\ StandsAt(TupleTable(tuples).colors, o, tuples[k + 1]) /\ TupleTable(tuples).colors \in Seq(Nat)
           /\ SubSeq(TupleTable(tuples).colors, o + 1, o + Len(tuples[k + 1])) = tuples[k + 1]
<1> DEFINE n == Len(tuples)
           Entry(j) == MetaBytes(ColorOffset(tuples, j), Len(tuples[j]))
           pieces == [j \in 1..n |-> Entry(j)]
<1>1. n \in Nat /\ k \in Nat /\ k + 1 \in 1..n /\ (k + 1) - 1 = k
  BY LenProperties
<1>2. \A j \in 1..n : ColorOffset(tuples, j) = Len(Start(tuples, j - 1))
  BY DEF ColorOffset, Start
<1>3. \A j \in 1..n : ColorOffset(tuples, j) \in 0..MaxOffset /\ Len(tuples[j]) \in Nat /\ tuples[j] \in Seq(Nat)
  <2> TAKE j \in 1..n
  <2>1. j - 1 \in 0..n
    BY <1>1
  <2>2. Start(tuples, j - 1) \in Seq(Nat) /\ tuples[j] \in Seq(Nat)
    BY <2>1, StartSteps
  <2>3. Len(Start(tuples, j - 1)) \in Nat /\ Len(tuples[j]) \in Nat
    BY <2>2, LenProperties
  <2>4. MaxOffset \in Int
    BY RecordsAssumption, SMT DEF MaxOffset
  <2> QED
    BY <1>2, <2>2, <2>3, <2>4
<1>4. \A j \in 1..n : Entry(j) \in Seq(Nat) /\ Len(Entry(j)) = 3
  <2> TAKE j \in 1..n
  <2>1. PICK a \in Nat, c \in Nat, b \in Nat \ {0} : a = ColorOffset(tuples, j) /\ c = Len(tuples[j]) /\ b = OffsetBase
    BY <1>3, RecordsAssumption
  <2>2. PICK q \in Nat, r \in Nat : q = a \div b /\ r = a % b
    BY QuotientAndRest
  <2>3. PICK p \in Nat : p = q % b
    BY QuotientAndRest
  <2>4. Entry(j) = << p, r, c >>
    BY <2>1, <2>2, <2>3 DEF MetaBytes
  <2> HIDE DEF Entry
  <2> QED
    BY <2>4
<1> HIDE DEF Entry
<1>5. pieces \in [1..n -> Seq(Nat)] /\ \A j \in 1..n : pieces[j] = Entry(j)
  BY <1>4
<1> HIDE DEF pieces
<1>6. pieces \in Seq(Seq(Nat)) /\ Len(pieces) = n
  <2>1. PICK m \in Nat : m = n
    BY <1>1
  <2>2. pieces \in [1..m -> Seq(Nat)]
    BY <1>5, <2>1
  <2>3. pieces \in Seq(Seq(Nat)) /\ Len(pieces) = m
    BY <2>2
  <2> QED
    BY <2>1, <2>3
<1>7. \A j \in 1..Len(pieces) : Len(pieces[j]) = 3
  BY <1>4, <1>5, <1>6
<1>8. \A j \in 0..Len(pieces) : Len(Start(pieces, j)) = 3 * j
  BY <1>6, <1>7, EqualPieces
<1>9. PICK s : s = Len(Start(pieces, (k + 1) - 1))
  OBVIOUS
<1>10. s = 3 * k
  <2>1. k \in 0..Len(pieces)
    BY <1>1, <1>6
  <2> QED
    BY <1>1, <1>8, <1>9, <2>1
<1>11. PICK meta : meta = FlattenSeq(pieces)
  OBVIOUS
<1>12. StandsAt(meta, s, pieces[k + 1])
  <2>1. k + 1 \in 1..Len(pieces)
    BY <1>1, <1>6
  <2> QED
    BY <1>6, <1>9, <1>11, <2>1, FlattenPiece
<1>13. StandsAt(meta, 3 * k, MetaBytes(o, Len(tuples[k + 1])))
  <2>1. pieces[k + 1] = MetaBytes(o, Len(tuples[k + 1]))
    BY <1>1, <1>5 DEF Entry
  <2> QED
    BY <1>10, <1>12, <2>1
<1>14. o \in 0..MaxOffset /\ o \in Nat
  BY <1>1, <1>3
<1>15. TupleMeta(meta, k) = [offset |-> o, len |-> Len(tuples[k + 1])]
  BY <1>1, <1>13, <1>14, MetaRoundTrip
<1>16. TupleTable(tuples).meta = meta /\ TupleTable(tuples).colors = FlattenSeq(tuples)
  BY <1>11 DEF TupleTable, pieces, Entry
<1>17. o = Len(Start(tuples, (k + 1) - 1))
  BY <1>1, <1>2
<1>18. StandsAt(FlattenSeq(tuples), o, tuples[k + 1]) /\ FlattenSeq(tuples) \in Seq(Nat)
  BY <1>1, <1>17, FlattenPiece
<1>19. SubSeq(FlattenSeq(tuples), o + 1, o + Len(tuples[k + 1])) = tuples[k + 1]
  BY <1>1, <1>17, PieceIsCutOut
<1> QED
  BY <1>14, <1>15, <1>16, <1>18, <1>19

-----------------------------------------------------------------------------
(* What the renderer reads and paints *)

(* What the renderer reads of an item. *)
ReadsAs(d, rec, item) ==
    LET tuple == TupleMeta(d.tupleMeta, rec.tuple)
    IN  /\ rec \in Fields
        /\ rec.pattern = IdIn(PATTERN_NAMES, item.pattern) /\ rec.palette = IdIn(PALETTE_NAMES, item.palette_id)
        /\ rec.collar = IdIn(COLLAR_TYPE_NAMES, item.collar_type)
        /\ rec.tier = IdIn(RARITY_TIER_NAMES, item.rarity_tier)
        /\ rec.rtype = IdIn(RARITY_TYPE_NAMES, item.rarity_type)
        /\ tuple.len = Len(item.color_tuple)
        /\ StandsAt(d.tupleColors, tuple.offset, item.color_tuple) /\ d.tupleColors \in Seq(Nat)
        /\ SubSeq(d.tupleColors, tuple.offset + 1, tuple.offset + tuple.len) = item.color_tuple

(* The renderer finds of every token what the manifest says of its item. *)
LEMMA PackedItem ==
    ASSUME NEW items, Numbered(items), ManifestIsPackable(items), \A j \in 1..MaxSupply : Made(items[j]),
           NEW i \in 1..MaxSupply, NEW d, d = Generated(items, BaseData)
    PROVE  TraitsAreKnown(items[i]) /\ ReadsAs(d, DecodeTokenRecord(d.records, i), items[i])
<1>1. MaxSupply \in Nat /\ Len(items) = MaxSupply /\ ByToken(items) = items
  BY CatArtAssumption, NumberedItems
<1>2. PICK n \in Nat : n = MaxSupply
  BY <1>1
<1>3. PICK tuples : tuples = ColorTuples(items)
  OBVIOUS
<1>4. /\ \A j \in 1..n : TraitsAreKnown(items[j])
      /\ \A j \in 1..Len(tuples) : ColorOffset(tuples, j) <= MaxOffset
  BY <1>1, <1>2, <1>3 DEF ManifestIsPackable
<1>5. /\ d.records = FlattenSeq([j \in 1..n |-> TokenRecord(items[j], tuples)])
      /\ d.tupleMeta = TupleTable(tuples).meta /\ d.tupleColors = TupleTable(tuples).colors
  BY <1>1, <1>2, <1>3 DEF Generated
<1>6. /\ tuples \in Seq(Seq(Nat)) /\ Len(tuples) \in 0..TupleIndexes
      /\ \A j \in 1..n : Known(tuples, items[j].color_tuple)
  <2>1. Len(items) = n /\ \A j \in 1..n : items[j].color_tuple \in SourceTuples
    BY <1>1, <1>2 DEF Made
  <2> QED
    BY <1>3, <2>1, TuplesFit
<1>7. \A j \in 1..n : FieldsOf(items[j], tuples) \in Fields
  BY <1>4, <1>6, FieldsFit
<1>8. PICK item, rec : item = items[i] /\ rec = DecodeTokenRecord(d.records, i)
  OBVIOUS
<1>9. i \in 1..n
  BY <1>2
<1>10. rec = FieldsOf(item, tuples) /\ rec \in Fields
  <2>1. DecodeTokenRecord(FlattenSeq([j \in 1..n |-> TokenRecord(items[j], tuples)]), i) = FieldsOf(items[i], tuples)
    BY ONLY <1>2, <1>7, <1>9, RecordsRead
  <2> QED
    BY <1>5, <1>7, <1>8, <1>9, <2>1
<1>11. PICK k : k = IdIn(tuples, item.color_tuple)
  OBVIOUS
<1>12. k + 1 \in 1..Len(tuples) /\ tuples[k + 1] = item.color_tuple
  BY <1>4, <1>6, <1>8, <1>9, <1>11, FieldsFit
<1>13. rec.tuple = k
  BY <1>10, <1>11 DEF FieldsOf
<1>14. k \in 0..(Len(tuples) - 1)
  <2>1. k \in 0..(TupleIndexes - 1)
    BY <1>10, <1>13 DEF Fields
  <2> QED
    BY <1>6, <1>12, <2>1
<1>15. PICK o : o = ColorOffset(tuples, k + 1)
  OBVIOUS
<1>16. /\ TupleMeta(TupleTable(tuples).meta, k) = [offset |-> o, len |-> Len(tuples[k + 1])]
       /\ StandsAt(TupleTable(tuples).colors, o, tuples[k + 1]) /\ TupleTable(tuples).colors \in Seq(Nat)
       /\ SubSeq(TupleTable(tuples).colors, o + 1, o + Len(tuples[k + 1])) = tuples[k + 1]
  BY <1>4, <1>6, <1>14, <1>15, TuplesRead
<1>17. PICK tuple : tuple = TupleMeta(d.tupleMeta, rec.tuple)
  OBVIOUS
<1>18. tuple = [offset |-> o, len |-> Len(item.color_tuple)]
  BY <1>5, <1>12, <1>13, <1>16, <1>17
<1>19. tuple.offset = o /\ tuple.len = Len(item.color_tuple)
  BY <1>18
<1>20. /\ StandsAt(d.tupleColors, tuple.offset, item.color_tuple) /\ d.tupleColors \in Seq(Nat)
       /\ SubSeq(d.tupleColors, tuple.offset + 1, tuple.offset + tuple.len) = item.color_tuple
  BY <1>5, <1>12, <1>16, <1>19
<1>21. /\ rec.pattern = IdIn(PATTERN_NAMES, item.pattern) /\ rec.palette = IdIn(PALETTE_NAMES, item.palette_id)
       /\ rec.collar = IdIn(COLLAR_TYPE_NAMES, item.collar_type)
       /\ rec.tier = IdIn(RARITY_TIER_NAMES, item.rarity_tier)
       /\ rec.rtype = IdIn(RARITY_TYPE_NAMES, item.rarity_type)
  BY <1>10 DEF FieldsOf
<1>22. ReadsAs(d, rec, item)
  BY <1>10, <1>17, <1>19, <1>20, <1>21 DEF ReadsAs
<1> QED
  BY <1>4, <1>8, <1>9, <1>22

-----------------------------------------------------------------------------
(* Pictures *)

IsPicture(x) == x = [p \in Pixels |-> x[p]]

LEMMA PaintIsPicture == ASSUME NEW image, NEW rects PROVE IsPicture(Paint(image, rects))
BY DEF IsPicture, Paint

LEMMA SamePicture ==
    ASSUME NEW x, NEW y, IsPicture(x), IsPicture(y), \A p \in Pixels : x[p] = y[p]
    PROVE  x = y
BY DEF IsPicture

(* Layers drawn from one map look alike when they have the same colours for its values. *)
LEMMA SamePainting ==
    ASSUME NEW map, NEW c, NEW e, \A p \in Pixels : map[p] # Clear => c[map[p]] = e[map[p]], NEW image
    PROVE  Paint(image, Rects(map, c)) = Paint(image, Rects(map, e))
<1>1. PICK x, y : x = Paint(image, Rects(map, c)) /\ y = Paint(image, Rects(map, e))
  OBVIOUS
<1>2. IsPicture(x) /\ IsPicture(y)
  BY <1>1, PaintIsPicture
<1>3. ASSUME NEW p \in Pixels PROVE x[p] = y[p]
  <2>1. x[p] = IF map[p] # Clear THEN c[map[p]] ELSE image[p]
    BY <1>1, RunsPaintTheMap
  <2>2. y[p] = IF map[p] # Clear THEN e[map[p]] ELSE image[p]
    BY <1>1, RunsPaintTheMap
  <2> QED
    BY <2>1, <2>2
<1> QED
  BY <1>1, <1>2, <1>3, SamePicture

LEMMA BodyIsPicture ==
    ASSUME NEW d, NEW collar, NEW x, IsPicture(x) PROVE IsPicture(Body(d, collar, x))
<1>1. ASSUME NEW layer, NEW y, IsPicture(y) PROVE IsPicture(FixedLayer(d, layer, y))
  BY <1>1, PaintIsPicture DEF FixedLayer
<1>2. ASSUME NEW layer, NEW y, IsPicture(y) PROVE IsPicture(OptionalLayer(d, layer, y))
  BY <1>1, <1>2 DEF OptionalLayer
<1> QED
  BY <1>1, <1>2 DEF Body

LEMMA ColoursStandFrom ==
    ASSUME NEW list \in Seq(Nat), NEW o, NEW piece, StandsAt(list, o, piece), NEW n \in Nat, n = Len(piece), NEW v \in 1..n
    PROVE  ColoursFrom(list, o)[v] = piece[v]
<1>1. o \in Nat /\ o + n <= Len(list) /\ list[o + v] = piece[v] /\ Len(list) \in Nat
  BY LenProperties DEF StandsAt
<1>2. PICK m \in Int, e \in Int : m = o + 1 /\ e = Len(list)
  BY <1>1
<1>3. \A x \in m..e : list[x] \in Nat
  <2> TAKE x \in m..e
  <2>1. x \in 1..Len(list)
    BY <1>1, <1>2
  <2> QED
    BY <2>1, ElementOfSeq
<1>4. \A k \in 1..(e - m + 1) : SubSeq(list, m, e)[k] = list[m + k - 1]
  BY <1>3, SubSeqProperties
<1>5. v \in 1..(e - m + 1) /\ m + v - 1 = o + v
  BY <1>1, <1>2
<1> QED
  BY <1>1, <1>2, <1>4, <1>5 DEF ColoursFrom

(* The tail of a list that ends with the piece. *)
LEMMA StandsBehind ==
    ASSUME NEW s \in Seq(Nat), NEW t \in Seq(Nat)
    PROVE  s \o t \in Seq(Nat) /\ StandsAt(s \o t, Len(s), t) /\ Len(t) \in Nat
<1>1. s \o t \in Seq(Nat) /\ Len(s \o t) = Len(s) + Len(t) /\ Len(s) \in Nat /\ Len(t) \in Nat
      /\ \A i \in 1..Len(s) + Len(t) : (s \o t)[i] = IF i <= Len(s) THEN s[i] ELSE t[i - Len(s)]
  BY ConcatProperties, LenProperties
<1>2. PICK a \in Nat, b \in Nat : a = Len(s) /\ b = Len(t)
  BY <1>1
<1>3. ASSUME NEW k \in 1..b PROVE (s \o t)[a + k] = t[k]
  <2>1. a + k \in 1..(a + b) /\ ~(a + k <= a) /\ (a + k) - a = k
    OBVIOUS
  <2> QED
    BY <1>1, <1>2, <2>1
<1> QED
  BY <1>1, <1>2, <1>3 DEF StandsAt

(* The ninth fixed layer of a generated file has the beam's pixels, each in the place its colour
   has among the beam's. *)
LEMMA BeamMap ==
    ASSUME NEW d, HasKeptParts(d), BeamFits(BaseData), NEW p \in Pixels
    PROVE  /\ PixelMap(d.fixedPixels, 8)[p] \in 0..Len(BeamColors)
           /\ BeamValues[PixelMap(d.fixedPixels, 8)[p] + 1] = BeamPixels[p]
<1> DEFINE k == p[2] * Width + p[1] + 1
           j == k - 1
           packed == PackNibbles(BeamNibbles)
           all == KeptPixels \o packed
<1>1. k \in 1..Area /\ (k - 1) % Width = p[1] /\ (k - 1) \div Width = p[2]
  BY RowMajorIs
<1>2. Half \in Nat /\ Area = 2 * Half
  BY Halves
<1>3. j \in 0..(2 * Half - 1) /\ j + 1 = k /\ p[2] * Width + p[1] = j
  <2>1. p[2] * Width + p[1] \in Int
    BY PixelParts
  <2> QED
    BY <1>1, <1>2, <2>1
<1> HIDE DEF k, j
<1>4. KeptPixels \in Seq(Nat) /\ packed \in Seq(Nat) /\ Len(KeptPixels) = 8 * Half
  BY KeptIs DEF PreservedLayers
<1>5. BeamNibbles \in Seq(0..15) /\ Len(BeamNibbles) = 2 * Half
  <2>1. PICK n \in Nat, limit \in 0..15 : n = Len(BeamColors) /\ limit = PaletteLimit
    BY OnchainAssumption, BeamTable, LenProperties
  <2>2. 0..Len(BeamColors) \subseteq 0..15
    <3>1. n <= limit
      BY <2>1 DEF BeamFits
    <3>2. 0..n \subseteq 0..15
      BY <3>1
    <3> QED
      BY <2>1, <3>2
  <2> QED
    BY <1>2, <2>2, BeamTable, SeqMonotonic
<1>6. NibbleAt(packed, j) = BeamNibbles[k]
  BY <1>2, <1>3, <1>5, NibbleRoundTrip
<1> HIDE DEF packed
<1>7. StandsAt(all, 8 * Half, packed) /\ Len(packed) = Half
  <2>1. StandsAt(all, 8 * Half, packed)
    BY <1>4, StandsBehind
  <2>2. Len(packed) = Half
    <3>1. Len(BeamNibbles) \div 2 = Half
      BY <1>2, <1>5
    <3>2. packed = [x \in 1..Half |-> 16 * BeamNibbles[2 * x - 1] + BeamNibbles[2 * x]]
      BY <3>1 DEF packed, PackNibbles
    <3> QED
      BY <1>2, <1>4, <3>2
  <2> QED
    BY <2>1, <2>2
<1> HIDE DEF all
<1>8. NibbleAt(all, 8 * Area + j) = NibbleAt(packed, j)
  <2>1. PICK x \in Nat : x = 8 * Area + j
    BY <1>2, <1>3
  <2>2. x \div 2 = 8 * Half + (j \div 2) /\ x % 2 = j % 2 /\ j \div 2 \in 0..(Half - 1)
    BY <1>2, <1>3, <2>1, SMT
  <2>3. PICK y \in 1..Half : y = j \div 2 + 1
    BY <1>2, <2>2
  <2>4. x \div 2 + 1 = 8 * Half + y
    BY <1>2, <2>2, <2>3
  <2>5. all[8 * Half + y] = packed[y]
    BY <1>7 DEF StandsAt
  <2> QED
    BY <2>1, <2>2, <2>3, <2>4, <2>5 DEF NibbleAt
<1>9. PixelMap(d.fixedPixels, 8)[p] = NibbleAt(all, 8 * Area + j)
  <2>1. d.fixedPixels = all
    BY DEF HasKeptParts, all, packed
  <2>2. 8 * Area + p[2] * Width + p[1] = 8 * Area + j
    <3>1. PICK a \in Int, x \in Int, y \in Int : a = 8 * Area /\ x = p[2] * Width /\ y = p[1]
      BY <1>2, PixelParts
    <3>2. (a + x) + y = a + (x + y)
      OBVIOUS
    <3> QED
      BY <1>3, <3>1, <3>2
  <2> QED
    BY <2>1, <2>2 DEF PixelMap
<1>10. BeamNibbles[k] \in 0..Len(BeamColors) /\ BeamValues[BeamNibbles[k] + 1] = RowMajor(BeamPixels)[k]
  BY <1>1, BeamTable, ElementOfSeq
<1>11. RowMajor(BeamPixels)[k] = BeamPixels[p]
  <2>1. p = << p[1], p[2] >>
    BY PixelParts
  <2>2. RowMajor(BeamPixels)[k] = BeamPixels[<< (k - 1) % Width, (k - 1) \div Width >>]
    BY <1>1 DEF RowMajor
  <2> QED
    BY <1>1, <2>1, <2>2
<1> QED
  BY <1>6, <1>8, <1>9, <1>10, <1>11

(* Its entry points behind the colours that are kept. *)
LEMMA BeamEntry ==
    ASSUME NEW d, HasKeptParts(d), BeamFits(BaseData)
    PROVE  /\ TupleMeta(d.fixedMeta, 8) = [offset |-> Len(KeptColours), len |-> Len(BeamColors)]
           /\ d.fixedPalettes \in Seq(Nat) /\ StandsAt(d.fixedPalettes, Len(KeptColours), BeamColors)
<1>0. PICK l, m : l = Len(BeamColors) /\ m = d.fixedMeta
  OBVIOUS
<1>1. StandsAt(KeptMeta \o BeamMeta, Len(KeptMeta), BeamMeta)
  BY KeptIs, StandsBehind
<1>2. PICK o \in Nat : o = Len(KeptColours)
  BY KeptIs, LenProperties
<1>3. StandsAt(m, 3 * 8, MetaBytes(o, l))
  <2>1. Len(KeptMeta) = 3 * 8
    BY KeptIs
  <2> QED
    BY <1>0, <1>1, <1>2, <2>1 DEF HasKeptParts, BeamMeta
<1>4. o \in 0..MaxOffset
  <2>1. MaxOffset \in Int
    BY RecordsAssumption, SMT DEF MaxOffset
  <2>2. o <= MaxOffset
    BY <1>2, KeptIs DEF BeamFits
  <2> QED
    BY <2>1, <2>2
<1>5. TupleMeta(m, 8) = [offset |-> o, len |-> l]
  BY <1>3, <1>4, MetaRoundTrip
<1>6. d.fixedPalettes \in Seq(Nat) /\ StandsAt(d.fixedPalettes, Len(KeptColours), BeamColors)
  BY KeptIs, StandsBehind DEF HasKeptParts
<1> QED
  BY <1>0, <1>2, <1>5, <1>6

(* The renderer's beam layer is the picture the rebuild script pastes. *)
LEMMA BeamAgrees ==
    ASSUME NEW d, HasKeptParts(d), BeamFits(BaseData), NEW body, IsPicture(body)
    PROVE  FixedLayer(d, 8, body) = BeamLayer(body)
<1> DEFINE own == [colour \in {BeamPixels[p] : p \in Pixels} |-> colour]
<1>0. PICK o : o = Len(KeptColours)
  OBVIOUS
<1>1. PICK n \in Nat : n = Len(BeamColors)
  BY BeamTable, LenProperties
<1>2. TupleMeta(d.fixedMeta, 8) = [offset |-> o, len |-> n]
  BY <1>0, <1>1, BeamEntry
<1>3. PICK map, colours : map = PixelMap(d.fixedPixels, 8) /\ colours = ColoursFrom(d.fixedPalettes, o)
  OBVIOUS
<1>4. \A p \in Pixels : map[p] \in 0..n /\ BeamValues[map[p] + 1] = BeamPixels[p]
  BY <1>1, <1>3, BeamMap
<1>5. \A v \in 1..n : colours[v] = BeamColors[v]
  <2>1. PICK list, piece : list = d.fixedPalettes /\ piece = BeamColors
    OBVIOUS
  <2>2. list \in Seq(Nat) /\ StandsAt(list, o, piece) /\ n = Len(piece)
    BY <1>0, <1>1, <2>1, BeamEntry
  <2>3. \A v \in 1..n : ColoursFrom(list, o)[v] = piece[v]
    BY ONLY <2>2, n \in Nat, ColoursStandFrom
  <2> QED
    BY <1>3, <2>1, <2>3
<1>6. \A p \in Pixels : map[p] # Clear <=> BeamPixels[p] # Clear
  <2> TAKE p \in Pixels
  <2>1. PICK v \in 0..n : v = map[p] /\ BeamValues[v + 1] = BeamPixels[p]
    BY <1>4
  <2>2. BeamValues[1] = Clear /\ Distinct(BeamValues) /\ Len(BeamValues) = n + 1
    BY <1>1, BeamTable, LenProperties
  <2>3. v + 1 \in 1..Len(BeamValues) /\ 1 \in 1..Len(BeamValues)
    BY <2>2
  <2>4. BeamValues[v + 1] = BeamValues[1] => v + 1 = 1
    BY <2>2, <2>3 DEF Distinct
  <2>5. v # 0 <=> BeamValues[v + 1] # Clear
    BY <2>2, <2>4
  <2> QED
    BY <2>1, <2>5 DEF Clear
<1>7. \A p \in Pixels : map[p] # Clear => colours[map[p]] = BeamPixels[p]
  <2> TAKE p \in Pixels
  <2>1. PICK v \in 0..n : v = map[p] /\ BeamValues[v + 1] = BeamPixels[p]
    BY <1>4
  <2>2. v # 0 => v \in 1..n /\ colours[v] = BeamValues[v + 1]
    BY <1>1, <1>5, BeamTable
  <2> QED
    BY <2>1, <2>2 DEF Clear
<1>8. PICK x, y : x = FixedLayer(d, 8, body) /\ y = BeamLayer(body)
  OBVIOUS
<1>9. y = Paint(body, Rects(BeamPixels, own))
  BY <1>8 DEF BeamLayer
<1>10. ASSUME NEW p \in Pixels PROVE y[p] = IF BeamPixels[p] # Clear THEN BeamPixels[p] ELSE body[p]
  <2>1. y[p] = IF BeamPixels[p] # Clear THEN own[BeamPixels[p]] ELSE body[p]
    BY <1>9, RunsPaintTheMap
  <2>2. own[BeamPixels[p]] = BeamPixels[p]
    OBVIOUS
  <2> QED
    BY <2>1, <2>2
<1>11. IsPicture(x) /\ IsPicture(y)
  <2>1. x = body \/ \E rects : x = Paint(body, rects)
    BY <1>8 DEF FixedLayer
  <2> QED
    BY <1>9, <2>1, PaintIsPicture
<1>12. ASSUME NEW p \in Pixels PROVE x[p] = IF BeamPixels[p] # Clear THEN BeamPixels[p] ELSE body[p]
  <2>1. CASE n = 0
    <3>1. x = body
      BY <1>2, <1>8, <2>1 DEF FixedLayer
    <3>2. map[p] = Clear
      BY <1>4, <2>1 DEF Clear
    <3> QED
      BY <1>6, <3>1, <3>2
  <2>2. CASE n # 0
    <3>1. x = Paint(body, Rects(map, colours))
      BY <1>2, <1>3, <1>8, <2>2 DEF FixedLayer
    <3>2. x[p] = IF map[p] # Clear THEN colours[map[p]] ELSE body[p]
      BY <3>1, RunsPaintTheMap
    <3> QED
      BY <1>6, <1>7, <3>2
  <2> QED
    BY <2>1, <2>2
<1> QED
  BY <1>8, <1>10, <1>11, <1>12, SamePicture

(* Everything the rebuild script asks of an item before it draws it, of the parts that stay. *)
CanBeDrawn(item) ==
    /\ Known(PATTERN_NAMES, item.pattern) /\ Known(COLLAR_TYPE_NAMES, item.collar_type)
    /\ Known(RARITY_TIER_NAMES, item.rarity_tier)
    /\ Len(item.color_tuple) >= BaseData.slotCounts[IdIn(PATTERN_NAMES, item.pattern) + 1]

LEMMA SourceTuplesAreSeqs == \A t \in SourceTuples : t \in Seq(Nat) /\ Len(t) \in Nat
BY SourceTuplesAreFew, LenProperties

(* The pattern in the colours of the tuple table is the pattern in the colours of the item. *)
LEMMA PatternsAgree ==
    ASSUME NEW d, HasKeptParts(d), NEW rec, NEW item, ReadsAs(d, rec, item), Made(item), CanBeDrawn(item)
    PROVE  PatternLayer(d, rec, Blank) =
             Paint(Blank, Rects(PixelMap(d.masks, IdIn(PATTERN_NAMES, item.pattern)), item.color_tuple))
<1>1. PICK id \in 0..9 : id = IdIn(PATTERN_NAMES, item.pattern)
  BY NamesRoundTrip DEF CanBeDrawn
<1>2. PICK piece \in Seq(Nat) : piece = item.color_tuple
  BY SourceTuplesAreSeqs DEF Made
<1>3. PICK n \in Nat : n = Len(piece)
  BY LenProperties
<1>4. PICK map : map = PixelMap(d.masks, id)
  OBVIOUS
<1>5. \A p \in Pixels : map[p] \in 0..n
  <2> TAKE p \in Pixels
  <2>1. PatternCount = 10 /\ id \in 0..(PatternCount - 1) /\ id + 1 \in 1..PatternCount
    BY DEF PatternCount, PATTERN_NAMES
  <2>2. PICK slots \in Nat : slots = BaseData.slotCounts[id + 1]
    BY <2>1, BaseDataAssumption
  <2>3. PixelMap(BaseData.masks, id)[p] \in 0..slots
    BY <2>1, <2>2, BaseDataAssumption
  <2>4. slots <= n
    BY <1>1, <1>2, <1>3, <2>2 DEF CanBeDrawn
  <2>5. map[p] \in 0..slots
    BY <1>4, <2>3 DEF HasKeptParts
  <2> QED
    BY <2>4, <2>5
<1>6. PICK list, o : list = d.tupleColors /\ o = TupleMeta(d.tupleMeta, rec.tuple).offset
  OBVIOUS
<1>7. list \in Seq(Nat) /\ StandsAt(list, o, piece) /\ rec.pattern = id
  BY <1>1, <1>2, <1>6 DEF ReadsAs
<1>8. \A v \in 1..n : ColoursFrom(list, o)[v] = piece[v]
  BY ONLY <1>3, <1>7, n \in Nat, ColoursStandFrom
<1>9. \A p \in Pixels : map[p] # Clear => ColoursFrom(list, o)[map[p]] = piece[map[p]]
  <2> TAKE p \in Pixels
  <2>1. PICK v \in 0..n : v = map[p]
    BY <1>5
  <2>2. v # 0 => v \in 1..n
    OBVIOUS
  <2> QED
    BY <1>8, <2>1, <2>2 DEF Clear
<1>10. Paint(Blank, Rects(map, ColoursFrom(list, o))) = Paint(Blank, Rects(map, piece))
  BY <1>9, SamePainting
<1> QED
  BY <1>1, <1>2, <1>4, <1>6, <1>7, <1>10 DEF PatternLayer

(* What the rebuild script draws of an item the renderer draws of its record, and names alike. *)
LEMMA RendererDraws ==
    ASSUME NEW d, HasKeptParts(d), BeamFits(BaseData), NEW rec, NEW item, ReadsAs(d, rec, item),
           TraitsAreKnown(item), Made(item), CanBeDrawn(item)
    PROVE  /\ SlotsFit(d, rec) /\ ImageData(d, rec) = BuildSvgFromItem(d, item)
           /\ Attributes(rec) = ManifestAttributes(item)
           /\ rec.tier = 2 => rec.rtype = 6
<1>1. SlotsFit(d, rec)
  BY DEF SlotsFit, ReadsAs, CanBeDrawn, HasKeptParts
<1>2. Attributes(rec) = ManifestAttributes(item)
  BY NamesRoundTrip DEF Attributes, ManifestAttributes, ReadsAs, TraitsAreKnown
<1>3. /\ rec.tier = 1 <=> item.rarity_tier = "rare"
      /\ rec.tier = 2 <=> item.rarity_tier = "superrare"
      /\ RareLayer(rec.rtype) = NamedRareLayer(item.rarity_type)
      /\ rec.rtype = 6 <=> item.rarity_type = "beam"
  BY RarityIds DEF ReadsAs, TraitsAreKnown
<1>4. item.rarity_tier = "superrare" => item.rarity_type = "beam"
  BY DEF Made, TraitsAreKnown
<1>5. PICK pattern : pattern = PatternLayer(d, rec, Blank)
  OBVIOUS
<1>6. PICK body : body = Body(d, rec.collar, pattern)
  OBVIOUS
<1>7. IsPicture(body)
  BY <1>5, <1>6, PaintIsPicture, BodyIsPicture DEF PatternLayer
<1>8. FixedLayer(d, 8, body) = BeamLayer(body)
  BY <1>7, BeamAgrees
<1>9. ImageData(d, rec) = CASE rec.tier = 1 -> OptionalLayer(d, RareLayer(rec.rtype), body)
                            [] rec.tier = 2 -> FixedLayer(d, 8, body)
                            [] OTHER        -> body
  BY <1>5, <1>6 DEF ImageData
<1>10. BuildSvgFromItem(d, item) =
         CASE item.rarity_tier = "rare" -> OptionalLayer(d, NamedRareLayer(item.rarity_type), body)
           [] item.rarity_tier = "superrare" /\ item.rarity_type = "beam" -> BeamLayer(body)
           [] OTHER -> body
  <2>1. rec.collar = IdIn(COLLAR_TYPE_NAMES, item.collar_type)
    BY DEF ReadsAs
  <2>2. pattern = Paint(Blank, Rects(PixelMap(d.masks, IdIn(PATTERN_NAMES, item.pattern)), item.color_tuple))
    BY <1>5, PatternsAgree
  <2>3. body = Body(d, IdIn(COLLAR_TYPE_NAMES, item.collar_type),
                    Paint(Blank, Rects(PixelMap(d.masks, IdIn(PATTERN_NAMES, item.pattern)), item.color_tuple)))
    BY <1>6, <2>1, <2>2
  <2> QED
    BY <2>3 DEF BuildSvgFromItem
<1>11. ImageData(d, rec) = BuildSvgFromItem(d, item)
  <2>1. CASE item.rarity_tier = "rare"
    BY <1>3, <1>9, <1>10, <2>1
  <2>2. CASE item.rarity_tier = "superrare"
    BY <1>3, <1>4, <1>8, <1>9, <1>10, <2>2
  <2>3. CASE item.rarity_tier # "rare" /\ item.rarity_tier # "superrare"
    BY <1>3, <1>9, <1>10, <2>3
  <2> QED
    BY <2>1, <2>2, <2>3
<1> QED
  BY <1>1, <1>2, <1>3, <1>4, <1>11

(* The viewer's port draws what the renderer draws of such a record. *)
LEMMA PortDraws ==
    ASSUME NEW d, NEW rec, rec.tier = 2 => rec.rtype = 6
    PROVE  BuildSvg(d, rec) = ImageData(d, rec)
BY DEF BuildSvg, ImageData

(* A drawing depends on the parts of the data file that stay. *)
LEMMA DrawingsStay ==
    ASSUME NEW d, HasKeptParts(d), NEW e, HasKeptParts(e), NEW item
    PROVE  BuildSvgFromItem(d, item) = BuildSvgFromItem(e, item)
<1>1. \A layer, image : FixedLayer(d, layer, image) = FixedLayer(e, layer, image)
  BY DEF FixedLayer, HasKeptParts
<1>2. \A layer, image : OptionalLayer(d, layer, image) = OptionalLayer(e, layer, image)
  BY <1>1 DEF OptionalLayer
<1>3. \A collar, image : Body(d, collar, image) = Body(e, collar, image)
  BY <1>1, <1>2 DEF Body
<1>4. d.masks = e.masks
  BY DEF HasKeptParts
<1> QED
  BY <1>2, <1>3, <1>4 DEF BuildSvgFromItem

-----------------------------------------------------------------------------
(* What a rebuild makes of its sources *)

(* Sorting by token id gives a rearrangement when no two items share a token id. *)
LEMMA ByTokenIs ==
    ASSUME NEW S, NEW items \in Seq(S), \A i, j \in 1..Len(items) : items[i].token_id = items[j].token_id => i = j,
           \A i \in 1..Len(items) : items[i].token_id \in Nat
    PROVE  /\ ByToken(items) \in Seq(S) /\ Len(ByToken(items)) = Len(items)
           /\ \A k \in 1..Len(items) : \E i \in 1..Len(items) : ByToken(items)[i] = items[k]
<1>1. PICK n \in Nat : n = Len(items)
  BY LenProperties
<1> DEFINE Lower(k) == {j \in 1..n : items[j].token_id < items[k].token_id}
           rank == [k \in 1..n |-> Cardinality(Lower(k))]
<1>2. \A k \in 1..n : items[k] \in S /\ items[k].token_id \in Nat
  BY <1>1, ElementOfSeq
<1>3. \A i, j \in 1..n : items[i].token_id = items[j].token_id => i = j
  BY <1>1
<1>4. IsFiniteSet(1..n) /\ Cardinality(1..n) = n
  <2>1. 1 \in Int /\ n \in Int
    OBVIOUS
  <2> QED
    BY <2>1, FS_Interval
<1>5. ASSUME NEW k \in 1..n
      PROVE  /\ Lower(k) \subseteq 1..n /\ k \notin Lower(k) /\ IsFiniteSet(Lower(k))
             /\ Cardinality(Lower(k)) \in 0..(n - 1)
  <2>1. Lower(k) \subseteq (1..n) \ {k}
    BY <1>2
  <2>2. IsFiniteSet((1..n) \ {k}) /\ Cardinality((1..n) \ {k}) = n - 1
    BY <1>4, FS_RemoveElement
  <2> HIDE DEF Lower
  <2>3. IsFiniteSet(Lower(k)) /\ Cardinality(Lower(k)) <= n - 1
    BY <2>1, <2>2, FS_Subset
  <2>4. Cardinality(Lower(k)) \in Nat
    BY <2>3, FS_CardinalityType
  <2> QED
    BY <2>1, <2>3, <2>4
<1>6. ASSUME NEW j \in 1..n, NEW k \in 1..n, items[j].token_id < items[k].token_id
      PROVE  Cardinality(Lower(j)) < Cardinality(Lower(k))
  <2>1. Lower(j) \subseteq Lower(k) /\ j \in Lower(k) /\ j \notin Lower(j)
    BY <1>2, <1>6
  <2> HIDE DEF Lower
  <2>2. IsFiniteSet(Lower(k)) /\ Cardinality(Lower(k)) \in Int /\ Cardinality(Lower(j)) \in Int
    BY <1>5
  <2>3. Cardinality(Lower(j)) <= Cardinality(Lower(k)) /\ Cardinality(Lower(k)) # Cardinality(Lower(j))
    BY <2>1, <2>2, FS_Subset
  <2> QED
    BY <2>2, <2>3
<1>7. \A k \in 1..n : rank[k] = Cardinality(Lower(k)) /\ rank[k] \in 0..(n - 1)
  <2> HIDE DEF Lower
  <2> QED
    BY <1>5
<1>8. rank \in [1..n -> 0..(n - 1)]
  <2>1. rank = [k \in 1..n |-> rank[k]]
    OBVIOUS
  <2> HIDE DEF rank, Lower
  <2> QED
    BY <1>7, <2>1
<1>9. \A j, k \in 1..n : items[j].token_id < items[k].token_id => rank[j] < rank[k]
  <2> HIDE DEF rank, Lower
  <2> QED
    BY <1>6, <1>7
<1> HIDE DEF rank, Lower
<1>10. \A j, k \in 1..n : rank[j] = rank[k] => j = k
  <2> TAKE j, k \in 1..n
  <2>1. items[j].token_id \in Nat /\ items[k].token_id \in Nat /\ rank[j] \in Int /\ rank[k] \in Int
    BY <1>2, <1>7
  <2>2. items[j].token_id < items[k].token_id => rank[j] < rank[k]
    BY <1>9
  <2>3. items[k].token_id < items[j].token_id => rank[k] < rank[j]
    BY <1>9
  <2>4. items[j].token_id = items[k].token_id => j = k
    BY <1>3
  <2> QED
    BY <2>1, <2>2, <2>3, <2>4
<1>11. rank \in Injection(1..n, 0..(n - 1))
  BY <1>8, <1>10, Fun_IsInj
<1>12. IsFiniteSet(0..(n - 1)) /\ Cardinality(0..(n - 1)) = n
  <2>1. PICK last \in Int : last = n - 1
    OBVIOUS
  <2>2. IsFiniteSet(0..last) /\ Cardinality(0..last) = IF 0 > last THEN 0 ELSE last - 0 + 1
    BY FS_Interval
  <2> QED
    BY <2>1, <2>2
<1>13. rank \in Surjection(1..n, 0..(n - 1))
  BY <1>4, <1>11, <1>12, FS_Injection
<1>14. ASSUME NEW i \in 1..n PROVE (CHOOSE k \in 1..n : Cardinality(Lower(k)) = i - 1) \in 1..n
  <2>1. PICK r \in 0..(n - 1) : r = i - 1
    OBVIOUS
  <2>2. \E k \in 1..n : rank[k] = r
    <3>1. \A f \in Surjection(1..n, 0..(n - 1)) : \A v \in 0..(n - 1) : \E k \in 1..n : f[k] = v
      BY DEF Surjection
    <3> QED
      BY <1>13, <3>1
  <2>3. \E k \in 1..n : Cardinality(Lower(k)) = i - 1
    BY <1>7, <2>1, <2>2
  <2> QED
    BY <2>3
<1>15. ByToken(items) = [i \in 1..n |-> items[CHOOSE k \in 1..n : Cardinality(Lower(k)) = i - 1]]
  BY <1>1 DEF ByToken, Lower
<1>16. ByToken(items) \in [1..n -> S]
  BY <1>2, <1>14, <1>15
<1>17. ByToken(items) \in Seq(S) /\ Len(ByToken(items)) = n
  BY <1>16
<1>18. ASSUME NEW k \in 1..n PROVE \E i \in 1..n : ByToken(items)[i] = items[k]
  <2>1. PICK i \in 1..n : rank[k] = i - 1
    <3>1. rank[k] + 1 \in 1..n /\ rank[k] = (rank[k] + 1) - 1
      BY <1>7
    <3> QED
      BY <3>1
  <2>2. \A other \in 1..n : Cardinality(Lower(other)) = i - 1 <=> other = k
    BY <1>7, <1>10, <2>1
  <2>3. (CHOOSE other \in 1..n : Cardinality(Lower(other)) = i - 1) = k
    BY <2>2
  <2> QED
    BY <1>15, <2>3
<1> QED
  BY <1>1, <1>17, <1>18

-----------------------------------------------------------------------------
(* The items a rebuild makes *)

(* The prover knows no string to be in STRING: the two that a rebuild writes are named. *)
BeamNames == STRING \cup {"superrare", "beam"}
CatRecordSet == [token_id : Nat, pattern : STRING, palette_id : STRING, category : STRING,
                          variant_key : STRING, collar_type : STRING, rarity_tier : BeamNames,
                          rarity_type : BeamNames, color_tuple : Seq(Nat)]
SourceCats == {item \in CatRecordSet : Made(item)}

LEMMA BeamItemIs == ASSUME NEW item \in SourceCats PROVE BeamItem(item) \in SourceCats
<1>1. PICK cat : cat = BeamItem(item)
  OBVIOUS
<1>2. cat.color_tuple = item.color_tuple /\ cat.rarity_type = "beam"
  BY <1>1 DEF BeamItem, SourceCats, CatRecordSet
<1>3. cat \in CatRecordSet
  <2>1. "superrare" \in BeamNames /\ "beam" \in BeamNames
    BY DEF BeamNames
  <2> QED
    BY <1>1, <2>1 DEF BeamItem, SourceCats, CatRecordSet
<1>4. Made(cat)
  <2>1. PICK i \in 1..Len(SourceItems) : MadeOf(item, SourceItems[i])
    BY DEF SourceCats, Made
  <2>2. /\ cat.pattern = item.pattern /\ cat.category = item.category /\ cat.palette_id = item.palette_id
        /\ cat.rarity_tier = "superrare"
    BY <1>1 DEF BeamItem, SourceCats, CatRecordSet
  <2>3. MadeOf(cat, SourceItems[i])
    BY <1>2, <2>1, <2>2 DEF MadeOf
  <2> QED
    BY <1>2, <2>3 DEF SourceCats, Made
<1> QED
  BY <1>1, <1>3, <1>4 DEF SourceCats

LEMMA SourcesAre ==
    /\ Sources \in Seq(SourceCats)
    /\ \A k \in 1..Len(SourceItems) : \E i \in 1..Len(Sources) : Sources[i] = SourceItems[k]
<1>1. \A i \in 1..Len(SourceItems) : SourceItems[i] \in ManifestItem
  BY SourcesAssumption, ElementOfSeq
<1>2. \A i \in 1..Len(SourceItems) : SourceItems[i] \in SourceCats /\ SourceItems[i].token_id \in Nat
  <2> TAKE i \in 1..Len(SourceItems)
  <2>1. SourceItems[i] \in ManifestItem
    BY <1>1
  <2>2. Made(SourceItems[i])
    BY SourcesAssumption DEF Made, MadeOf, SourceTuples
  <2>3. SourceItems[i].token_id \in Nat
    BY <2>1 DEF ManifestItem
  <2>4. PICK item \in ManifestItem : item = SourceItems[i]
    BY <2>1
  <2>5. item \in CatRecordSet
    BY <2>4 DEF ManifestItem, CatRecordSet, BeamNames
  <2> QED
    BY <2>2, <2>3, <2>4, <2>5 DEF SourceCats
<1>3. PICK n \in Nat : n = Len(SourceItems)
  BY SourcesAssumption, LenProperties
<1>4. SourceItems \in Seq(SourceCats)
  <2>1. SourceItems = [i \in 1..n |-> SourceItems[i]]
    BY <1>3, SourcesAssumption, LenProperties
  <2>2. SourceItems \in [1..n -> SourceCats]
    BY <1>2, <1>3, <2>1
  <2> QED
    BY <2>2
<1>5. /\ ByToken(SourceItems) \in Seq(SourceCats) /\ Len(ByToken(SourceItems)) = Len(SourceItems)
      /\ \A k \in 1..Len(SourceItems) : \E i \in 1..Len(SourceItems) : ByToken(SourceItems)[i] = SourceItems[k]
  BY <1>2, <1>4, SourcesAssumption, ByTokenIs
<1> QED
  BY <1>5 DEF Sources

LEMMA RebuiltIs ==
    ASSUME NEW sel, ~RebuildRefuses(sel)
    PROVE  /\ Rebuilt(sel) \in Seq(SourceCats)
           /\ \A k \in 1..Len(SourceItems) : SourceItems[k].token_id \notin sel.dropped =>
                 \E j \in 1..Len(Rebuilt(sel)) : /\ Rebuilt(sel)[j].category = SourceItems[k].category
                                                /\ Rebuilt(sel)[j].palette_id = SourceItems[k].palette_id
<1>1. PICK n \in Nat : n = Len(Sources)
  BY SourcesAre, LenProperties
<1>2. \A i \in 1..n : Sources[i] \in SourceCats
  BY <1>1, SourcesAre, ElementOfSeq
<1>3. \A item \in ToSet(Sources) : item \in SourceCats
  <2>1. DOMAIN Sources = 1..n
    BY <1>1, SourcesAre, LenProperties
  <2> QED
    BY <1>2, <2>1 DEF ToSet
<1>4. \A dbl \in Doubled(sel) : dbl \in SourceCats
  <2> TAKE dbl \in Doubled(sel)
  <2>1. PICK e \in sel.selected : e.group = "common" /\ e.duplicate /\ dbl = SourceById(e.source)
    BY DEF Doubled
  <2>2. \E item \in ToSet(Sources) : item.token_id = e.source
    BY <2>1 DEF RebuildRefuses
  <2>3. dbl \in ToSet(Sources)
    BY <2>1, <2>2 DEF SourceById
  <2> QED
    BY <1>3, <2>3
<1>5. \A i \in 1..n : Piece(sel, i) \in Seq(SourceCats)
  <2> TAKE i \in 1..n
  <2> DEFINE item    == Sources[i]
             primary == IF item.token_id \in Promoted(sel) THEN BeamItem(item) ELSE item
             doubles == {dbl \in Doubled(sel) : GroupKey(dbl) = GroupKey(item)}
             other   == CHOOSE dbl \in doubles : TRUE
  <2>1. primary \in SourceCats
    BY <1>2, BeamItemIs
  <2>2. doubles # {} => BeamItem(other) \in SourceCats
    <3>1. doubles # {} => other \in doubles
      OBVIOUS
    <3>2. doubles # {} => other \in SourceCats
      BY <1>4, <3>1
    <3> QED
      BY <3>2, BeamItemIs
  <2>3. \/ Piece(sel, i) = <<>>
        \/ Piece(sel, i) = << primary >>
        \/ doubles # {} /\ Piece(sel, i) = << primary, BeamItem(other) >>
    BY DEF Piece
  <2> HIDE DEF primary, doubles, other
  <2>4. CASE Piece(sel, i) = <<>>
    BY <2>4, EmptySeq
  <2>5. CASE Piece(sel, i) = << primary >>
    BY <2>1, <2>5
  <2>6. CASE doubles # {} /\ Piece(sel, i) = << primary, BeamItem(other) >>
    BY <2>1, <2>2, <2>6
  <2> QED
    BY <2>3, <2>4, <2>5, <2>6
<1>6. PICK pieces : pieces = [i \in 1..n |-> Piece(sel, i)]
  OBVIOUS
<1>7. pieces \in Seq(Seq(SourceCats))
  <2>1. pieces \in [1..n -> Seq(SourceCats)]
    BY <1>5, <1>6
  <2> QED
    BY <2>1
<1>8. PICK flat \in Seq(SourceCats) : flat = FlattenSeq(pieces)
  <2>1. Start(pieces, Len(pieces)) = FlattenSeq(pieces) /\ Len(pieces) \in Nat
        /\ \A k \in 0..Len(pieces) : Start(pieces, k) \in Seq(SourceCats)
    BY <1>7, StartSteps
  <2> QED
    BY <2>1
<1>9. PICK m \in Nat : m = Len(flat)
  BY LenProperties
<1>10. Rebuilt(sel) = [i \in 1..m |-> [flat[i] EXCEPT !.token_id = i]]
  BY <1>1, <1>6, <1>8, <1>9 DEF Rebuilt
<1>11. \A i \in 1..m : [flat[i] EXCEPT !.token_id = i] \in SourceCats
  <2> TAKE i \in 1..m
  <2>1. PICK old \in SourceCats : old = flat[i]
    BY <1>9, ElementOfSeq
  <2>2. PICK new : new = [old EXCEPT !.token_id = i]
    OBVIOUS
  <2>3. /\ new.color_tuple = old.color_tuple
        /\ new.rarity_tier = old.rarity_tier /\ new.rarity_type = old.rarity_type
        /\ new.pattern = old.pattern /\ new.category = old.category /\ new.palette_id = old.palette_id
    BY <2>2 DEF SourceCats, CatRecordSet
  <2>4. new \in CatRecordSet
    <3>1. old \in CatRecordSet /\ i \in Nat
      BY DEF SourceCats
    <3> QED
      BY <2>2, <3>1 DEF CatRecordSet
  <2>5. Made(new)
    BY <2>3 DEF SourceCats, Made, MadeOf
  <2> QED
    BY <2>1, <2>2, <2>4, <2>5 DEF SourceCats
<1>12. Rebuilt(sel) \in [1..m -> SourceCats]
  BY <1>10, <1>11
<1>13. Rebuilt(sel) \in Seq(SourceCats) /\ Len(Rebuilt(sel)) = m
  BY <1>12
<1>14. ASSUME NEW k \in 1..Len(SourceItems), SourceItems[k].token_id \notin sel.dropped
       PROVE  \E j \in 1..m : /\ Rebuilt(sel)[j].category = SourceItems[k].category
                               /\ Rebuilt(sel)[j].palette_id = SourceItems[k].palette_id
  <2>1. PICK i \in 1..n : Sources[i] = SourceItems[k]
    BY <1>1, SourcesAre
  <2>2. PICK item \in SourceCats : item = Sources[i]
    BY <1>2
  <2>3. PICK primary \in SourceCats : primary = IF item.token_id \in Promoted(sel) THEN BeamItem(item) ELSE item
    BY BeamItemIs
  <2>4. primary.category = item.category /\ primary.palette_id = item.palette_id
    BY <2>3 DEF BeamItem, SourceCats, CatRecordSet
  <2>5. Piece(sel, i) = << primary >> \/ \E other : Piece(sel, i) = << primary, other >>
    BY <1>14, <2>1, <2>2, <2>3 DEF Piece
  <2>6. PICK piece \in Seq(SourceCats) : piece = pieces[i] /\ piece = Piece(sel, i)
    BY <1>5, <1>6
  <2>7. Len(piece) \in Nat \ {0} /\ piece[1] = primary
    BY <2>5, <2>6
  <2>8. PICK o : o = Len(Start(pieces, i - 1))
    OBVIOUS
  <2>9. StandsAt(flat, o, piece)
    <3>1. i \in 1..Len(pieces)
      BY <1>6
    <3> QED
      BY <1>7, <1>8, <2>6, <2>8, <3>1, FlattenPiece
  <2>10. o + 1 \in 1..m /\ flat[o + 1] = primary
    BY <1>9, <2>7, <2>9 DEF StandsAt
  <2>11. Rebuilt(sel)[o + 1] = [primary EXCEPT !.token_id = o + 1]
    BY <1>10, <2>10
  <2>12. /\ Rebuilt(sel)[o + 1].category = primary.category
         /\ Rebuilt(sel)[o + 1].palette_id = primary.palette_id
    BY <2>11 DEF SourceCats, CatRecordSet
  <2> QED
    BY <2>1, <2>2, <2>4, <2>10, <2>12
<1> QED
  BY <1>13, <1>14

-----------------------------------------------------------------------------
(* What a rebuild has drawn *)

(* What the rebuild script draws of an item, whatever the manifest: the file generated of no
   cats has the parts a drawing depends on. *)
Drawing(item) == BuildSvgFromItem(Generated(<<>>, BaseData), item)

(* A manifest a rebuild has written: every item was drawn, and its hash is of that drawing. *)
Painted(items) ==
    /\ Numbered(items)
    /\ \A i \in 1..MaxSupply :
          Made(items[i]) /\ CanBeDrawn(items[i]) /\ items[i].final_png = Drawing(items[i])

(* Two items with the same traits and colours. *)
Alike(a, b) ==
    /\ a.category = b.category
    /\ a.token_id = b.token_id /\ a.pattern = b.pattern /\ a.palette_id = b.palette_id
    /\ a.collar_type = b.collar_type /\ a.rarity_tier = b.rarity_tier /\ a.rarity_type = b.rarity_type
    /\ a.color_tuple = b.color_tuple

LEMMA AlikeCats ==
    ASSUME NEW a, NEW b, Alike(a, b)
    PROVE  /\ Made(a) => Made(b)
           /\ CanBeDrawn(a) => CanBeDrawn(b)
           /\ \A d : BuildSvgFromItem(d, a) = BuildSvgFromItem(d, b)
           /\ Drawing(a) = Drawing(b)
           /\ TraitsAreKnown(a) <=> TraitsAreKnown(b)
           /\ \A tuples : TokenRecord(a, tuples) = TokenRecord(b, tuples)
<1>1. Made(a) => Made(b)
  BY DEF Alike, Made, MadeOf
<1>2. CanBeDrawn(a) => CanBeDrawn(b)
  BY DEF Alike, CanBeDrawn
<1>3. \A d : BuildSvgFromItem(d, a) = BuildSvgFromItem(d, b)
  BY DEF Alike, BuildSvgFromItem
<1>4. Drawing(a) = Drawing(b)
  BY <1>3 DEF Drawing
<1>5. TraitsAreKnown(a) <=> TraitsAreKnown(b)
  BY DEF Alike, TraitsAreKnown
<1>6. \A tuples : TokenRecord(a, tuples) = TokenRecord(b, tuples)
  BY DEF Alike, TokenRecord
<1> QED
  BY <1>1, <1>2, <1>3, <1>4, <1>5, <1>6

(* A picture's hash is added to an item and changes nothing of it. *)
LEMMA HashedIsAlike ==
    ASSUME NEW item \in SourceCats, NEW picture
    PROVE  /\ Alike(item, Overwritten(item, [final_png |-> picture]))
           /\ Overwritten(item, [final_png |-> picture]).final_png = picture
<1>1. DOMAIN item = {"token_id", "pattern", "palette_id", "category", "variant_key", "collar_type", "rarity_tier",
                     "rarity_type", "color_tuple"}
  BY DEF SourceCats, CatRecordSet
<1>2. PICK new : new = Overwritten(item, [final_png |-> picture])
  OBVIOUS
<1>3. new.final_png = picture
  BY <1>2 DEF Overwritten
<1>4. /\ new.token_id = item.token_id /\ new.pattern = item.pattern /\ new.palette_id = item.palette_id
      /\ new.collar_type = item.collar_type /\ new.rarity_tier = item.rarity_tier
  BY <1>1, <1>2 DEF Overwritten
<1>5. new.rarity_type = item.rarity_type /\ new.color_tuple = item.color_tuple /\ new.category = item.category
  BY <1>1, <1>2 DEF Overwritten
<1> QED
  BY <1>2, <1>3, <1>4, <1>5 DEF Alike

(* A rebuild that draws all its items and finds them valid has a painted manifest to write. *)
LEMMA DrawnIsPainted ==
    ASSUME NEW items \in Seq(SourceCats), NEW d, HasKeptParts(d), NEW pictures,
           pictures = [i \in 1..Len(items) |-> BuildSvgFromItem(d, items[i])],
           \A i \in 1..Len(items) : CanBeDrawn(items[i]),
           NEW sel, Valid(WithHash(items, pictures), sel)
    PROVE  /\ Painted(WithHash(items, pictures)) /\ Len(items) = MaxSupply
           /\ \A i \in 1..MaxSupply : Alike(items[i], WithHash(items, pictures)[i])
<1>1. PICK n \in Nat : n = Len(items)
  BY LenProperties
<1>2. PICK final : final = WithHash(items, pictures)
  OBVIOUS
<1>3. final = [i \in 1..n |-> Overwritten(items[i], [final_png |-> pictures[i]])]
  BY <1>1, <1>2 DEF WithHash
<1>4. Numbered(final) /\ DOMAIN final = 1..MaxSupply
  <2>1. Valid(final, sel) /\ Numbered(final)
    BY <1>2, HashedItemsAreNumbered
  <2>2. DOMAIN final = 1..MaxSupply
    BY <2>1 DEF Valid
  <2> QED
    BY <2>1, <2>2
<1>5. n = MaxSupply
  <2>1. 1..n = 1..MaxSupply /\ MaxSupply \in Nat \ {0}
    BY <1>3, <1>4, CatArtAssumption
  <2>2. (MaxSupply \in 1..n /\ n \in 1..MaxSupply) \/ n = 0
    BY <2>1
  <2> QED
    BY <2>1, <2>2
<1>6. ASSUME NEW i \in 1..n
      PROVE  /\ Alike(items[i], final[i])
             /\ Made(final[i]) /\ CanBeDrawn(final[i]) /\ final[i].final_png = Drawing(final[i])
  <2>1. PICK item \in SourceCats : item = items[i]
    BY <1>1, ElementOfSeq
  <2>2. final[i] = Overwritten(item, [final_png |-> pictures[i]])
    BY <1>3, <2>1
  <2>3. Alike(item, final[i]) /\ final[i].final_png = pictures[i]
    BY <2>2, HashedIsAlike
  <2>4. Made(item) /\ CanBeDrawn(item)
    BY <1>1, <2>1 DEF SourceCats
  <2>5. pictures[i] = BuildSvgFromItem(d, item)
    BY <1>1, <2>1
  <2>6. BuildSvgFromItem(d, item) = Drawing(item)
    <3>1. HasKeptParts(Generated(<<>>, BaseData))
      BY GeneratedHasThem
    <3> QED
      BY <3>1, DrawingsStay DEF Drawing
  <2>7. Made(final[i]) /\ CanBeDrawn(final[i]) /\ Drawing(final[i]) = Drawing(item)
    BY <2>3, <2>4, AlikeCats
  <2> QED
    BY <2>1, <2>3, <2>5, <2>6, <2>7
<1>7. Painted(final)
  BY <1>4, <1>5, <1>6 DEF Painted
<1> QED
  BY <1>1, <1>2, <1>5, <1>6, <1>7

(* The data file of the items is the data file of the items with their hashes. *)
LEMMA AlikeItems ==
    ASSUME NEW a, NEW b, Numbered(a), Numbered(b), \A i \in 1..MaxSupply : Alike(a[i], b[i])
    PROVE  /\ \A d : Generated(a, d) = Generated(b, d)
           /\ ManifestIsPackable(a) => ManifestIsPackable(b)
<1>1. PICK n \in Nat : n = MaxSupply
  BY CatArtAssumption
<1>2. Len(a) = n /\ Len(b) = n /\ ByToken(a) = a /\ ByToken(b) = b
  BY <1>1, NumberedItems
<1>3. ColorTuples(a) = ColorTuples(b)
  <2>1. [i \in 1..n |-> a[i].color_tuple] = [i \in 1..n |-> b[i].color_tuple]
    BY <1>1 DEF Alike
  <2> QED
    BY ONLY <1>2, <2>1 DEF ColorTuples
<1>4. PICK tuples : tuples = ColorTuples(a)
  OBVIOUS
<1>5. [i \in 1..n |-> TokenRecord(a[i], tuples)] = [i \in 1..n |-> TokenRecord(b[i], tuples)]
  <2>1. \A i \in 1..n : TokenRecord(a[i], tuples) = TokenRecord(b[i], tuples)
    BY <1>1, AlikeCats
  <2> QED
    BY <2>1
<1>6. \A d : Generated(a, d) = Generated(b, d)
  BY ONLY <1>2, <1>3, <1>4, <1>5 DEF Generated
<1>7. ManifestIsPackable(a) => ManifestIsPackable(b)
  <2>1. \A i \in 1..n : (a[i].token_id = i /\ TraitsAreKnown(a[i])) <=> (b[i].token_id = i /\ TraitsAreKnown(b[i]))
    <3> TAKE i \in 1..n
    <3>1. a[i].token_id = b[i].token_id
      BY <1>1 DEF Alike
    <3>2. TraitsAreKnown(a[i]) <=> TraitsAreKnown(b[i])
      BY <1>1, AlikeCats
    <3> QED
      BY <3>1, <3>2
  <2> QED
    BY ONLY <1>2, <1>3, <2>1 DEF ManifestIsPackable
<1> QED
  BY <1>6, <1>7

(* The inductive invariant of what the scripts draw: the data file is generated from a painted
   manifest that fits it, the manifest is painted, and so is what a rebuild is about to write. *)
DrawingInv ==
    /\ BeamFits(BaseData)
    /\ data = Generated(dataSource, BaseData)
    /\ ManifestIsPackable(dataSource) /\ Painted(dataSource)
    /\ Painted(manifest.items)
    /\ job.script = "rebuild" /\ job.step = "draw" => job.items \in Seq(SourceCats)
    /\ job.script = "rebuild" /\ job.step = "manifest" => Painted(job.items)

LEMMA DataHasKeptParts == DrawingInv => HasKeptParts(data)
  BY GeneratedHasThem DEF DrawingInv

(* What Drawable asks of an item it asks of the parts of the data file that stay. *)
LEMMA DrawableItems ==
    ASSUME HasKeptParts(data), NEW items \in Seq(SourceCats), Undrawable(items) = {}
    PROVE  \A i \in 1..Len(items) : CanBeDrawn(items[i])
<1> SUFFICES ASSUME NEW i \in 1..Len(items) PROVE CanBeDrawn(items[i])
  OBVIOUS
<1>1. Drawable(items[i])
  BY DEF Undrawable
<1>2. data.slotCounts = BaseData.slotCounts
  BY DEF HasKeptParts
<1> QED
  BY <1>1, <1>2 DEF Drawable, PatternIsDrawable, CanBeDrawn

LEMMA InitIsDrawn == Init => DrawingInv
<1> SUFFICES ASSUME Init PROVE DrawingInv
  OBVIOUS
<1>1. PICK sel \in Selections :
        LET items == Rebuilt(sel)
            first == Generated(items, BaseData)
            pictures == [i \in 1..Len(items) |-> BuildSvgFromItem(first, items[i])]
            final == WithHash(items, pictures)
        IN  /\ ~RebuildRefuses(sel)
            /\ ManifestIsPackable(items) /\ BeamFits(BaseData)
            /\ data = first
            /\ Undrawable(items) = {} /\ Valid(final, sel)
            /\ manifest = [created |-> 0, items |-> final]
            /\ dataSource = manifest.items
            /\ job = Idle
  BY DEF Init
<1>2. PICK items : items = Rebuilt(sel)
  OBVIOUS
<1>3. PICK pictures : pictures = [i \in 1..Len(items) |-> BuildSvgFromItem(Generated(items, BaseData), items[i])]
  OBVIOUS
<1>4. PICK final : final = WithHash(items, pictures)
  OBVIOUS
<1>5. /\ ManifestIsPackable(items) /\ BeamFits(BaseData)
      /\ data = Generated(items, BaseData)
      /\ Undrawable(items) = {} /\ Valid(final, sel)
      /\ manifest = [created |-> 0, items |-> final] /\ dataSource = manifest.items /\ job = Idle
      /\ ~RebuildRefuses(sel)
  BY <1>1, <1>2, <1>3, <1>4
<1>6. items \in Seq(SourceCats)
  BY <1>2, <1>5, RebuiltIs
<1>7. HasKeptParts(data)
  BY <1>5, GeneratedHasThem
<1>8. \A i \in 1..Len(items) : CanBeDrawn(items[i])
  BY <1>5, <1>6, <1>7, DrawableItems
<1>9. /\ Painted(WithHash(items, pictures)) /\ Len(items) = MaxSupply
      /\ \A i \in 1..MaxSupply : Alike(items[i], WithHash(items, pictures)[i])
  BY <1>3, <1>4, <1>5, <1>6, <1>7, <1>8, DrawnIsPainted
<1>10. Numbered(items) /\ Numbered(final)
  <2>1. Numbered(final)
    BY <1>4, <1>9 DEF Painted
  <2>2. \A i \in 1..MaxSupply : items[i].token_id = final[i].token_id
    BY <1>4, <1>9 DEF Alike
  <2>3. items = [i \in 1..MaxSupply |-> items[i]]
    BY <1>6, <1>9, LenProperties
  <2> QED
    BY <2>1, <2>2, <2>3 DEF Numbered
<1>11. Generated(items, BaseData) = Generated(final, BaseData) /\ ManifestIsPackable(final)
  BY <1>4, <1>5, <1>9, <1>10, AlikeItems
<1>12. manifest.items = final /\ dataSource = final /\ job.script = "none"
  BY <1>5 DEF Idle
<1>13. data = Generated(dataSource, BaseData) /\ ManifestIsPackable(dataSource)
  BY <1>5, <1>11, <1>12
<1>14. Painted(manifest.items) /\ Painted(dataSource)
  BY <1>4, <1>9, <1>12
<1> QED
  BY <1>5, <1>12, <1>13, <1>14 DEF DrawingInv

LEMMA NextIsDrawn == ReleaseInv /\ DrawingInv /\ [Next]_vars => DrawingInv'
<1> SUFFICES ASSUME ReleaseInv, DrawingInv, [Next]_vars PROVE DrawingInv'
  OBVIOUS
<1>1. ASSUME UNCHANGED <<manifest, data, dataSource>>, job' = Idle \/ job'.script = "viewer" \/ UNCHANGED job
      PROVE  DrawingInv'
  <2>1. CASE UNCHANGED job
    BY <1>1, <2>1 DEF DrawingInv
  <2>2. CASE job' = Idle \/ job'.script = "viewer"
    <3>1. job'.script # "rebuild"
      BY <2>2 DEF Idle
    <3> QED
      BY <1>1, <3>1 DEF DrawingInv
  <2> QED
    BY <1>1, <2>1, <2>2
<1>2. CASE EditSelection
  BY <1>1, <1>2 DEF EditSelection
<1>3. CASE RebuildStarts
  <2>1. /\ job' = [script |-> "rebuild", step |-> "draw", sel |-> selection, items |-> Rebuilt(selection)]
        /\ UNCHANGED <<manifest, data, dataSource>> /\ ~RebuildRefuses(selection)
    BY <1>3 DEF RebuildStarts
  <2>2. Rebuilt(selection) \in Seq(SourceCats)
    BY <2>1, RebuiltIs
  <2>3. job'.step = "draw" /\ job'.items \in Seq(SourceCats)
    BY <2>1, <2>2
  <2> QED
    BY <2>1, <2>3 DEF DrawingInv
<1>4. CASE RebuildDraws
  <2>1. PICK bad : bad = Undrawable(job.items)
    OBVIOUS
  <2>2. PICK upTo : upTo = IF bad = {} THEN Len(job.items) ELSE FirstOf(bad) - 1
    OBVIOUS
  <2>3. PICK final : final = WithHash(job.items, Drawn(job.items, upTo))
    OBVIOUS
  <2>4. /\ job.script = "rebuild" /\ job.step = "draw"
        /\ job' = IF bad = {} /\ Valid(final, job.sel)
                  THEN [job EXCEPT !.step = "manifest", !.items = final] ELSE Idle
        /\ UNCHANGED <<manifest, data, dataSource>>
    BY <1>4, <2>1, <2>2, <2>3 DEF RebuildDraws
  <2>5. CASE ~(bad = {} /\ Valid(final, job.sel))
    BY <1>1, <2>4, <2>5
  <2>6. CASE bad = {} /\ Valid(final, job.sel)
    <3>1. PICK items \in Seq(SourceCats) : items = job.items
      BY <2>4 DEF DrawingInv
    <3>2. PICK pictures : pictures = Drawn(items, upTo)
      OBVIOUS
    <3>3. HasKeptParts(data)
      BY DataHasKeptParts
    <3>4. pictures = [i \in 1..Len(items) |-> BuildSvgFromItem(data, items[i])]
      BY <2>2, <2>6, <3>1, <3>2 DEF Drawn
    <3>5. \A i \in 1..Len(items) : CanBeDrawn(items[i])
      BY <2>1, <2>6, <3>1, <3>3, DrawableItems
    <3>6. Valid(WithHash(items, pictures), job.sel) /\ final = WithHash(items, pictures)
      BY <2>3, <2>6, <3>1, <3>2
    <3>7. Painted(final)
      <4>1. PICK d : d = data /\ HasKeptParts(d)
        BY <3>3
      <4>2. PICK sel : sel = job.sel
        OBVIOUS
      <4>3. pictures = [i \in 1..Len(items) |-> BuildSvgFromItem(d, items[i])]
        BY <3>4, <4>1
      <4>4. Valid(WithHash(items, pictures), sel)
        BY <3>6, <4>2
      <4>5. Painted(WithHash(items, pictures))
        BY <3>5, <4>1, <4>3, <4>4, DrawnIsPainted
      <4> QED
        BY <3>6, <4>5
    <3>8. job'.step = "manifest" /\ job'.items = final
      <4>1. PICK step, kept, old : job = [script |-> "rebuild", step |-> step, sel |-> kept, items |-> old]
        BY <2>4 DEF ReleaseInv, JobIsWhole, Idle
      <4>2. job' = [script |-> "rebuild", step |-> "manifest", sel |-> kept, items |-> final]
        BY <2>4, <2>6, <4>1
      <4> QED
        BY <4>2
    <3> QED
      BY <2>4, <3>7, <3>8 DEF DrawingInv
  <2> QED
    BY <2>5, <2>6
<1>5. CASE RebuildWritesManifest
  <2>1. /\ job.script = "rebuild" /\ job.step = "manifest"
        /\ manifest' = [created |-> manifest.created + 1, items |-> job.items]
        /\ job' = [job EXCEPT !.step = "summary"] /\ UNCHANGED <<data, dataSource>>
    BY <1>5 DEF RebuildWritesManifest
  <2>2. Painted(job.items)
    BY <2>1 DEF DrawingInv
  <2>3. job = [script |-> "rebuild", step |-> job.step, sel |-> job.sel, items |-> job.items]
    BY <2>1 DEF ReleaseInv, JobIsWhole, Idle
  <2>4. job'.step = "summary"
    BY <2>1, <2>3
  <2>5. manifest'.items = job.items
    BY <2>1
  <2> QED
    BY <2>1, <2>2, <2>4, <2>5 DEF DrawingInv
<1>6. CASE RebuildWritesSummary
  BY <1>1, <1>6 DEF RebuildWritesSummary
<1>7. CASE GenerateOnchainData
  <2>1. /\ job = Idle /\ ManifestIsPackable(manifest.items)
        /\ data' = Generated(manifest.items, data) /\ dataSource' = manifest.items
        /\ UNCHANGED <<manifest, job>>
    BY <1>7 DEF GenerateOnchainData
  <2>2. Generated(manifest.items, data) = Generated(manifest.items, BaseData)
    BY DataHasKeptParts, GeneratedAgain
  <2>3. data' = Generated(dataSource', BaseData)
    BY <2>1, <2>2
  <2> QED
    BY <2>1, <2>3 DEF DrawingInv
<1>8. CASE ViewerChecksItems
  <2>1. /\ \/ job' = Idle
           \/ job' = [script |-> "viewer", step |-> 1, items |-> ByToken(manifest.items), summary |-> summary]
        /\ UNCHANGED <<manifest, data, dataSource>>
    BY <1>8 DEF ViewerChecksItems
  <2>2. job' = Idle \/ job'.script = "viewer"
    BY <2>1
  <2> QED
    BY <1>1, <2>1, <2>2
<1>9. CASE ViewerWritesDoc
  <2>1. /\ job.script = "viewer" /\ UNCHANGED <<manifest, data, dataSource>>
        /\ job' = IF job.step = Len(DocOrder) THEN Idle ELSE [job EXCEPT !.step = @ + 1]
    BY <1>9 DEF ViewerWritesDoc
  <2>2. job = [script |-> "viewer", step |-> job.step, items |-> job.items, summary |-> job.summary]
    BY <2>1 DEF ReleaseInv, JobIsWhole, Idle
  <2>3. job' = Idle \/ job'.script = "viewer"
    BY <2>1, <2>2
  <2> QED
    BY <1>1, <2>1, <2>3
<1>10. CASE Stops
  BY <1>1, <1>10 DEF Stops
<1>11. CASE UNCHANGED vars
  BY <1>1, <1>11 DEF vars
<1> QED
  BY <1>2, <1>3, <1>4, <1>5, <1>6, <1>7, <1>8, <1>9, <1>10, <1>11 DEF Next

(* However the scripts are run, repeated and stopped, the data file is generated from a manifest
   all of whose items were drawn, and so is what a rebuild is about to write. *)
THEOREM ReleaseIsDrawn == Spec => [](ReleaseInv /\ DrawingInv)
<1>1. Init => ReleaseInv /\ DrawingInv
  BY InitIsConsistent, InitIsDrawn
<1>2. ReleaseInv /\ DrawingInv /\ [Next]_vars => (ReleaseInv /\ DrawingInv)'
  BY NextIsConsistent, NextIsDrawn
<1> QED
  BY <1>1, <1>2, PTL DEF Spec

(* The data file is its own input: generated again from the same manifest it is the same file,
   and no run of the generator changes a mask or a fixed layer other than the beam. *)
THEOREM RegenerationStaysStable == Spec => RegenerationIsStable
<1>1. ASSUME DrawingInv, DrawingInv', [Next]_vars
      PROVE  /\ data' # data => dataSource' # dataSource
             /\ \A layer \in 0..(PreservedLayers - 1) : FixedLayer(data', layer, Blank) = FixedLayer(data, layer, Blank)
             /\ data'.masks = data.masks
  <2>1. data = Generated(dataSource, BaseData) /\ data' = Generated(dataSource', BaseData)
    BY <1>1 DEF DrawingInv
  <2>2. HasKeptParts(data) /\ HasKeptParts(data')
    BY <2>1, GeneratedHasThem
  <2>3. data'.masks = data.masks /\ data'.fixedMeta = data.fixedMeta /\ data'.fixedPixels = data.fixedPixels
        /\ data'.fixedPalettes = data.fixedPalettes
    BY <2>2 DEF HasKeptParts
  <2>4. \A layer : FixedLayer(data', layer, Blank) = FixedLayer(data, layer, Blank)
    BY <2>3 DEF FixedLayer
  <2> QED
    BY <2>1, <2>3, <2>4
<1> QED
  BY <1>1, ReleaseIsDrawn, PTL DEF Spec, RegenerationIsStable

(* Generated from a manifest the data file names every trait as the manifest does and draws
   every token as the rebuild script drew it when the manifest was made, whatever cats were
   selected, however often the file was generated from itself, and wherever a script stopped. *)
THEOREM ChainDrawsWhatWasReleased == Spec => []ChainDrawsTheManifest
<1>1. DrawingInv => ChainDrawsTheManifest
  <2> SUFFICES ASSUME DrawingInv, NEW i \in 1..Len(dataSource)
               PROVE  TokenURI(data, i) = [image |-> dataSource[i].final_png,
                                           attributes |-> ManifestAttributes(dataSource[i])]
    BY DEF ChainDrawsTheManifest, RendererMatches
  <2>1. PICK items : items = dataSource
    OBVIOUS
  <2>2. PICK d : d = data /\ d = Generated(items, BaseData) /\ HasKeptParts(d)
    BY <2>1, DataHasKeptParts DEF DrawingInv
  <2>3. Painted(items) /\ Numbered(items) /\ ManifestIsPackable(items) /\ BeamFits(BaseData) /\ i \in 1..MaxSupply
    BY <2>1, NumberedItems DEF DrawingInv, Painted
  <2>4. \A j \in 1..MaxSupply : Made(items[j])
    BY <2>3 DEF Painted
  <2>5. PICK item, rec : item = items[i] /\ rec = DecodeTokenRecord(d.records, i)
    OBVIOUS
  <2>6. TraitsAreKnown(item) /\ ReadsAs(d, rec, item)
    BY <2>2, <2>3, <2>4, <2>5, PackedItem
  <2>7. Made(item) /\ CanBeDrawn(item) /\ item.final_png = Drawing(item)
    BY <2>3, <2>5 DEF Painted
  <2>8. SlotsFit(d, rec) /\ ImageData(d, rec) = BuildSvgFromItem(d, item) /\ Attributes(rec) = ManifestAttributes(item)
    BY <2>2, <2>3, <2>6, <2>7, RendererDraws
  <2>9. BuildSvgFromItem(d, item) = Drawing(item)
    BY <2>2, GeneratedHasThem, DrawingsStay DEF Drawing
  <2>10. TokenURI(d, i) = [image |-> ImageData(d, rec), attributes |-> Attributes(rec)]
    BY <2>3, <2>5, <2>8 DEF TokenURI
  <2> QED
    BY <2>1, <2>2, <2>5, <2>7, <2>8, <2>9, <2>10
<1> QED
  BY <1>1, ReleaseIsDrawn, PTL

-----------------------------------------------------------------------------
(* The viewer *)

(* The inductive invariant of a viewer run: it goes on only after every item was found to agree
   with the data file, which does not change before the run ends. *)
ViewerInv ==
    /\ "svgs" \in DOMAIN viewer
    /\ job.script = "viewer" =>
         /\ Mismatches(job.items) = {}
         /\ \A i \in 1..MaxSupply : viewer.svgs[i] = BuildSvg(data, DecodeTokenRecord(data.records, i))

LEMMA InitIsViewed == Init => ViewerInv
<1> SUFFICES ASSUME Init PROVE ViewerInv
  OBVIOUS
<1>1. job = Idle /\ "svgs" \in DOMAIN viewer
  BY DEF Init
<1> QED
  BY <1>1 DEF ViewerInv, Idle

LEMMA NextIsViewed == ReleaseInv /\ ViewerInv /\ [Next]_vars => ViewerInv'
<1> SUFFICES ASSUME ReleaseInv, ViewerInv, [Next]_vars PROVE ViewerInv'
  OBVIOUS
<1>1. ASSUME UNCHANGED viewer, job'.script # "viewer" PROVE ViewerInv'
  BY <1>1 DEF ViewerInv
<1>2. CASE EditSelection
  BY <1>1, <1>2 DEF EditSelection, Idle
<1>3. CASE RebuildStarts
  BY <1>1, <1>3 DEF RebuildStarts
<1>4. ASSUME job.script = "rebuild" PROVE job = [script |-> "rebuild", step |-> job.step, sel |-> job.sel, items |-> job.items]
  BY <1>4 DEF ReleaseInv, JobIsWhole, Idle
<1>5. CASE RebuildDraws
  <2>1. /\ UNCHANGED viewer /\ job.script = "rebuild"
        /\ job' = Idle \/ \E final : job' = [job EXCEPT !.step = "manifest", !.items = final]
    BY <1>5 DEF RebuildDraws
  <2>2. PICK step, kept, items : job = [script |-> "rebuild", step |-> step, sel |-> kept, items |-> items]
    BY <1>4, <2>1
  <2>3. job'.script # "viewer"
    <3>1. CASE job' = Idle
      BY <3>1 DEF Idle
    <3>2. ASSUME NEW final, job' = [job EXCEPT !.step = "manifest", !.items = final] PROVE job'.script # "viewer"
      <4>1. job' = [script |-> "rebuild", step |-> "manifest", sel |-> kept, items |-> final]
        BY <2>2, <3>2
      <4> QED
        BY <4>1
    <3> QED
      BY <2>1, <3>1, <3>2
  <2> QED
    BY <1>1, <2>1, <2>3
<1>6. CASE RebuildWritesManifest
  <2>1. UNCHANGED viewer /\ job.script = "rebuild" /\ job' = [job EXCEPT !.step = "summary"]
    BY <1>6 DEF RebuildWritesManifest
  <2>2. job'.script # "viewer"
    BY <1>4, <2>1
  <2> QED
    BY <1>1, <2>1, <2>2
<1>7. CASE RebuildWritesSummary
  BY <1>1, <1>7 DEF RebuildWritesSummary, Idle
<1>8. CASE GenerateOnchainData
  BY <1>1, <1>8 DEF GenerateOnchainData, Idle
<1>9. CASE ViewerChecksItems
  <2>1. PICK items : items = manifest.items /\ items = ByToken(manifest.items) /\ Len(items) = MaxSupply
    BY NumberedItems DEF ReleaseInv
  <2>2. PICK bad, upTo : bad = Mismatches(items) /\ upTo = IF bad = {} THEN Len(items) ELSE FirstOf(bad) - 1
    OBVIOUS
  <2>3. PICK drawn : drawn = [i \in 1..upTo |-> BuildSvg(data, DecodeTokenRecord(data.records, i))]
    OBVIOUS
  <2>4. /\ viewer' = [viewer EXCEPT !.svgs = Overwritten(viewer.svgs, drawn)]
        /\ job' = IF bad = {} THEN [script |-> "viewer", step |-> 1, items |-> items, summary |-> summary] ELSE Idle
        /\ UNCHANGED data
    BY <1>9, <2>1, <2>2, <2>3 DEF ViewerChecksItems
  <2>5. "svgs" \in DOMAIN viewer' /\ viewer'.svgs = Overwritten(viewer.svgs, drawn)
    BY <2>4 DEF ViewerInv
  <2>6. CASE bad # {}
    BY <2>4, <2>5, <2>6 DEF ViewerInv, Idle
  <2>7. CASE bad = {}
    <3>1. job'.items = items /\ Mismatches(items)' = {}
      <4>1. Mismatches(items) = {} /\ data' = data
        BY <2>2, <2>4, <2>7
      <4>2. job'.items = items
        BY <2>4, <2>7
      <4> QED
        BY <4>1, <4>2 DEF Mismatches
    <3>2. \A i \in 1..MaxSupply : viewer'.svgs[i] = BuildSvg(data, DecodeTokenRecord(data.records, i))
      BY <2>1, <2>2, <2>3, <2>5, <2>7 DEF Overwritten
    <3> QED
      BY <2>4, <2>5, <3>1, <3>2 DEF ViewerInv, Mismatches
  <2> QED
    BY <2>6, <2>7
<1>10. CASE ViewerWritesDoc
  <2>1. PICK doc, new : doc = DocOrder[job.step] /\ viewer' = [viewer EXCEPT ![doc] = new]
    BY <1>10 DEF ViewerWritesDoc
  <2>2. /\ job.script = "viewer" /\ UNCHANGED data
        /\ job' = IF job.step = Len(DocOrder) THEN Idle ELSE [job EXCEPT !.step = @ + 1]
    BY <1>10 DEF ViewerWritesDoc
  <2>3. doc # "svgs"
    <3>1. job.step \in 1..4
      BY <2>2, DocsInOrder DEF ReleaseInv
    <3> QED
      BY <2>1, <3>1, DocsInOrder
  <2>4. "svgs" \in DOMAIN viewer' /\ viewer'.svgs = viewer.svgs
    BY <2>1, <2>3 DEF ViewerInv
  <2>5. CASE job' = Idle
    BY <2>4, <2>5 DEF ViewerInv, Idle
  <2>6. CASE job' # Idle
    <3>1. job = [script |-> "viewer", step |-> job.step, items |-> job.items, summary |-> job.summary]
      BY <2>2 DEF ReleaseInv, JobIsWhole, Idle
    <3>2. job' = [job EXCEPT !.step = @ + 1]
      BY <2>2, <2>6
    <3>3. job'.items = job.items
      BY <3>1, <3>2
    <3> QED
      BY <2>2, <2>4, <3>3 DEF ViewerInv, Mismatches
  <2> QED
    BY <2>5, <2>6
<1>11. CASE Stops
  BY <1>1, <1>11 DEF Stops, Idle
<1>12. CASE UNCHANGED vars
  BY <1>12 DEF vars, ViewerInv, Mismatches
<1> QED
  BY <1>2, <1>3, <1>5, <1>6, <1>7, <1>8, <1>9, <1>10, <1>11, <1>12 DEF Next

(* A viewer run goes on only after every item was found to agree with the data file, and that
   file stays as it is until the run ends. *)
THEOREM ReleaseIsViewed == Spec => []ViewerInv
  BY InitIsViewed, NextIsViewed, ReleaseIsDrawn, PTL DEF Spec

(* A viewer run that has written its collection shows what the chain shows: the same picture,
   the same traits, and, of the cats the data file was generated from, the same colours. *)
THEOREM ViewerShowsWhatTheChainShows == Spec => []ViewerShowsTheChain
<1>1. ReleaseInv /\ DrawingInv /\ ViewerInv => ViewerShowsTheChain
  <2> SUFFICES ASSUME ReleaseInv, DrawingInv, ViewerInv, job.script = "viewer", job.step > 1, NEW i \in 1..MaxSupply
               PROVE  LET uri   == TokenURI(data, i)
                          shown == viewer.collection[i]
                          tuple == TupleMeta(data.tupleMeta, DecodeTokenRecord(data.records, i).tuple)
                      IN  /\ viewer.svgs[i] = uri.image
                          /\ << shown.trait_values.pattern, shown.trait_values.palette_id, shown.trait_values.collar,
                                shown.trait_values.rarity_tier, shown.trait_values.rarity_type >> = uri.attributes
                          /\ dataSource = job.items =>
                                 shown.color_tuple = SubSeq(data.tupleColors, tuple.offset + 1, tuple.offset + tuple.len)
    BY DEF ViewerShowsTheChain
  <2>1. PICK source, items, d : source = dataSource /\ items = job.items /\ d = data
    OBVIOUS
  <2>2. PICK rec, made, item : rec = DecodeTokenRecord(d.records, i) /\ made = source[i] /\ item = items[i]
    OBVIOUS
  <2>3. d = Generated(source, BaseData) /\ HasKeptParts(d)
    BY <2>1, DataHasKeptParts DEF DrawingInv
  <2>4. Painted(source) /\ Numbered(source) /\ ManifestIsPackable(source) /\ BeamFits(BaseData)
    BY <2>1 DEF DrawingInv, Painted
  <2>5. \A j \in 1..MaxSupply : Made(source[j])
    BY <2>4 DEF Painted
  <2>6. TraitsAreKnown(made) /\ ReadsAs(d, rec, made)
    BY <2>2, <2>3, <2>4, <2>5, PackedItem
  <2>7. Made(made) /\ CanBeDrawn(made)
    BY <2>2, <2>4 DEF Painted
  <2>8. SlotsFit(d, rec) /\ (rec.tier = 2 => rec.rtype = 6)
    BY <2>3, <2>4, <2>6, <2>7, RendererDraws
  <2>9. TokenURI(d, i) = [image |-> ImageData(d, rec), attributes |-> Attributes(rec)]
    BY <2>2, <2>8 DEF TokenURI
  <2>10. viewer.svgs[i] = ImageData(d, rec)
    <3>1. viewer.svgs[i] = BuildSvg(d, rec)
      BY <2>1, <2>2 DEF ViewerInv
    <3> QED
      BY <2>8, <3>1, PortDraws
  <2>11. Numbered(items) /\ Len(items) = MaxSupply
    BY <2>1, NumberedItems DEF ReleaseInv
  <2>12. Attributes(rec) = ManifestAttributes(item)
    <3>1. i \notin Mismatches(items)
      BY <2>1 DEF ViewerInv
    <3>2. TraitNames(rec) = ManifestAttributes(item)
      BY <2>1, <2>2, <2>11, <3>1 DEF Mismatches
    <3>3. rec \in Fields
      BY <2>6 DEF ReadsAs
    <3> QED
      BY <3>2, <3>3, TheTablesAgree
  <2>13. viewer.collection[i] = CollectionItem(item)
    <3>1. viewer.collection = ViewerDoc(items, job.summary.counts, "collection")
      BY <2>1 DEF ReleaseInv
    <3>2. viewer.collection = [j \in 1..Len(items) |-> CollectionItem(items[j])]
      BY <3>1 DEF ViewerDoc
    <3> QED
      BY <2>2, <2>11, <3>2
  <2>14. PICK shown : shown = viewer.collection[i]
    OBVIOUS
  <2>15. << shown.trait_values.pattern, shown.trait_values.palette_id, shown.trait_values.collar,
            shown.trait_values.rarity_tier, shown.trait_values.rarity_type >> = ManifestAttributes(item)
    BY <2>13, <2>14 DEF CollectionItem, TraitValues, ManifestAttributes
  <2>16. shown.color_tuple = item.color_tuple
    BY <2>13, <2>14 DEF CollectionItem
  <2>17. PICK tuple : tuple = TupleMeta(d.tupleMeta, rec.tuple)
    OBVIOUS
  <2>18. SubSeq(d.tupleColors, tuple.offset + 1, tuple.offset + tuple.len) = made.color_tuple
    BY <2>6, <2>17 DEF ReadsAs
  <2>19. dataSource = job.items => made = item
    BY <2>1, <2>2
  <2>20. PICK uri : uri = TokenURI(data, i)
    OBVIOUS
  <2>21. uri.image = ImageData(d, rec) /\ uri.attributes = Attributes(rec)
    BY <2>1, <2>9, <2>20
  <2> QED
    BY <2>1, <2>2, <2>10, <2>12, <2>14, <2>15, <2>16, <2>17, <2>18, <2>19, <2>20, <2>21
<1> QED
  BY <1>1, ReleaseIsDrawn, ReleaseIsViewed, PTL
=============================================================================
