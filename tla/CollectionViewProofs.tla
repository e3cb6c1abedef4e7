------------------------ MODULE CollectionViewProofs -------------------------
(***************************************************************************)
(* Chips, pages, links and neighbours of a view, for any collection, page  *)
(* size and parameters; and that the release scripts publish a collection  *)
(* such a view can be made of.                                             *)
(***************************************************************************)
EXTENDS Catalogue, CollectionReleaseProofs

(* The finite sets of token ids a view is made of. *)
IsView(ids) == IsFiniteSet(ids) /\ ids \subseteq Nat

-----------------------------------------------------------------------------
(* The order *)

LEMMA TierRanks == ASSUME NEW traits PROVE TierRank(traits) \in Nat
BY DEF TierRank

(* Both orders are strict and total on token ids. *)
LEMMA BeforeIsAnOrder ==
    ASSUME NEW cats, NEW sort, NEW a \in Nat, NEW b \in Nat, NEW c \in Nat
    PROVE  /\ ~Before(cats, sort, a, a)
           /\ a # b => Before(cats, sort, a, b) \/ Before(cats, sort, b, a)
           /\ Before(cats, sort, a, b) => ~Before(cats, sort, b, a)
           /\ Before(cats, sort, a, b) /\ Before(cats, sort, b, c) => Before(cats, sort, a, c)
<1> DEFINE ra == TierRank(cats[a])  rb == TierRank(cats[b])  rc == TierRank(cats[c])
<1>1. ra \in Nat /\ rb \in Nat /\ rc \in Nat
  BY TierRanks
<1> HIDE DEF ra, rb, rc
<1>2. /\ Before(cats, sort, a, b) <=> IF sort = "rarity" /\ ra # rb THEN ra < rb ELSE a < b
      /\ Before(cats, sort, b, a) <=> IF sort = "rarity" /\ rb # ra THEN rb < ra ELSE b < a
      /\ Before(cats, sort, b, c) <=> IF sort = "rarity" /\ rb # rc THEN rb < rc ELSE b < c
      /\ Before(cats, sort, a, c) <=> IF sort = "rarity" /\ ra # rc THEN ra < rc ELSE a < c
      /\ Before(cats, sort, a, a) <=> IF sort = "rarity" /\ ra # ra THEN ra < ra ELSE a < a
  BY DEF Before, ra, rb, rc
<1> QED
  BY <1>1, <1>2

(* An earlier cat has fewer before it. *)
LEMMA PlacesFollowTheOrder ==
    ASSUME NEW cats, NEW sort, NEW ids, IsView(ids), NEW a \in ids, NEW b \in ids
    PROVE  /\ Place(cats, ids, sort, a) \in 1..Cardinality(ids)
           /\ Before(cats, sort, a, b) => Place(cats, ids, sort, a) < Place(cats, ids, sort, b)
<1> DEFINE Lower(x) == {other \in ids : Before(cats, sort, other, x)}
<1>1. a \in Nat /\ b \in Nat /\ ids \subseteq Nat /\ IsFiniteSet(ids) /\ Cardinality(ids) \in Nat
  BY FS_CardinalityType DEF IsView
<1>2. ASSUME NEW x \in ids PROVE IsFiniteSet(Lower(x)) /\ Cardinality(Lower(x)) \in Nat
  <2>1. Lower(x) \in SUBSET ids
    OBVIOUS
  <2> QED
    BY <1>1, <2>1, FS_Subset, FS_CardinalityType
<1>3. Cardinality(Lower(a)) < Cardinality(ids)
  <2>1. Lower(a) \in SUBSET ids /\ a \notin Lower(a)
    BY <1>1, BeforeIsAnOrder
  <2>2. Cardinality(Lower(a)) <= Cardinality(ids) /\ Cardinality(ids) # Cardinality(Lower(a))
    BY <1>1, <2>1, FS_Subset
  <2> QED
    BY <1>1, <1>2, <2>2
<1>4. ASSUME Before(cats, sort, a, b) PROVE Cardinality(Lower(a)) < Cardinality(Lower(b))
  <2>1. Lower(a) \in SUBSET Lower(b)
    <3> SUFFICES ASSUME NEW x \in Lower(a) PROVE x \in Lower(b)
      OBVIOUS
    <3>1. x \in ids /\ x \in Nat /\ Before(cats, sort, x, a)
      BY <1>1
    <3> QED
      BY <1>1, <1>4, <3>1, BeforeIsAnOrder
  <2>2. a \in Lower(b) /\ a \notin Lower(a)
    BY <1>1, <1>4, BeforeIsAnOrder
  <2>3. Cardinality(Lower(a)) <= Cardinality(Lower(b)) /\ Cardinality(Lower(b)) # Cardinality(Lower(a))
    BY <1>2, <2>1, <2>2, FS_Subset
  <2> QED
    BY <1>2, <2>3
<1>5. /\ Place(cats, ids, sort, a) = Cardinality(Lower(a)) + 1
      /\ Place(cats, ids, sort, b) = Cardinality(Lower(b)) + 1
  BY DEF Place
<1> HIDE DEF Lower
<1> QED
  BY <1>1, <1>2, <1>3, <1>4, <1>5

(* Every place is taken by exactly one cat: there are as many places as cats, and no two share one. *)
LEMMA PlacesAreTaken ==
    ASSUME NEW cats, NEW sort, NEW ids, IsView(ids)
    PROVE  /\ \A a, b \in ids : Place(cats, ids, sort, a) = Place(cats, ids, sort, b) => a = b
           /\ \A i \in 1..Cardinality(ids) : \E id \in ids : Place(cats, ids, sort, id) = i
<1> DEFINE n == Cardinality(ids)
           P(x) == Place(cats, ids, sort, x)
           f == [x \in ids |-> P(x)]
<1>1. IsFiniteSet(ids) /\ ids \subseteq Nat /\ n \in Nat
  BY FS_CardinalityType DEF IsView
<1>2. \A a, b \in ids : P(a) = P(b) => a = b
  <2> SUFFICES ASSUME NEW a \in ids, NEW b \in ids, P(a) = P(b), a # b PROVE FALSE
    OBVIOUS
  <2>1. P(a) \in 1..n /\ P(b) \in 1..n
    BY PlacesFollowTheOrder
  <2>2. P(a) < P(b) \/ P(b) < P(a)
    BY <1>1, BeforeIsAnOrder, PlacesFollowTheOrder
  <2> HIDE DEF P, n
  <2> QED
    BY <1>1, <2>1, <2>2
<1>3. f \in Injection(ids, 1..n)
  <2>1. f \in [ids -> 1..n]
    BY PlacesFollowTheOrder
  <2>2. \A a, b \in ids : f[a] = f[b] => a = b
    BY <1>2
  <2> HIDE DEF f, P
  <2> QED
    BY <2>1, <2>2 DEF Injection, IsInjective
<1>4. IsFiniteSet(1..n) /\ Cardinality(1..n) = n
  BY <1>1, FS_Interval
<1>5. f \in Surjection(ids, 1..n)
  BY <1>3, <1>4, FS_Injection
<1>6. \A i \in 1..n : \E id \in ids : f[id] = i
  <2> HIDE DEF f, n
  <2> QED
    BY <1>5 DEF Surjection
<1> QED
  BY <1>2, <1>6 DEF f

(* sortCollection returns the cats it was given, each once, in order. *)
LEMMA SortedIsSorted ==
    ASSUME NEW cats, NEW sort, NEW ids, IsView(ids)
    PROVE  LET s == Sorted(cats, ids, sort)
           IN  /\ s \in Seq(ids) /\ Len(s) = Cardinality(ids) /\ Len(s) \in Nat
               /\ \A id \in ids : \E i \in 1..Len(s) : s[i] = id
               /\ \A i, j \in 1..Len(s) : i < j => Before(cats, sort, s[i], s[j])
<1> DEFINE n == Cardinality(ids)
           s == Sorted(cats, ids, sort)
           P(x) == Place(cats, ids, sort, x)
<1>1. IsFiniteSet(ids) /\ ids \subseteq Nat /\ n \in Nat
  BY FS_CardinalityType DEF IsView
<1>2. s = [i \in 1..n |-> CHOOSE id \in ids : P(id) = i]
  BY DEF Sorted
<1>3. \A i \in 1..n : s[i] \in ids /\ P(s[i]) = i
  BY <1>2, PlacesAreTaken
<1>4. s \in Seq(ids) /\ Len(s) = n /\ DOMAIN s = 1..n
  <2>1. s \in [1..n -> ids]
    BY <1>2, <1>3
  <2> HIDE DEF s, n
  <2> QED
    BY <1>1, <2>1
<1>5. \A id \in ids : P(id) \in 1..n /\ s[P(id)] = id
  BY <1>3, PlacesAreTaken, PlacesFollowTheOrder
<1>6. \A i, j \in 1..n : i < j => Before(cats, sort, s[i], s[j])
  <2> SUFFICES ASSUME NEW i \in 1..n, NEW j \in 1..n, i < j PROVE Before(cats, sort, s[i], s[j])
    OBVIOUS
  <2>1. s[i] \in ids /\ s[j] \in ids /\ P(s[i]) = i /\ P(s[j]) = j
    BY <1>3
  <2>2. ~Before(cats, sort, s[j], s[i])
    <3>1. Before(cats, sort, s[j], s[i]) => P(s[j]) < P(s[i])
      BY <2>1, PlacesFollowTheOrder
    <3> HIDE DEF s, P, n
    <3> QED
      BY <1>1, <2>1, <3>1
  <2>3. s[i] \in Nat /\ s[j] \in Nat /\ P(s[i]) # P(s[j])
    <3> HIDE DEF s, P, n
    <3>1. i \in Int /\ j \in Int /\ i # j
      BY <1>1
    <3> QED
      BY <1>1, <2>1, <3>1
  <2>4. \A a, b \in Nat : a # b => Before(cats, sort, a, b) \/ Before(cats, sort, b, a)
    BY BeforeIsAnOrder
  <2> HIDE DEF s, P
  <2> QED
    BY <2>2, <2>3, <2>4
<1> QED
  BY <1>1, <1>4, <1>5, <1>6

-----------------------------------------------------------------------------
(* Pages *)

LEMMA DivisionBounds ==
    ASSUME NEW n \in Nat, NEW p \in Nat \ {0}
    PROVE  n \div p \in Nat /\ p * (n \div p) <= n /\ n < p * (n \div p) + p
<1>1. n \div p \in Int
  BY SMT
<1>2. n = p * (n \div p) + (n % p)
  BY SMT
<1>3. n % p \in 0..(p - 1)
  BY SMT
<1>4. n \div p \in Nat
  BY SMT
<1> QED
  BY <1>1, <1>2, <1>3, <1>4, SMT

LEMMA ProductsKeepOrder ==
    ASSUME NEW a \in Int, NEW b \in Int, NEW p \in Nat, a <= b
    PROVE  a * p <= b * p /\ a * p \in Int /\ b * p \in Int /\ (b - 1) * p = b * p - p
<1>1. PICK d \in Nat : b = a + d
  <2>1. b - a \in Nat /\ b = a + (b - a)
    OBVIOUS
  <2> QED
    BY <2>1
<1>2. b * p = a * p + d * p
  BY <1>1, SMT
<1>3. d * p \in Nat /\ a * p \in Int
  BY <1>1, SMT
<1>4. (b - 1) * p = b * p - p
  BY SMT
<1> QED
  BY <1>2, <1>3, <1>4

(* A page is a run of the list. *)
LEMMA PageIsARun ==
    ASSUME NEW S, NEW s \in Seq(S), NEW n \in Nat \ {0}
    PROVE  LET last == n * PageSize
           IN  /\ ToSet(PageItems(s, n)) = {s[k] : k \in {j \in 1..Len(s) : last - PageSize < j /\ j <= last}}
               /\ Len(PageItems(s, n)) <= PageSize
<1> DEFINE last == n * PageSize
           top == IF last <= Len(s) THEN last ELSE Len(s)
           first == last - PageSize + 1
           t == PageItems(s, n)
<1>1. PageSize \in Nat \ {0} /\ Len(s) \in Nat
  BY ViewAssumption
<1>2. last \in Int /\ PageSize <= last
  <2>1. 1 * PageSize <= n * PageSize /\ n * PageSize \in Int
    BY <1>1, ProductsKeepOrder
  <2> QED
    BY <1>1, <2>1
<1> HIDE DEF last
<1>3. first \in Nat \ {0} /\ top \in Nat /\ top <= Len(s)
  BY <1>1, <1>2
<1>4. t = SubSeq(s, first, top)
  BY DEF PageItems, last
<1>5. \A k \in first..top : k \in 1..Len(s)
  <2> HIDE DEF first, top
  <2> QED
    BY <1>1, <1>3
<1>6. /\ t \in Seq(S)
      /\ Len(t) = IF first <= top THEN top - first + 1 ELSE 0
      /\ \A i \in 1..Len(t) : t[i] = s[first + i - 1]
  <2> HIDE DEF first, top, t
  <2>1. \A k \in first..top : s[k] \in S
    BY <1>5
  <2>2. first \in Int /\ top \in Int
    BY <1>3
  <2>3. /\ t \in Seq(S) /\ Len(t) = IF first <= top THEN top - first + 1 ELSE 0
        /\ \A i \in 1..(top - first + 1) : t[i] = s[first + i - 1]
    BY <1>4, <2>1, <2>2, SubSeqProperties
  <2> QED
    BY <2>2, <2>3
<1>7. ToSet(t) = {t[i] : i \in 1..Len(t)}
  BY <1>6 DEF ToSet
<1>8. {t[i] : i \in 1..Len(t)} = {s[k] : k \in first..top}
  <2> HIDE DEF t, first, top
  <2>1. ASSUME NEW i \in 1..Len(t) PROVE first + i - 1 \in first..top /\ t[i] = s[first + i - 1]
    BY <1>3, <1>6
  <2>2. ASSUME NEW k \in first..top PROVE k - first + 1 \in 1..Len(t) /\ t[k - first + 1] = s[k]
    <3>1. k - first + 1 \in 1..Len(t) /\ first + (k - first + 1) - 1 = k
      BY <1>3, <1>6
    <3> QED
      BY <1>6, <3>1
  <2>3. \A x : (\E i \in 1..Len(t) : x = t[i]) <=> (\E k \in first..top : x = s[k])
    <3> TAKE x
    <3>1. ASSUME NEW i \in 1..Len(t), x = t[i] PROVE \E k \in first..top : x = s[k]
      BY <2>1, <3>1
    <3>2. ASSUME NEW k \in first..top, x = s[k] PROVE \E i \in 1..Len(t) : x = t[i]
      BY <2>2, <3>2
    <3> QED
      BY <3>1, <3>2
  <2> QED
    BY <2>3
<1>9. first..top = {j \in 1..Len(s) : last - PageSize < j /\ j <= last}
  BY <1>1, <1>2
<1>10. Len(t) <= PageSize
  BY <1>1, <1>2, <1>6
<1> HIDE DEF first, top, t
<1> QED
  BY <1>7, <1>8, <1>9, <1>10 DEF t, last

(* Item k is on page PageOf(k): pages are neither empty nor past the last one. *)
PageOf(k) == ((k - 1) \div PageSize) + 1

LEMMA PagesOfItems ==
    ASSUME NEW N \in Nat
    PROVE  /\ TotalPages(N) \in Nat \ {0}
           /\ \A k \in 1..N : /\ PageOf(k) \in 1..TotalPages(N)
                              /\ PageOf(k) * PageSize - PageSize < k /\ k <= PageOf(k) * PageSize
           /\ N # 0 => TotalPages(N) * PageSize - PageSize < N
<1>1. PageSize \in Nat \ {0}
  BY ViewAssumption
<1>2. CASE N = 0
  BY <1>2 DEF TotalPages
<1>3. CASE N # 0
  <2> DEFINE T == TotalPages(N)
  <2>1. T = (N + PageSize - 1) \div PageSize /\ N + PageSize - 1 \in Nat
    BY <1>1, <1>3 DEF TotalPages
  <2>2. /\ T \in Nat /\ PageSize * T <= N + PageSize - 1
        /\ N + PageSize - 1 < PageSize * T + PageSize
    BY <1>1, <2>1, DivisionBounds
  <2> HIDE DEF T
  <2>3. PageSize * T = T * PageSize /\ T * PageSize \in Nat
    BY <1>1, <2>2
  <2>4. T # 0
    BY <1>1, <1>3, <2>2, <2>3
  <2>5. ASSUME NEW k \in 1..N
        PROVE  /\ PageOf(k) \in 1..T
               /\ PageOf(k) * PageSize - PageSize < k /\ k <= PageOf(k) * PageSize
    <3> DEFINE q == (k - 1) \div PageSize
    <3>1. k - 1 \in Nat
      OBVIOUS
    <3>2. q \in Nat /\ PageSize * q <= k - 1 /\ k - 1 < PageSize * q + PageSize
      BY <1>1, <3>1, DivisionBounds
    <3> HIDE DEF q
    <3>3. PageOf(k) = q + 1
      BY DEF PageOf, q
    <3>4. PageSize * q = q * PageSize /\ q * PageSize \in Nat /\ (q + 1) * PageSize = q * PageSize + PageSize
      BY <1>1, <3>2
    <3>5. q + 1 <= T
      <4> SUFFICES ASSUME T <= q PROVE FALSE
        BY <2>2, <3>2
      <4>1. T * PageSize <= q * PageSize
        BY <1>1, <2>2, <3>2, ProductsKeepOrder
      <4> QED
        BY <1>1, <2>2, <2>3, <3>2, <3>4, <4>1
    <3> QED
      BY <1>1, <2>2, <3>2, <3>3, <3>4, <3>5
  <2>6. T * PageSize - PageSize < N
    BY <1>1, <2>2, <2>3
  <2> QED
    BY <2>2, <2>4, <2>5, <2>6 DEF T
<1> QED
  BY <1>2, <1>3

LEMMA ThePageShownExists ==
    ASSUME NEW p, p.page \in Nat \cup {None}, NEW n \in Nat
    PROVE  PageShown(p, n) \in 1..TotalPages(n)
<1>1. TotalPages(n) \in Nat \ {0}
  BY PagesOfItems
<1> QED
  BY <1>1 DEF PageShown

-----------------------------------------------------------------------------
(* The cats of a view *)

LEMMA ViewsAreFinite ==
    ASSUME NEW docs, Documents(docs), NEW p, NEW excluded
    PROVE  LET cats == Cats(docs.collection)
           IN  IsView(Filtered(cats, p, excluded)) /\ IsView(Results(cats, p))
<1> DEFINE cats == Cats(docs.collection)
<1>1. IsFiniteSet(DOMAIN cats) /\ DOMAIN cats \subseteq Nat
  BY DEF Documents
<1>2. Filtered(cats, p, excluded) \in SUBSET DOMAIN cats /\ Results(cats, p) \in SUBSET DOMAIN cats
  BY DEF Filtered, Results
<1>3. \A ids \in SUBSET DOMAIN cats : IsView(ids)
  <2> HIDE DEF cats
  <2> QED
    BY <1>1, FS_Subset DEF IsView
<1> QED
  BY <1>2, <1>3

(* The cats of a view in their order, as the pages cut them. *)
LEMMA TheOrderShown ==
    ASSUME Documents(site)
    PROVE  /\ IsView(Shown) /\ InOrder \in Seq(Shown) /\ Len(InOrder) \in Nat
           /\ Shown # {} => Len(InOrder) # 0
           /\ \A id \in Shown : \E i \in 1..Len(InOrder) : InOrder[i] = id
           /\ \A i, j \in 1..Len(InOrder) : i < j =>
                 Before(Cats(site.collection), params.sort, InOrder[i], InOrder[j])
<1>1. IsView(Shown)
  BY ViewsAreFinite DEF Shown
<1>2. /\ InOrder \in Seq(Shown) /\ Len(InOrder) = Cardinality(Shown) /\ Len(InOrder) \in Nat
      /\ \A id \in Shown : \E i \in 1..Len(InOrder) : InOrder[i] = id
      /\ \A i, j \in 1..Len(InOrder) : i < j =>
            Before(Cats(site.collection), params.sort, InOrder[i], InOrder[j])
  BY <1>1, SortedIsSorted DEF InOrder
<1>3. Shown # {} => Cardinality(Shown) # 0
  BY <1>1, FS_EmptySet DEF IsView
<1> QED
  BY <1>1, <1>2, <1>3

(* The cats of page n, by their places. *)
LEMMA PageOfTheView ==
    ASSUME Documents(site), NEW n \in Nat \ {0}
    PROVE  ToSet(PageItems(InOrder, n)) =
               {InOrder[k] : k \in {j \in 1..Len(InOrder) : n * PageSize - PageSize < j /\ j <= n * PageSize}}
BY TheOrderShown, PageIsARun

LEMMA ViewsArePaged ==
    ASSUME Documents(site), params.page \in Nat \cup {None}
    PROVE  PagesPartitionTheView
<1> DEFINE Page(n) == ToSet(PageItems(InOrder, n))
           N == Len(InOrder)
<1> USE DEF Pages
<1>1. PageSize \in Nat \ {0} /\ N \in Nat /\ Pages \in Nat \ {0}
  BY ViewAssumption, TheOrderShown, PagesOfItems
<1>2. ASSUME NEW n \in 1..Pages, NEW id
      PROVE  id \in Page(n) <=> \E j \in 1..N : n * PageSize - PageSize < j /\ j <= n * PageSize /\ id = InOrder[j]
  <2>1. n \in Nat \ {0}
    BY <1>1
  <2> QED
    BY <2>1, PageOfTheView
<1>3. \A id \in Shown : \E n \in 1..Pages : id \in Page(n)
  <2> SUFFICES ASSUME NEW id \in Shown PROVE \E n \in 1..Pages : id \in Page(n)
    OBVIOUS
  <2>1. PICK i \in 1..N : InOrder[i] = id
    BY TheOrderShown
  <2>2. /\ PageOf(i) \in 1..Pages
        /\ PageOf(i) * PageSize - PageSize < i /\ i <= PageOf(i) * PageSize
    BY <1>1, PagesOfItems
  <2> HIDE DEF Page, N, Pages
  <2>3. id \in Page(PageOf(i))
    BY <1>2, <2>1, <2>2
  <2> QED
    BY <2>2, <2>3
<1>4. ASSUME NEW n \in 1..Pages
      PROVE  /\ Page(n) \subseteq Shown
             /\ Len(PageItems(InOrder, n)) <= PageSize
             /\ Shown # {} => Page(n) # {}
  <2>1. n \in Nat \ {0}
    BY <1>1
  <2>2. Len(PageItems(InOrder, n)) <= PageSize
    BY <2>1, TheOrderShown, PageIsARun
  <2>3. InOrder \in Seq(Shown)
    BY TheOrderShown
  <2>4. Page(n) \subseteq Shown
    <3> HIDE DEF Page
    <3> QED
      BY <1>2, <2>3
  <2>5. ASSUME Shown # {} PROVE Page(n) # {}
    <3>1. N # 0 /\ Pages * PageSize - PageSize < N
      BY <1>1, <2>5, TheOrderShown, PagesOfItems
    <3>2. n * PageSize <= Pages * PageSize /\ n * PageSize \in Int /\ Pages * PageSize \in Int
      BY <1>1, ProductsKeepOrder
    <3>3. 1 * PageSize <= n * PageSize
      BY <1>1, ProductsKeepOrder
    <3> DEFINE j == n * PageSize - PageSize + 1
    <3>4. j \in 1..N /\ n * PageSize - PageSize < j /\ j <= n * PageSize
      <4> HIDE DEF N, Pages
      <4> QED
        BY <1>1, <3>1, <3>2, <3>3
    <3>5. InOrder[j] \in Page(n)
      <4> HIDE DEF Page, j
      <4> QED
        BY <1>2, <3>4
    <3> QED
      BY <3>5
  <2> QED
    BY <2>2, <2>4, <2>5
<1>5. ASSUME NEW m \in 1..Pages, NEW n \in 1..Pages, m < n, NEW a \in Page(m), NEW b \in Page(n)
      PROVE  a # b /\ Before(Cats(site.collection), params.sort, a, b)
  <2> HIDE DEF Page, N, Pages
  <2>1. PICK i \in 1..N : m * PageSize - PageSize < i /\ i <= m * PageSize /\ a = InOrder[i]
    BY <1>2
  <2>2. PICK j \in 1..N : n * PageSize - PageSize < j /\ j <= n * PageSize /\ b = InOrder[j]
    BY <1>2
  <2>3. m \in Int /\ n - 1 \in Int /\ n \in Int /\ m <= n - 1
    BY <1>1, <1>5
  <2>4. m * PageSize <= (n - 1) * PageSize /\ m * PageSize \in Int /\ (n - 1) * PageSize \in Int
    BY <1>1, <2>3, ProductsKeepOrder
  <2>5. (n - 1) * PageSize = n * PageSize - PageSize
    BY <1>1, <2>3, ProductsKeepOrder
  <2>6. n * PageSize \in Int
    BY <1>1, <2>3, ProductsKeepOrder
  <2>7. i < j
    BY <1>1, <2>1, <2>2, <2>4, <2>5, <2>6
  <2>8. Before(Cats(site.collection), params.sort, a, b)
    BY <2>1, <2>2, <2>7, TheOrderShown DEF N
  <2>9. a \in Nat
    BY <2>1, TheOrderShown DEF IsView, N
  <2> QED
    BY <2>8, <2>9, BeforeIsAnOrder
<1>6. PageOpen \in 1..Pages
  BY <1>1, ThePageShownExists DEF PageOpen
<1> HIDE DEF Pages
<1> QED
  BY <1>3, <1>4, <1>5, <1>6 DEF PagesPartitionTheView

-----------------------------------------------------------------------------
(* Neighbours *)

(* The open cat's neighbours are taken from the view it is shown in: the index has the cats of
   the collection, and without a token search nothing else narrows the list. *)
LEMMA NeighboursAreInTheView ==
    ASSUME Documents(site), ExactToken(params) = None
    PROVE  ViewOrder(params) = InOrder /\ \A token : Neighbours(params, token) \subseteq Shown
<1>1. Cats(site.index) = Cats(site.collection)
  BY DEF Documents
<1>2. Results(Cats(site.collection), params) = Filtered(Cats(site.collection), params, {})
  BY DEF Results
<1>3. ViewOrder(params) = InOrder
  BY <1>1, <1>2 DEF ViewOrder, InOrder, Shown
<1>4. ASSUME NEW token PROVE Neighbours(params, token) \subseteq Shown
  <2> DEFINE i == PositionIn(InOrder, token)
  <2>1. i \in 0..Len(InOrder)
    BY TheOrderShown DEF PositionIn
  <2>2. InOrder \in Seq(Shown) /\ Len(InOrder) \in Nat
    BY TheOrderShown
  <2>3. /\ i > 1 => InOrder[i - 1] \in Shown
        /\ i \in 1..(Len(InOrder) - 1) => InOrder[i + 1] \in Shown
    <3> HIDE DEF i
    <3> QED
      BY <2>1, <2>2
  <2> QED
    BY <1>3, <2>3 DEF Neighbours
<1> QED
  BY <1>3, <1>4

LEMMA WalksAreBounded ==
    ASSUME Documents(site), ExactToken(params) = None, place \in Shown
    PROVE  WalksStayInTheView
<1> DEFINE i == PositionIn(InOrder, place)
           N == Len(InOrder)
<1>1. N \in Nat /\ ViewOrder(params) = InOrder
  BY TheOrderShown, NeighboursAreInTheView
<1>2. \E j \in 1..N : InOrder[j] = place
  BY TheOrderShown
<1>3. i \in 1..N
  BY <1>2 DEF PositionIn
<1>4. Neighbours(params, place) = (IF i > 1 THEN {InOrder[i - 1]} ELSE {}) \cup
                                  (IF i \in 1..(N - 1) THEN {InOrder[i + 1]} ELSE {})
  BY <1>1 DEF Neighbours
<1>5. i # 0 /\ Neighbours(params, place) = {InOrder[j] : j \in {i - 1, i + 1} \cap 1..N}
  <2> HIDE DEF i, N
  <2>1. i # 0
    BY <1>1, <1>3
  <2>2. {i - 1, i + 1} \cap 1..N = (IF i > 1 THEN {i - 1} ELSE {}) \cup (IF i \in 1..(N - 1) THEN {i + 1} ELSE {})
    BY <1>1, <1>3
  <2> QED
    BY <1>4, <2>1, <2>2
<1> QED
  BY <1>5 DEF WalksStayInTheView

-----------------------------------------------------------------------------
(* Chips *)

(* Setting one facet to a value leaves the cats that pass the other filters and have it. *)
LEMMA FacetsCount ==
    ASSUME NEW cats, NEW p, NEW q, NEW key \in FILTER_KEYS, NEW value, value \notin NoValues,
           Active(q) = [Active(p) EXCEPT ![key] = value]
    PROVE  {id \in Filtered(cats, p, {key}) : cats[id][key] = value} = Filtered(cats, q, {})
<1>1. \A traits : Passes(traits, key, value) <=> traits[key] = value
  BY DEF Passes, NoValues
<1>2. /\ \A k \in FILTER_KEYS \ {key} : Active(q)[k] = Active(p)[k]
      /\ Active(q)[key] = value
  BY DEF Active
<1>3. ASSUME NEW id \in DOMAIN cats
      PROVE  (\A k \in FILTER_KEYS : Passes(cats[id], k, Active(q)[k])) <=>
             (cats[id][key] = value /\ \A k \in FILTER_KEYS \ {key} : Passes(cats[id], k, Active(p)[k]))
  <2>1. (\A k \in FILTER_KEYS : Passes(cats[id], k, Active(q)[k])) <=>
        (Passes(cats[id], key, Active(q)[key]) /\ \A k \in FILTER_KEYS \ {key} : Passes(cats[id], k, Active(q)[k]))
    OBVIOUS
  <2> QED
    BY <1>1, <1>2, <2>1
<1> QED
  BY <1>3 DEF Filtered

(* The parameters behind a chip, as the filters they set. *)
LEMMA PlainTarget ==
    ASSUME NEW p, NEW value, NEW key \in {"pattern", "rarity_tier", "rarity_type"}, NEW q,
           q = Href(p, [k \in {key, "page"} |-> IF k = key THEN value ELSE None])
    PROVE  Active(q) = [Active(p) EXCEPT ![key] = value] /\ q.token_id = p.token_id /\ q.page = None
<1>1. q.collar = p.collar /\ q.collar_type = p.collar_type /\ q.token_id = p.token_id /\ q.page = None
  BY DEF Href, ParamNames, FILTER_KEYS
<1>2. \A k \in FILTER_KEYS : q[k] = IF k = key THEN value ELSE p[k]
  BY DEF Href, ParamNames, FILTER_KEYS
<1>3. Collar(q) = Collar(p)
  BY <1>1 DEF Collar
<1>4. Active(q) = [Active(p) EXCEPT ![key] = value]
  BY <1>2, <1>3 DEF Active, FILTER_KEYS
<1> QED
  BY <1>1, <1>4

LEMMA FamilyTarget ==
    ASSUME NEW p, NEW category, NEW palette, NEW q,
           q = Href(p, [category |-> category, palette_id |-> palette, page |-> None])
    PROVE  /\ Active(q) = [Active(p) EXCEPT !["category"] = category, !["palette_id"] = palette]
           /\ q.token_id = p.token_id /\ q.page = None
<1>1. q.collar = p.collar /\ q.collar_type = p.collar_type /\ q.token_id = p.token_id /\ q.page = None
  BY DEF Href, ParamNames, FILTER_KEYS
<1>2. \A k \in FILTER_KEYS :
         q[k] = IF k = "category" THEN category ELSE IF k = "palette_id" THEN palette ELSE p[k]
  BY DEF Href, ParamNames, FILTER_KEYS
<1>3. Collar(q) = Collar(p)
  BY <1>1 DEF Collar
<1>4. Active(q) = [Active(p) EXCEPT !["category"] = category, !["palette_id"] = palette]
  BY <1>2, <1>3 DEF Active, FILTER_KEYS
<1> QED
  BY <1>1, <1>4

LEMMA CollarTarget ==
    ASSUME NEW p, NEW value, NEW q, q = Href(p, [collar |-> value, page |-> None])
    PROVE  /\ q.token_id = p.token_id /\ q.page = None
           /\ value \in {"none", "any_collar", "checkered_collar", "classic_red_collar"} =>
                 Active(q) = [Active(p) EXCEPT !["collar"] = value]
<1>1. q.token_id = p.token_id /\ q.page = None /\ q.collar = value
  BY DEF Href, ParamNames, FILTER_KEYS
<1>2. \A k \in FILTER_KEYS : q[k] = IF k = "collar" THEN value ELSE p[k]
  BY DEF Href, ParamNames, FILTER_KEYS
<1>3. value \in {"none", "any_collar", "checkered_collar", "classic_red_collar"} => Collar(q) = value
  BY <1>1, ViewAssumption DEF Collar
<1>4. value \in {"none", "any_collar", "checkered_collar", "classic_red_collar"} =>
          Active(q) = [Active(p) EXCEPT !["collar"] = value]
  BY <1>2, <1>3 DEF Active, FILTER_KEYS
<1> QED
  BY <1>1, <1>4

(* Without a token search, what a link opens is what passes its filters. *)
LEMMA TargetsOpenTheirFilters ==
    ASSUME NEW cats, NEW q, ExactToken(params) = None, q.token_id = params.token_id
    PROVE  Results(cats, q) = Filtered(cats, q, {})
BY DEF Results, ExactToken

LEMMA PlainChipsCount ==
    ASSUME NEW chip \in PlainChips(params), ~chip.active, ExactToken(params) = None, Documents(site)
    PROVE  chip.count = Cardinality(Results(Cats(site.collection), chip.target))
<1>1. PICK key \in {"pattern", "rarity_tier", "rarity_type"} : \E v \in DOMAIN site.filters[key] :
          chip = Chip(key, v, Active(params)[key] = v, FacetCount(params, key, v),
                   Href(params, [k \in {key, "page"} |-> IF k = key THEN Toggle(params, key, v) ELSE None]))
  BY DEF PlainChips
<1>2. PICK v \in DOMAIN site.filters[key] :
          chip = Chip(key, v, Active(params)[key] = v, FacetCount(params, key, v),
                   Href(params, [k \in {key, "page"} |-> IF k = key THEN Toggle(params, key, v) ELSE None]))
  BY <1>1
<1> DEFINE q == Href(params, [k \in {key, "page"} |-> IF k = key THEN v ELSE None])
<1>3. Toggle(params, key, v) = v /\ chip.count = FacetCount(params, key, v)
  BY <1>2 DEF Chip, Toggle
<1>4. chip.target = q
  BY <1>2, <1>3 DEF Chip
<1>5. v \notin NoValues
  BY DEF Documents
<1>6. Active(q) = [Active(params) EXCEPT ![key] = v] /\ q.token_id = params.token_id
  BY PlainTarget
<1> HIDE DEF q
<1>7. key \in FILTER_KEYS
  BY DEF FILTER_KEYS
<1> QED
  <2>1. {id \in Filtered(Cats(site.collection), params, {key}) : Cats(site.collection)[id][key] = v}
            = Filtered(Cats(site.collection), q, {})
    BY <1>5, <1>6, <1>7, FacetsCount
  <2>2. Results(Cats(site.collection), q) = Filtered(Cats(site.collection), q, {})
    BY <1>6, TargetsOpenTheirFilters
  <2> QED
    BY <1>3, <1>4, <2>1, <2>2 DEF FacetCount

LEMMA CategoryChipsCount ==
    ASSUME NEW chip \in CategoryChips(params), ~chip.active, ExactToken(params) = None, Documents(site),
           params.palette_id = None
    PROVE  chip.count = Cardinality(Results(Cats(site.collection), chip.target))
<1>1. PICK g \in DOMAIN Groups :
          chip = Chip("category", g,
            params.category = g \/ (params.category = None /\ params.palette_id \in Groups[g]),
            IF g \in DOMAIN site.filters.category THEN FacetCount(params, "category", g) ELSE 0,
            Href(params, [category |-> IF params.category = g /\ params.palette_id = None THEN None ELSE g,
                          palette_id |-> None, page |-> None]))
  BY DEF CategoryChips
<1> DEFINE q == Href(params, [category |-> g, palette_id |-> None, page |-> None])
           cats == Cats(site.collection)
<1>2. params.category # g
  BY <1>1 DEF Chip
<1>3. chip.target = q
  BY <1>1, <1>2 DEF Chip
<1>4. g \notin NoValues /\ "category" \in FILTER_KEYS
  BY ViewAssumption DEF FILTER_KEYS
<1>5. Active(q) = [Active(params) EXCEPT !["category"] = g] /\ q.token_id = params.token_id
  <2>1. Active(q) = [Active(params) EXCEPT !["category"] = g, !["palette_id"] = None]
        /\ q.token_id = params.token_id
    BY FamilyTarget
  <2>2. Active(params)["palette_id"] = None /\ DOMAIN Active(params) = FILTER_KEYS
    BY DEF Active, FILTER_KEYS
  <2> HIDE DEF q
  <2> QED
    BY <2>1, <2>2 DEF FILTER_KEYS, Active
<1>6. chip.count = Cardinality({id \in Filtered(cats, params, {"category"}) : cats[id].category = g})
  <2>1. CASE g \in DOMAIN site.filters.category
    BY <1>1, <2>1 DEF Chip, FacetCount
  <2>2. CASE g \notin DOMAIN site.filters.category
    <3>1. chip.count = 0
      BY <1>1, <2>2 DEF Chip
    <3>2. \A id \in DOMAIN cats : cats[id].category # g
      BY <2>2 DEF Documents
    <3>3. {id \in Filtered(cats, params, {"category"}) : cats[id].category = g} = {}
      BY <3>2 DEF Filtered
    <3> QED
      BY <3>1, <3>3, FS_EmptySet
  <2> QED
    BY <2>1, <2>2
<1>7. {id \in Filtered(cats, params, {"category"}) : cats[id].category = g} = Filtered(cats, q, {})
  <2> HIDE DEF q, cats
  <2> QED
    BY <1>4, <1>5, FacetsCount
<1> HIDE DEF q
<1> QED
  BY <1>3, <1>5, <1>6, <1>7, TargetsOpenTheirFilters

LEMMA PaletteChipsCount ==
    ASSUME NEW chip \in PaletteChips(params), ~chip.active, ExactToken(params) = None, Documents(site),
           params.category = None \/ (params.category \in DOMAIN Groups /\ chip.value \in Groups[params.category])
    PROVE  chip.count = Cardinality(Results(Cats(site.collection), chip.target))
<1>1. PICK v \in UNION {Groups[g] : g \in DOMAIN Groups} :
          chip = Chip("palette_id", v, params.palette_id = v,
            IF v \in DOMAIN site.filters.palette_id THEN FacetCount(params, "palette_id", v) ELSE 0,
            Href(params, [category |-> None, palette_id |-> Toggle(params, "palette_id", v), page |-> None]))
  BY DEF PaletteChips
<1> DEFINE q == Href(params, [category |-> None, palette_id |-> v, page |-> None])
           cats == Cats(site.collection)
           c == params.category
<1>2. params.palette_id # v /\ chip.value = v
  BY <1>1 DEF Chip
<1>3. chip.target = q
  <2>1. Toggle(params, "palette_id", v) = v
    BY <1>2 DEF Toggle, Active, FILTER_KEYS
  <2> QED
    BY <1>1, <2>1 DEF Chip
<1>4. PICK g \in DOMAIN Groups : v \in Groups[g]
  OBVIOUS
<1>5. v \notin NoValues /\ "palette_id" \in FILTER_KEYS
  BY <1>4, ViewAssumption DEF FILTER_KEYS
<1>6. Active(q) = [Active(params) EXCEPT !["category"] = None, !["palette_id"] = v] /\ q.token_id = params.token_id
  BY FamilyTarget
<1> HIDE DEF q
<1>7. chip.count = Cardinality({id \in Filtered(cats, params, {"palette_id"}) : cats[id].palette_id = v})
  <2>1. CASE v \in DOMAIN site.filters.palette_id
    BY <1>1, <2>1 DEF Chip, FacetCount
  <2>2. CASE v \notin DOMAIN site.filters.palette_id
    <3>1. chip.count = 0
      BY <1>1, <2>2 DEF Chip
    <3>2. \A id \in DOMAIN cats : cats[id].palette_id # v
      BY <1>4, <2>2 DEF Documents
    <3>3. {id \in Filtered(cats, params, {"palette_id"}) : cats[id].palette_id = v} = {}
      BY <3>2 DEF Filtered
    <3> QED
      BY <3>1, <3>3, FS_EmptySet
  <2> QED
    BY <2>1, <2>2
<1>8. {id \in Filtered(cats, params, {"palette_id"}) : cats[id].palette_id = v} = Filtered(cats, q, {})
  <2>1. ASSUME NEW id \in DOMAIN cats, cats[id].palette_id = v
        PROVE  Passes(cats[id], "category", Active(params)["category"])
    <3>1. Active(params)["category"] = c
      BY DEF Active, FILTER_KEYS
    <3>2. CASE c = None
      BY <3>1, <3>2 DEF Passes
    <3>3. CASE c # None
      <4>1. c \in DOMAIN Groups /\ v \in Groups[c]
        BY <1>2, <3>3
      <4>2. cats[id].category = c
        BY <2>1, <4>1 DEF Documents
      <4>3. c # "any_collar"
        BY <4>1, ViewAssumption DEF NoValues
      <4> QED
        BY <3>1, <4>2, <4>3 DEF Passes
    <3> QED
      BY <3>2, <3>3
  <2> DEFINE A == Active(params)
  <2>2. /\ \A k \in FILTER_KEYS \ {"category", "palette_id"} : Active(q)[k] = A[k]
        /\ Active(q)["category"] = None /\ Active(q)["palette_id"] = v
    BY <1>6 DEF Active, FILTER_KEYS
  <2>3. \A traits : Passes(traits, "palette_id", v) <=> traits.palette_id = v
    BY <1>5 DEF Passes, NoValues
  <2>4. \A traits : Passes(traits, "category", None)
    BY DEF Passes
  <2> HIDE DEF A, cats
  <2>5. ASSUME NEW id \in DOMAIN cats
        PROVE  (\A k \in FILTER_KEYS : Passes(cats[id], k, Active(q)[k])) <=>
               (cats[id].palette_id = v /\ \A k \in FILTER_KEYS \ {"palette_id"} : Passes(cats[id], k, A[k]))
    <3>1. (\A k \in FILTER_KEYS : Passes(cats[id], k, Active(q)[k])) <=>
          (cats[id].palette_id = v /\ \A k \in FILTER_KEYS \ {"category", "palette_id"} : Passes(cats[id], k, A[k]))
      BY <2>2, <2>3, <2>4 DEF FILTER_KEYS
    <3>2. cats[id].palette_id = v => Passes(cats[id], "category", A["category"])
      BY <2>1 DEF A
    <3> QED
      BY <3>1, <3>2
  <2> QED
    BY <2>5 DEF Filtered, A
<1> QED
  BY <1>3, <1>6, <1>7, <1>8, TargetsOpenTheirFilters

LEMMA CollarChipsCount ==
    ASSUME NEW chip \in CollarChips(params), ~chip.active, ExactToken(params) = None, Documents(site)
    PROVE  chip.count = Cardinality(Results(Cats(site.collection), chip.target))
<1> DEFINE Options == {"none", "any_collar", "checkered_collar", "classic_red_collar"}
           cats == Cats(site.collection)
           With(o) == {id \in Filtered(cats, params, {"collar"}) : cats[id].collar = o}
<1>1. PICK o \in Options :
          chip = Chip("collar", o, Active(params).collar = o,
            IF o = "any_collar" THEN FacetCount(params, "collar", "checkered_collar")
                                     + FacetCount(params, "collar", "classic_red_collar")
                                ELSE FacetCount(params, "collar", o),
            Href(params, [collar |-> Toggle(params, "collar", o), page |-> None]))
  BY DEF CollarChips
<1> DEFINE q == Href(params, [collar |-> o, page |-> None])
<1>2. chip.target = q
  <2>1. Toggle(params, "collar", o) = o
    BY <1>1 DEF Chip, Toggle
  <2> QED
    BY <1>1, <2>1 DEF Chip
<1>3. Active(q) = [Active(params) EXCEPT !["collar"] = o] /\ q.token_id = params.token_id
  BY CollarTarget
<1> HIDE DEF q
<1>4. CASE o # "any_collar"
  <2>1. chip.count = FacetCount(params, "collar", o)
    BY <1>1, <1>4 DEF Chip
  <2>2. o \notin NoValues /\ "collar" \in FILTER_KEYS
    BY <1>4, ViewAssumption DEF NoValues, FILTER_KEYS
  <2> QED
    <3>1. With(o) = Filtered(cats, q, {})
      <4>1. {id \in Filtered(cats, params, {"collar"}) : cats[id]["collar"] = o} = Filtered(cats, q, {})
        BY <1>3, <2>2, FacetsCount
      <4> QED
        BY <4>1
    <3>2. Results(cats, q) = Filtered(cats, q, {})
      BY <1>3, TargetsOpenTheirFilters
    <3> QED
      BY <1>2, <2>1, <3>1, <3>2 DEF FacetCount
<1>5. CASE o = "any_collar"
  <2>1. chip.count = Cardinality(With("checkered_collar")) + Cardinality(With("classic_red_collar"))
    BY <1>1, <1>5 DEF Chip, FacetCount
  <2>2. With("checkered_collar") \cup With("classic_red_collar") = Filtered(cats, q, {})
    <3> DEFINE A == Active(params)
    <3>1. (\A k \in FILTER_KEYS \ {"collar"} : Active(q)[k] = A[k]) /\ Active(q)["collar"] = "any_collar"
      BY <1>3, <1>5 DEF Active, FILTER_KEYS
    <3>2. ASSUME NEW id \in DOMAIN cats
          PROVE  Passes(cats[id], "collar", "any_collar") <=> cats[id].collar \in {"checkered_collar", "classic_red_collar"}
      <4>1. cats[id].collar \in {"none", "checkered_collar", "classic_red_collar"}
        BY DEF Documents
      <4> QED
        BY <4>1, ViewAssumption DEF Passes
    <3> HIDE DEF A, cats
    <3>3. ASSUME NEW id \in DOMAIN cats
          PROVE  (\A k \in FILTER_KEYS : Passes(cats[id], k, Active(q)[k])) <=>
                 (cats[id].collar \in {"checkered_collar", "classic_red_collar"}
                  /\ \A k \in FILTER_KEYS \ {"collar"} : Passes(cats[id], k, A[k]))
      BY <3>1, <3>2 DEF FILTER_KEYS
    <3> QED
      BY <3>3 DEF Filtered, A
  <2>3. With("checkered_collar") \cap With("classic_red_collar") = {}
    OBVIOUS
  <2>4. IsFiniteSet(With("checkered_collar")) /\ IsFiniteSet(With("classic_red_collar"))
    <3>1. IsFiniteSet(Filtered(cats, params, {"collar"}))
      BY ViewsAreFinite DEF IsView
    <3> QED
      BY <3>1, FS_Subset
  <2>5. Cardinality(With("checkered_collar") \cup With("classic_red_collar")) =
            Cardinality(With("checkered_collar")) + Cardinality(With("classic_red_collar"))
    <3>1. Cardinality(With("checkered_collar") \cap With("classic_red_collar")) = 0
      BY <2>3, FS_EmptySet
    <3>2. Cardinality(With("checkered_collar")) \in Nat /\ Cardinality(With("classic_red_collar")) \in Nat
      BY <2>4, FS_CardinalityType
    <3>3. Cardinality(With("checkered_collar") \cup With("classic_red_collar")) =
            Cardinality(With("checkered_collar")) + Cardinality(With("classic_red_collar"))
              - Cardinality(With("checkered_collar") \cap With("classic_red_collar"))
      BY <2>4, FS_Union
    <3> HIDE DEF With
    <3> QED
      BY <3>1, <3>2, <3>3
  <2> QED
    BY <1>2, <1>3, <2>1, <2>2, <2>5, TargetsOpenTheirFilters
<1> QED
  BY <1>4, <1>5

LEMMA ChipsKeepTheirWord ==
    ASSUME Documents(site)
    PROVE  ChipsCountWhatTheyOpen
<1> SUFFICES ASSUME NEW chip \in Chips(params), ~chip.active, ExactToken(params) = None,
                    chip.key = "palette_id" =>
                       params.category = None
                       \/ (params.category \in DOMAIN Groups /\ chip.value \in Groups[params.category]),
                    chip.key = "category" => params.palette_id = None
             PROVE  chip.count = Cardinality(Results(Cats(site.collection), chip.target))
  BY DEF ChipsCountWhatTheyOpen
<1>1. CASE chip \in PlainChips(params)
  BY <1>1, PlainChipsCount
<1>2. CASE chip \in CategoryChips(params)
  <2>1. PICK g, isActive, count, target : chip = Chip("category", g, isActive, count, target)
    BY <1>2 DEF CategoryChips
  <2>2. chip.key = "category"
    BY <2>1 DEF Chip
  <2> QED
    BY <1>2, <2>2, CategoryChipsCount
<1>3. CASE chip \in PaletteChips(params)
  <2>1. PICK v \in UNION {Groups[g] : g \in DOMAIN Groups} :
            chip = Chip("palette_id", v, params.palette_id = v,
              IF v \in DOMAIN site.filters.palette_id THEN FacetCount(params, "palette_id", v) ELSE 0,
              Href(params, [category |-> None, palette_id |-> Toggle(params, "palette_id", v), page |-> None]))
    BY <1>3 DEF PaletteChips
  <2>2. chip.key = "palette_id"
    BY <2>1 DEF Chip
  <2> QED
    BY <1>3, <2>2, PaletteChipsCount
<1>4. CASE chip \in CollarChips(params)
  BY <1>4, CollarChipsCount
<1> QED
  BY <1>1, <1>2, <1>3, <1>4 DEF Chips

-----------------------------------------------------------------------------
(* A visit *)

(* The inductive invariant: the site stays as built, the page in the address is a number, and
   the open cat is one of its view. *)
ViewInv(docs) ==
    /\ site = docs
    /\ params.page \in Nat \cup {None}
    /\ place # List /\ ExactToken(params) = None => place \in Shown

LEMMA LinksAskForPages ==
    ASSUME Documents(site), params.page \in Nat \cup {None}, place = List,
           ClickChip \/ ClickSort \/ SearchToken \/ ClearTokenSearch \/ ClearAll \/ ClickPage
    PROVE  site' = site /\ place' = List /\ params'.page \in Nat \cup {None}
<1>1. CASE ClickChip
  <2>1. PICK chip \in Chips(params) : Go(chip.target)
    BY <1>1 DEF ClickChip
  <2>2. chip.target.page = None
    <3>1. CASE chip \in PlainChips(params)
      <4>1. PICK key \in {"pattern", "rarity_tier", "rarity_type"} : \E v \in DOMAIN site.filters[key] :
               chip = Chip(key, v, Active(params)[key] = v, FacetCount(params, key, v),
                   Href(params, [k \in {key, "page"} |-> IF k = key THEN Toggle(params, key, v) ELSE None]))
        BY <3>1 DEF PlainChips
      <4>2. PICK v \in DOMAIN site.filters[key] : chip.target =
                Href(params, [k \in {key, "page"} |-> IF k = key THEN Toggle(params, key, v) ELSE None])
        BY <4>1 DEF Chip
      <4> QED
        BY <4>2 DEF Href, ParamNames, FILTER_KEYS
    <3>2. CASE chip \in CategoryChips(params)
      <4>1. PICK g \in DOMAIN Groups :
                chip = Chip("category", g,
                  params.category = g \/ (params.category = None /\ params.palette_id \in Groups[g]),
                  IF g \in DOMAIN site.filters.category THEN FacetCount(params, "category", g) ELSE 0,
                  Href(params, [category |-> IF params.category = g /\ params.palette_id = None THEN None ELSE g,
                                palette_id |-> None, page |-> None]))
        BY <3>2 DEF CategoryChips
      <4> QED
        BY <4>1, FamilyTarget DEF Chip
    <3>3. CASE chip \in PaletteChips(params)
      <4>1. PICK v \in UNION {Groups[g] : g \in DOMAIN Groups} :
                chip = Chip("palette_id", v, params.palette_id = v,
                  IF v \in DOMAIN site.filters.palette_id THEN FacetCount(params, "palette_id", v) ELSE 0,
                  Href(params, [category |-> None, palette_id |-> Toggle(params, "palette_id", v), page |-> None]))
        BY <3>3 DEF PaletteChips
      <4> QED
        BY <4>1, FamilyTarget DEF Chip
    <3>4. CASE chip \in CollarChips(params)
      <4>1. PICK o \in {"none", "any_collar", "checkered_collar", "classic_red_collar"} :
                chip.target = Href(params, [collar |-> Toggle(params, "collar", o), page |-> None])
        BY <3>4 DEF CollarChips, Chip
      <4> QED
        BY <4>1, CollarTarget
    <3> QED
      BY <3>1, <3>2, <3>3, <3>4 DEF Chips
  <2> QED
    BY <2>1, <2>2 DEF Go
<1>2. CASE ClickSort
  BY <1>2 DEF ClickSort, Go, Href, ParamNames
<1>3. CASE SearchToken
  BY <1>3 DEF SearchToken, Go, Href, ParamNames
<1>4. CASE ClearTokenSearch
  BY <1>4 DEF ClearTokenSearch, Go, Href, ParamNames
<1>5. CASE ClearAll
  BY <1>5 DEF ClearAll, Go, NoParams, ParamNames
<1>6. CASE ClickPage
  <2>1. PICK density \in {"desktop", "mobile"} : \E n \in Anchors(PageOpen, Pages, density) :
            Go(Href(params, [page |-> n]))
    BY <1>6 DEF ClickPage
  <2>2. PICK n \in Anchors(PageOpen, Pages, density) : Go(Href(params, [page |-> n]))
    BY <2>1
  <2>3. n \in 1..Pages /\ Pages \in Nat
    BY TheOrderShown, PagesOfItems DEF Anchors, Pages
  <2> QED
    BY <2>2, <2>3 DEF Go, Href, ParamNames
<1> QED
  BY <1>1, <1>2, <1>3, <1>4, <1>5, <1>6

LEMMA ViewsStayViews ==
    ASSUME NEW docs, Documents(docs), ViewInv(docs), [ViewNext]_viewVars
    PROVE  ViewInv(docs)'
<1>1. site = docs /\ Documents(site) /\ params.page \in Nat \cup {None}
  BY DEF ViewInv
<1>2. CASE ClickChip \/ ClickSort \/ SearchToken \/ ClearTokenSearch \/ ClearAll \/ ClickPage
  <2>1. place = List
    BY <1>2 DEF ClickChip, ClickSort, SearchToken, ClearTokenSearch, ClearAll, ClickPage, Go
  <2> QED
    BY <1>1, <1>2, <2>1, LinksAskForPages DEF ViewInv
<1>3. CASE OpenCat
  <2>1. place' \in ToSet(PageItems(InOrder, PageOpen)) /\ UNCHANGED <<site, params>>
    BY <1>3 DEF OpenCat
  <2>2. Len(InOrder) \in Nat /\ PageOpen \in 1..Pages /\ Pages \in Nat
    BY <1>1, TheOrderShown, PagesOfItems, ThePageShownExists DEF PageOpen, Pages
  <2>3. ToSet(PageItems(InOrder, PageOpen)) \subseteq Shown
    <3>1. PageOpen \in Nat \ {0} /\ InOrder \in Seq(Shown)
      BY <1>1, <2>2, TheOrderShown
    <3> QED
      BY <1>1, <3>1, PageOfTheView
  <2>4. Shown' = Shown
    BY <2>1 DEF Shown
  <2> QED
    BY <1>1, <2>1, <2>3, <2>4 DEF ViewInv
<1>4. CASE OpenNeighbour
  <2>1. place' \in Neighbours(params, place) /\ UNCHANGED <<site, params>>
    BY <1>4 DEF OpenNeighbour
  <2>2. Shown' = Shown
    BY <2>1 DEF Shown
  <2>3. ExactToken(params) = None => place' \in Shown
    BY <1>1, <2>1, NeighboursAreInTheView
  <2> QED
    BY <1>1, <2>1, <2>2, <2>3 DEF ViewInv
<1>5. CASE BackToView
  BY <1>1, <1>5 DEF BackToView, ViewInv
<1>6. CASE UNCHANGED viewVars
  <2>1. Shown' = Shown
    BY <1>6 DEF Shown, viewVars
  <2> QED
    BY <1>6, <2>1 DEF ViewInv, viewVars
<1> QED
  BY <1>2, <1>3, <1>4, <1>5, <1>6 DEF ViewNext

(* A visit of a site whose documents agree keeps the view's promises: chips count what they open
   (chipHref and countFor in collection-browser.jsx), pages partition the view (paginate), and
   walks from neighbour to neighbour stay in it (cat-detail-browser.jsx). *)
THEOREM ViewsAreKept ==
    ASSUME NEW docs, Documents(docs)
    PROVE  ViewSpec(docs) => []ViewInv(docs)
<1>1. ViewInit(docs) => ViewInv(docs)
  BY ViewAssumption DEF ViewInit, ViewInv
<1>2. ViewInv(docs) /\ [ViewNext]_viewVars => ViewInv(docs)'
  BY ViewsStayViews
<1> QED
  BY <1>1, <1>2, PTL DEF ViewSpec

(* The number on a chip is the number of cats behind it, for every collection and filter. *)
THEOREM ChipsAreHonest ==
    ASSUME NEW docs, Documents(docs)
    PROVE  ViewSpec(docs) => []ChipsCountWhatTheyOpen
<1>1. ViewInv(docs) => ChipsCountWhatTheyOpen
  BY ChipsKeepTheirWord DEF ViewInv
<1> QED
  BY <1>1, ViewsAreKept, PTL

(* Every cat of a view is on exactly one of its pages, in order, and the page asked for is
   brought back to one that exists, for every page size. *)
THEOREM PagingLosesNothing ==
    ASSUME NEW docs, Documents(docs)
    PROVE  ViewSpec(docs) => []PagesPartitionTheView
<1>1. ViewInv(docs) => PagesPartitionTheView
  BY ViewsArePaged DEF ViewInv
<1> QED
  BY <1>1, ViewsAreKept, PTL

(* The previous and next cat of an open cat are the ones before and after it in its view. *)
THEOREM WalksAreKept ==
    ASSUME NEW docs, Documents(docs)
    PROVE  ViewSpec(docs) => []WalksStayInTheView
<1>1. ViewInv(docs) => WalksStayInTheView
  BY WalksAreBounded DEF ViewInv, WalksStayInTheView
<1> QED
  BY <1>1, ViewsAreKept, PTL

-----------------------------------------------------------------------------
(* The links to pages *)

(* Every element of a flattened sequence is in the piece that starts before it. *)
LEMMA PlacesAreInPieces ==
    ASSUME NEW S, NEW seqs \in Seq(Seq(S)), NEW k \in 1..Len(FlattenSeq(seqs))
    PROVE  \E i \in 1..Len(seqs) : /\ Len(Start(seqs, i - 1)) < k
                                   /\ k <= Len(Start(seqs, i))
<1> DEFINE T == {i \in 0..Len(seqs) : k <= Len(Start(seqs, i))}
<1>1. /\ Start(seqs, 0) = << >> /\ Start(seqs, Len(seqs)) = FlattenSeq(seqs) /\ Len(seqs) \in Nat
      /\ \A n \in 0..Len(seqs) : Start(seqs, n) \in Seq(S)
  BY StartSteps
<1>2. \A n \in 0..Len(seqs) : Len(Start(seqs, n)) \in Nat
  BY <1>1, LenProperties
<1>3. Len(FlattenSeq(seqs)) \in Nat /\ k \in Nat \ {0}
  BY <1>1, <1>2
<1>4. Len(seqs) \in T /\ T \subseteq Nat
  BY <1>1, <1>3
<1>5. PICK i \in T : \A m \in T : i <= m
  <2> HIDE DEF T
  <2> QED
    BY <1>4, NatMin
<1>6. i # 0
  <2>1. Len(Start(seqs, 0)) = 0
    BY <1>1
  <2> QED
    BY <1>3, <2>1
<1>7. i \in 1..Len(seqs) /\ i - 1 \in 0..Len(seqs) /\ i - 1 \notin T
  BY <1>1, <1>5, <1>6
<1>8. Len(Start(seqs, i - 1)) < k
  BY <1>2, <1>3, <1>7
<1> QED
  BY <1>7, <1>8

(* Pages in ascending order are cats in the order of their numbers. *)
LEMMA AscendingIs ==
    ASSUME NEW A, IsView(A)
    PROVE  LET q == Ascending(A)
           IN  /\ q \in Seq(A) /\ Len(q) = Cardinality(A) /\ Len(q) \in Nat
               /\ \A a \in A : \E i \in 1..Len(q) : q[i] = a
               /\ \A i, j \in 1..Len(q) : i < j => q[i] < q[j]
<1>1. \A a, b : Before(<< >>, "token", a, b) <=> a < b
  BY DEF Before
<1>2. \A a \in A : Place(<< >>, A, "token", a) = Cardinality({m \in A : m < a}) + 1
  BY <1>1 DEF Place
<1>3. \A a \in A : Cardinality({m \in A : m < a}) \in Nat
  <2> TAKE a \in A
  <2>1. {m \in A : m < a} \subseteq A
    OBVIOUS
  <2> QED
    BY <2>1, FS_Subset, FS_CardinalityType DEF IsView
<1>4. PICK n \in Nat : n = Cardinality(A)
  BY FS_CardinalityType DEF IsView
<1>5. Ascending(A) = Sorted(<< >>, A, "token")
  <2>1. \A i \in 1..n : (CHOOSE a \in A : Cardinality({m \in A : m < a}) = i - 1) =
                        (CHOOSE a \in A : Place(<< >>, A, "token", a) = i)
    <3> TAKE i \in 1..n
    <3>1. \A a \in A : Cardinality({m \in A : m < a}) = i - 1 <=> Place(<< >>, A, "token", a) = i
      BY <1>2, <1>3
    <3> QED
      BY <3>1
  <2> DEFINE f(i) == CHOOSE a \in A : Cardinality({m \in A : m < a}) = i - 1
             g(i) == CHOOSE a \in A : Place(<< >>, A, "token", a) = i
  <2>2. Ascending(A) = [i \in 1..n |-> f(i)] /\ Sorted(<< >>, A, "token") = [i \in 1..n |-> g(i)]
    BY <1>4 DEF Ascending, Sorted
  <2>3. \A i \in 1..n : f(i) = g(i)
    BY <2>1
  <2> HIDE DEF f, g
  <2> QED
    BY <2>2, <2>3
<1>6. LET s == Sorted(<< >>, A, "token")
      IN  /\ s \in Seq(A) /\ Len(s) = Cardinality(A) /\ Len(s) \in Nat
          /\ \A id \in A : \E i \in 1..Len(s) : s[i] = id
          /\ \A i, j \in 1..Len(s) : i < j => Before(<< >>, "token", s[i], s[j])
  BY SortedIsSorted
<1> QED
  BY <1>1, <1>5, <1>6

(* The first and the last page, the one shown and its neighbours are anchors. *)
LEMMA AnchorsAre ==
    ASSUME NEW total \in Nat \ {0}, NEW page \in 1..total, NEW density
    PROVE  /\ IsView(Anchors(page, total, density)) /\ Anchors(page, total, density) \subseteq 1..total
           /\ {1, page, total} \cup ({page - 1, page + 1} \cap 1..total) \subseteq Anchors(page, total, density)
<1>1. Anchors(page, total, density) \subseteq 1..total
  BY DEF Anchors
<1>2. IsFiniteSet(1..total)
  BY FS_Interval
<1>3. IsView(Anchors(page, total, density))
  BY <1>1, <1>2, FS_Subset DEF IsView
<1>4. {1, page, total} \cup ({page - 1, page + 1} \cap 1..total) \subseteq Anchors(page, total, density)
  BY DEF Anchors
<1> QED
  BY <1>1, <1>3, <1>4

(* The entries before and after another, for any pages in order. *)
EntryPieces(q) ==
    [i \in 1..Len(q) |-> IF i > 1 /\ q[i] - q[i - 1] > 1 THEN << Ellipsis, q[i] >> ELSE << q[i] >>]

LEMMA EntriesAre ==
    ASSUME NEW q \in Seq(Nat \ {0}), \A i, j \in 1..Len(q) : i < j => q[i] < q[j]
    PROVE  LET entries == FlattenSeq(EntryPieces(q))
           IN  /\ ToSet(entries) \ {Ellipsis} = {q[i] : i \in 1..Len(q)}
               /\ \A i \in 1..(Len(entries) - 1) :
                      IF entries[i + 1] = Ellipsis THEN entries[i + 2] > entries[i] + 1
                      ELSE entries[i] = Ellipsis \/ entries[i + 1] = entries[i] + 1
<1>1. PICK n \in Nat : n = Len(q)
  BY LenProperties
<1>2. \A i \in 1..n : q[i] \in Nat \ {0}
  BY <1>1, ElementOfSeq
<1> DEFINE Gap(i) == i > 1 /\ q[i] - q[i - 1] > 1
<1>3. PICK pieces : pieces = EntryPieces(q)
  OBVIOUS
<1>4. /\ pieces \in Seq(Seq(Nat)) /\ Len(pieces) = n
      /\ \A i \in 1..n : pieces[i] = IF Gap(i) THEN << Ellipsis, q[i] >> ELSE << q[i] >>
  <2>1. pieces = [i \in 1..n |-> IF Gap(i) THEN << Ellipsis, q[i] >> ELSE << q[i] >>]
    BY <1>1, <1>3 DEF EntryPieces
  <2>2. \A i \in 1..n : << Ellipsis, q[i] >> \in Seq(Nat) /\ << q[i] >> \in Seq(Nat)
    BY <1>2 DEF Ellipsis
  <2> HIDE DEF Gap
  <2>3. pieces \in [1..n -> Seq(Nat)]
    BY <2>1, <2>2
  <2> QED
    BY <2>1, <2>3
<1>5. PICK entries \in Seq(Nat) : entries = FlattenSeq(pieces)
  <2>1. /\ \A i \in 0..Len(pieces) : Start(pieces, i) \in Seq(Nat)
        /\ Start(pieces, Len(pieces)) = FlattenSeq(pieces)
    BY ONLY <1>4, StartSteps
  <2>2. Len(pieces) = n /\ n \in 0..n
    BY <1>4
  <2>3. Start(pieces, n) \in Seq(Nat) /\ Start(pieces, n) = FlattenSeq(pieces)
    BY ONLY <2>1, <2>2
  <2> HIDE DEF Gap
  <2> QED
    BY <2>3
<1>6. PICK m \in Nat : m = Len(entries)
  BY LenProperties
<1> DEFINE E(i) == Len(Start(pieces, i))
<1>7. E(0) = 0 /\ E(n) = m /\ \A i \in 0..n : E(i) \in Nat
  <2>1. /\ Start(pieces, 0) = << >> /\ Start(pieces, n) = entries
        /\ \A i \in 0..n : Start(pieces, i) \in Seq(Nat)
    BY <1>4, <1>5, StartSteps
  <2> QED
    BY <1>6, <2>1, LenProperties
<1>8. ASSUME NEW i \in 1..n
      PROVE  /\ i - 1 \in 0..n
             /\ Gap(i) => E(i) = E(i - 1) + 2 /\ E(i) <= m /\ entries[E(i) - 1] = Ellipsis /\ entries[E(i)] = q[i]
             /\ ~Gap(i) => E(i) = E(i - 1) + 1 /\ E(i) <= m /\ entries[E(i)] = q[i]
  <2>1. i - 1 \in 0..n /\ i \in 0..n
    OBVIOUS
  <2>2. PICK o \in Nat : o = E(i - 1)
    BY <1>7, <2>1
  <2>3. PICK piece \in Seq(Nat) : piece = pieces[i]
    BY <1>4, ElementOfSeq
  <2>4. StandsAt(entries, o, piece)
    BY <1>4, <1>5, <2>2, <2>3, FlattenPiece
  <2>5. E(i) = o + Len(piece)
    <3>1. Start(pieces, i) = Start(pieces, i - 1) \o piece
      BY <1>4, <2>3, StartSteps
    <3>2. Start(pieces, i - 1) \in Seq(Nat)
      BY <1>4, <2>1, StartSteps
    <3> QED
      BY <2>2, <2>3, <3>1, <3>2
  <2>6. /\ Gap(i) => piece = << Ellipsis, q[i] >>
        /\ ~Gap(i) => piece = << q[i] >>
    BY <1>4, <2>3
  <2> HIDE DEF Gap, E
  <2>7. CASE Gap(i)
    <3>1. piece = << Ellipsis, q[i] >>
      BY <2>6, <2>7
    <3>2. Len(piece) = 2 /\ piece[1] = Ellipsis /\ piece[2] = q[i]
      BY <3>1
    <3>3. entries[o + 1] = Ellipsis /\ entries[o + 2] = q[i] /\ o + 2 <= m
      BY <1>6, <2>4, <3>2 DEF StandsAt
    <3>4. E(i) = o + 2 /\ E(i) - 1 = o + 1 /\ E(i - 1) = o
      BY <2>2, <2>5, <3>2
    <3>5. E(i) = E(i - 1) + 2 /\ E(i) <= m /\ entries[E(i) - 1] = Ellipsis /\ entries[E(i)] = q[i]
      BY <3>3, <3>4
    <3> QED
      BY <2>1, <2>7, <3>5
  <2>8. CASE ~Gap(i)
    <3>1. piece = << q[i] >>
      BY <2>6, <2>8
    <3>2. Len(piece) = 1 /\ piece[1] = q[i]
      BY <3>1
    <3>3. entries[o + 1] = q[i] /\ o + 1 <= m
      BY <1>6, <2>4, <3>2 DEF StandsAt
    <3>4. E(i) = o + 1 /\ E(i - 1) = o
      BY <2>2, <2>5, <3>2
    <3>5. E(i) = E(i - 1) + 1 /\ E(i) <= m /\ entries[E(i)] = q[i]
      BY <3>3, <3>4
    <3> QED
      BY <2>1, <2>8, <3>5
  <2> QED
    BY <2>7, <2>8
<1>9. ASSUME NEW k \in 1..m
      PROVE  \E i \in 1..n : k = E(i) \/ (Gap(i) /\ k = E(i) - 1)
  <2>1. PICK i \in 1..n : E(i - 1) < k /\ k <= E(i)
    BY <1>4, <1>5, <1>6, PlacesAreInPieces
  <2> HIDE DEF Gap, E
  <2>2. i - 1 \in 0..n /\ i \in 0..n /\ (E(i) = E(i - 1) + 1 \/ (Gap(i) /\ E(i) = E(i - 1) + 2))
    BY <1>8
  <2>3. E(i) \in Nat /\ E(i - 1) \in Nat
    BY <1>7, <2>2
  <2>4. k = E(i) \/ (Gap(i) /\ k = E(i) - 1)
    BY <2>1, <2>2, <2>3
  <2> QED
    BY <2>4
<1> HIDE DEF E
<1>10. ToSet(entries) \ {Ellipsis} = {q[i] : i \in 1..n}
  <2>1. ToSet(entries) = {entries[k] : k \in 1..m}
    <3>1. DOMAIN entries = 1..m
      BY <1>6, LenProperties
    <3> QED
      BY <3>1 DEF ToSet
  <2>2. ASSUME NEW k \in 1..m, entries[k] # Ellipsis PROVE entries[k] \in {q[i] : i \in 1..n}
    <3>1. PICK i \in 1..n : k = E(i) \/ (Gap(i) /\ k = E(i) - 1)
      BY <1>9
    <3> QED
      BY <1>8, <2>2, <3>1
  <2>3. ASSUME NEW i \in 1..n PROVE q[i] \in {entries[k] : k \in 1..m} /\ q[i] # Ellipsis
    <3>1. E(i) \in Nat /\ E(i - 1) \in Nat /\ E(i) > E(i - 1) /\ E(i) <= m /\ entries[E(i)] = q[i]
      BY <1>7, <1>8
    <3>2. E(i) \in 1..m
      BY <3>1
    <3> QED
      BY <1>2, <3>1, <3>2 DEF Ellipsis
  <2> QED
    BY <2>1, <2>2, <2>3
<1>11. ASSUME NEW k \in 1..(m - 1)
       PROVE  IF entries[k + 1] = Ellipsis THEN entries[k + 2] > entries[k] + 1
              ELSE entries[k] = Ellipsis \/ entries[k + 1] = entries[k] + 1
  <2>1. k + 1 \in 1..m
    OBVIOUS
  <2>2. PICK i \in 1..n : k + 1 = E(i) \/ (Gap(i) /\ k + 1 = E(i) - 1)
    BY <1>9, <2>1
  <2>3. /\ i - 1 \in 0..n /\ E(i) \in Nat /\ E(i - 1) \in Nat /\ q[i] # Ellipsis
        /\ Gap(i) => E(i) = E(i - 1) + 2 /\ entries[E(i) - 1] = Ellipsis /\ entries[E(i)] = q[i]
        /\ ~Gap(i) => E(i) = E(i - 1) + 1 /\ entries[E(i)] = q[i]
    BY <1>2, <1>7, <1>8 DEF Ellipsis
  <2>4. ASSUME k = E(i - 1) PROVE i - 1 \in 1..n /\ entries[k] = q[i - 1] /\ q[i - 1] \in Nat /\ q[i] \in Nat /\ q[i - 1] < q[i]
    <3>1. i - 1 # 0
      BY <1>7, <2>4
    <3>2. i - 1 \in 1..n
      BY <2>3, <3>1
    <3>3. entries[E(i - 1)] = q[i - 1]
      BY <1>8, <3>2
    <3> QED
      BY <1>1, <1>2, <2>4, <3>2, <3>3
  <2>5. CASE ~Gap(i)
    <3>1. k + 1 = E(i) /\ k = E(i - 1) /\ entries[k + 1] = q[i]
      BY <2>2, <2>3, <2>5
    <3>2. i > 1
      <4>1. i - 1 \in 1..n /\ i \in Int
        BY <2>4, <3>1
      <4> QED
        BY <4>1
    <3>3. q[i] = q[i - 1] + 1
      <4>1. q[i - 1] \in Nat /\ q[i] \in Nat /\ q[i - 1] < q[i]
        BY <2>4, <3>1
      <4>2. ~(q[i] - q[i - 1] > 1)
        BY <2>5, <3>2
      <4> QED
        BY <4>1, <4>2
    <3> QED
      BY <2>3, <2>4, <3>1, <3>3
  <2>6. CASE Gap(i) /\ k + 1 = E(i) - 1
    <3>1. k = E(i - 1) /\ k + 2 = E(i)
      <4>1. E(i) = E(i - 1) + 2 /\ E(i - 1) \in Nat
        BY <2>3, <2>6
      <4>2. k + 1 = E(i) - 1 /\ k \in Int
        BY <2>6
      <4> QED
        BY <4>1, <4>2
    <3>2. entries[k + 1] = Ellipsis /\ entries[k + 2] = q[i]
      BY <2>3, <2>6, <3>1
    <3>3. q[i] > q[i - 1] + 1
      BY <2>4, <2>6, <3>1
    <3> QED
      BY <2>4, <3>1, <3>2, <3>3
  <2>7. CASE Gap(i) /\ k + 1 = E(i)
    <3>1. k = E(i) - 1
      BY <2>7, <2>3
    <3>2. entries[k] = Ellipsis /\ entries[k + 1] # Ellipsis
      BY <2>3, <2>7, <3>1
    <3> QED
      BY <3>2
  <2> QED
    BY <2>2, <2>5, <2>6, <2>7
<1> QED
  BY <1>1, <1>3, <1>5, <1>6, <1>10, <1>11

(* The links of a page, however many pages there are. *)
LEMMA LinksReach ==
    ASSUME NEW total \in Nat \ {0}, NEW page \in 1..total, NEW density
    PROVE  LinksReachEveryPage(page, total, density)
<1>1. PICK A : A = Anchors(page, total, density)
  OBVIOUS
<1>2. IsView(A) /\ A \subseteq 1..total /\ {1, page, total} \cup ({page - 1, page + 1} \cap 1..total) \subseteq A
  BY <1>1, AnchorsAre
<1>3. PICK q : q = Ascending(A)
  OBVIOUS
<1>4. /\ q \in Seq(A) /\ \A a \in A : \E i \in 1..Len(q) : q[i] = a
      /\ \A i, j \in 1..Len(q) : i < j => q[i] < q[j]
  BY <1>2, <1>3, AscendingIs
<1>5. q \in Seq(Nat \ {0}) /\ \A i \in 1..Len(q) : q[i] \in A
  <2>1. \A i \in 1..Len(q) : q[i] \in A /\ q[i] \in Nat \ {0}
    <3>1. \A i \in 1..Len(q) : q[i] \in A
      BY ONLY <1>4, ElementOfSeq
    <3>2. \A a \in A : a \in Nat \ {0}
      BY <1>2
    <3> QED
      BY <3>1, <3>2
  <2>2. PICK n \in Nat : n = Len(q) /\ q = [i \in 1..n |-> q[i]]
    BY <1>4, LenProperties
  <2>3. q \in [1..n -> Nat \ {0}]
    BY <2>1, <2>2
  <2> QED
    BY <2>1, <2>3
<1>6. PICK entries : entries = FlattenSeq(EntryPieces(q))
  OBVIOUS
<1>7. /\ ToSet(entries) \ {Ellipsis} = {q[i] : i \in 1..Len(q)}
      /\ \A i \in 1..(Len(entries) - 1) :
             IF entries[i + 1] = Ellipsis THEN entries[i + 2] > entries[i] + 1
             ELSE entries[i] = Ellipsis \/ entries[i + 1] = entries[i] + 1
  BY <1>4, <1>5, <1>6, EntriesAre
<1>8. {q[i] : i \in 1..Len(q)} = A
  BY <1>4, <1>5
<1>9. PaginationEntries(page, total, density) = entries
  BY <1>1, <1>3, <1>6 DEF PaginationEntries, EntryPieces
<1> HIDE DEF EntryPieces
<1>10. {1, page, total} \cup ({page - 1, page + 1} \cap 1..total) \subseteq ToSet(entries)
  BY <1>2, <1>7, <1>8
<1> QED
  BY <1>1, <1>7, <1>8, <1>9, <1>10 DEF LinksReachEveryPage

LEMMA LinksOfTheView ==
    ASSUME NEW docs, Documents(docs), ViewInv(docs)
    PROVE  LinksReachThePages
<1> SUFFICES ASSUME NEW density, NEW total \in Pages..(Pages + MorePages)
             PROVE  LinksReachEveryPage(PageOpen, total, density)
  BY DEF LinksReachThePages
<1>1. Documents(site) /\ params.page \in Nat \cup {None}
  BY DEF ViewInv
<1>2. Len(InOrder) \in Nat /\ PageOpen \in 1..Pages /\ Pages \in Nat \ {0}
  BY <1>1, TheOrderShown, PagesOfItems, ThePageShownExists DEF PageOpen, Pages
<1>3. total \in Nat \ {0} /\ PageOpen \in 1..total
  BY <1>2 DEF MorePages
<1> QED
  BY <1>3, LinksReach

LEMMA ViewsKeepTheirWord ==
    ASSUME NEW docs, Documents(docs), ViewInv(docs)
    PROVE  ChipsCountWhatTheyOpen /\ PagesPartitionTheView /\ LinksReachThePages /\ WalksStayInTheView
<1>1. ChipsCountWhatTheyOpen
  BY ChipsKeepTheirWord DEF ViewInv
<1>2. PagesPartitionTheView
  BY ViewsArePaged DEF ViewInv
<1>3. WalksStayInTheView
  BY WalksAreBounded DEF ViewInv, WalksStayInTheView
<1> QED
  BY <1>1, <1>2, <1>3, LinksOfTheView

(* The links of a view reach its first, last and neighbouring pages, however many cats it has
   and however many pages more there were. *)
THEOREM LinksAreKept ==
    ASSUME NEW docs, Documents(docs)
    PROVE  ViewSpec(docs) => []LinksReachThePages
<1>1. ViewInv(docs) => LinksReachThePages
  BY LinksOfTheView
<1> QED
  BY <1>1, ViewsAreKept, PTL

-----------------------------------------------------------------------------
(* The site that is published *)

(* Every family and palette that has a chip, of a source item, has an item. *)
Complete(items) ==
    \A i \in 1..Len(SourceItems) : Grouped(SourceItems[i]) =>
        \E j \in 1..MaxSupply : Kin(items[j], SourceItems[i])

LEMMA RebuiltIsComplete ==
    ASSUME NEW sel \in Selections, ~RebuildRefuses(sel), Len(Rebuilt(sel)) = MaxSupply
    PROVE  Complete(Rebuilt(sel))
<1> SUFFICES ASSUME NEW i \in 1..Len(SourceItems), Grouped(SourceItems[i])
             PROVE  \E j \in 1..MaxSupply : Kin(Rebuilt(sel)[j], SourceItems[i])
  BY DEF Complete
<1>1. PICK k \in 1..Len(SourceItems) : SourceItems[k].token_id \notin sel.dropped /\ Kin(SourceItems[k], SourceItems[i])
  BY CatalogueAssumption
<1>2. PICK j \in 1..MaxSupply : /\ Rebuilt(sel)[j].category = SourceItems[k].category
                                /\ Rebuilt(sel)[j].palette_id = SourceItems[k].palette_id
  BY <1>1, RebuiltIs
<1> QED
  BY <1>1, <1>2 DEF Kin

(* Hashes leave a list complete. *)
LEMMA HashedIsComplete ==
    ASSUME NEW items \in Seq(SourceCats), Len(items) = MaxSupply, Complete(items), NEW pictures
    PROVE  Complete(WithHash(items, pictures))
<1>1. PICK final : final = WithHash(items, pictures)
  OBVIOUS
<1>2. ASSUME NEW j \in 1..MaxSupply PROVE final[j].category = items[j].category /\ final[j].palette_id = items[j].palette_id
  <2>1. PICK item \in SourceCats : item = items[j]
    BY ElementOfSeq
  <2>2. final[j] = Overwritten(item, [final_png |-> pictures[j]])
    BY <1>1, <2>1 DEF WithHash
  <2>3. Alike(item, final[j])
    BY <2>2, HashedIsAlike
  <2> QED
    BY <2>1, <2>3 DEF Alike
<1>3. Complete(final)
  BY <1>2 DEF Complete, Kin
<1> QED
  BY <1>1, <1>3

(* The trait summary is of some painted and complete manifest, not always of the one there is. *)
SummaryOfCats(counts) == \E items : Painted(items) /\ Complete(items) /\ counts = Summarize(TraitsOf(items))

(* What the documents of a viewer run rest on. *)
PublishInv ==
    /\ selection \in Selections
    /\ Complete(manifest.items)
    /\ job.script = "rebuild" /\ job.step = "draw" => Len(job.items) = MaxSupply
    /\ job.script = "rebuild" /\ job.step \in {"draw", "manifest"} => Complete(job.items)
    /\ SummaryOfCats(summary.counts)
    /\ "index" \in DOMAIN viewer

(* The cats of a document whose entries are numbered. *)
LEMMA NumberedCats ==
    ASSUME NEW doc, NEW n \in Nat, Len(doc) = n, \A i \in 1..n : doc[i].token_id = i
    PROVE  Cats(doc) = [id \in 1..n |-> doc[id].trait_values]
<1>1. {doc[i].token_id : i \in 1..n} = 1..n
  OBVIOUS
<1>2. \A id \in 1..n : (CHOOSE i \in 1..n : doc[i].token_id = id) = id
  OBVIOUS
<1> QED
  BY <1>1, <1>2 DEF Cats

(* What a filters document has options for. *)
LEMMA FilterOptions ==
    ASSUME NEW items, Painted(items)
    PROVE  LET filters == FilterDoc(Summarize(TraitsOf(items)))
           IN  /\ DOMAIN filters.pattern = {items[i].pattern : i \in 1..MaxSupply}
               /\ DOMAIN filters.category = {items[i].category : i \in 1..MaxSupply}
               /\ DOMAIN filters.palette_id = {items[i].palette_id : i \in 1..MaxSupply}
               /\ DOMAIN filters.rarity_tier = {items[i].rarity_tier : i \in 1..MaxSupply}
               /\ DOMAIN filters.rarity_type \subseteq {items[i].rarity_type : i \in 1..MaxSupply}
<1>1. PICK n : n = MaxSupply /\ n = Len(items)
  BY NumberedItems DEF Painted
<1>2. PICK traits : traits = TraitsOf(items)
  OBVIOUS
<1>3. n \in Nat /\ traits = [i \in 1..n |-> TraitValues(items[i])] /\ Len(traits) = n
  <2>1. traits = [i \in 1..n |-> TraitValues(items[i])] /\ n \in Nat
    BY <1>1, <1>2, CatArtAssumption DEF TraitsOf
  <2> QED
    BY <2>1
<1>4. PICK counts : counts = Summarize(traits)
  OBVIOUS
<1>5. DOMAIN counts = TraitKeys /\ \A key \in TraitKeys : DOMAIN counts[key] = {traits[i][key] : i \in 1..n}
  BY <1>3, <1>4 DEF Summarize
<1>6. /\ DOMAIN counts.pattern = {items[i].pattern : i \in 1..n}
      /\ DOMAIN counts.category = {items[i].category : i \in 1..n}
      /\ DOMAIN counts.palette_id = {items[i].palette_id : i \in 1..n}
      /\ DOMAIN counts.rarity_tier = {items[i].rarity_tier : i \in 1..n}
      /\ DOMAIN counts.rarity_type = {items[i].rarity_type : i \in 1..n}
  <2>1. \A i \in 1..n : /\ traits[i].pattern = items[i].pattern /\ traits[i].category = items[i].category
                        /\ traits[i].palette_id = items[i].palette_id /\ traits[i].rarity_tier = items[i].rarity_tier
                        /\ traits[i].rarity_type = items[i].rarity_type
    BY <1>3 DEF TraitValues
  <2> QED
    BY <1>5, <2>1 DEF TraitKeys
<1>7. PICK filters : filters = FilterDoc(counts)
  OBVIOUS
<1>8. /\ filters.pattern = counts.pattern /\ filters.category = counts.category
      /\ filters.palette_id = counts.palette_id /\ filters.rarity_tier = counts.rarity_tier
      /\ DOMAIN filters.rarity_type \subseteq DOMAIN counts.rarity_type
  BY <1>5, <1>7 DEF FilterDoc, TraitKeys
<1> QED
  BY <1>1, <1>2, <1>4, <1>6, <1>7, <1>8

(* Traits of made items are none of the names an absent parameter has. *)
LEMMA TraitsAreValues ==
    ASSUME NEW item, Made(item)
    PROVE  item.pattern \notin NoValues /\ item.rarity_tier \notin NoValues /\ item.rarity_type \notin NoValues
<1>1. PICK i \in 1..Len(SourceItems) : MadeOf(item, SourceItems[i])
  BY DEF Made
<1>2. {SourceItems[i].pattern, SourceItems[i].rarity_tier, SourceItems[i].rarity_type} \cap NoValues = {}
      /\ {"superrare", "beam"} \cap NoValues = {}
  BY CatalogueAssumption
<1> QED
  BY <1>1, <1>2 DEF MadeOf

(* The documents of a painted manifest, with the options of another, agree. *)
LEMMA PublishedDocuments ==
    ASSUME NEW items, Painted(items), NEW counts, SummaryOfCats(counts)
    PROVE  Documents([collection |-> ViewerDoc(items, counts, "collection"),
                      filters    |-> ViewerDoc(items, counts, "filters"),
                      index      |-> ViewerDoc(items, counts, "index")])
<1>1. PICK n : n = MaxSupply /\ n = Len(items) /\ n \in Nat
  BY NumberedItems, CatArtAssumption DEF Painted
<1>2. PICK collection, filters, index :
        /\ collection = [i \in 1..n |-> CollectionItem(items[i])]
        /\ filters = FilterDoc(counts)
        /\ index = [i \in 1..n |-> [token_id |-> i, trait_values |-> TraitValues(items[i])]]
  OBVIOUS
<1>3. /\ ViewerDoc(items, counts, "collection") = collection /\ ViewerDoc(items, counts, "filters") = filters
      /\ ViewerDoc(items, counts, "index") = index
  BY <1>1, <1>2 DEF ViewerDoc
<1>4. PICK cats : cats = [id \in 1..n |-> TraitValues(items[id])]
  OBVIOUS
<1>5. Cats(collection) = cats
  <2>1. Len(collection) = n /\ \A i \in 1..n : collection[i] = CollectionItem(items[i])
    BY <1>1, <1>2
  <2>2. \A i \in 1..n : collection[i].token_id = i /\ collection[i].trait_values = TraitValues(items[i])
    <3>1. \A i \in 1..n : items[i].token_id = i
      BY <1>1 DEF Painted, Numbered
    <3>2. \A i \in 1..n : /\ collection[i].token_id = items[i].token_id
                          /\ collection[i].trait_values = TraitValues(items[i])
      BY <2>1 DEF CollectionItem
    <3> QED
      BY <3>1, <3>2
  <2>3. Cats(collection) = [id \in 1..n |-> collection[id].trait_values]
    BY <1>1, <2>1, <2>2, NumberedCats
  <2> QED
    BY <1>4, <2>2, <2>3
<1>6. Cats(index) = cats
  <2>1. Len(index) = n /\ \A i \in 1..n : index[i].token_id = i /\ index[i].trait_values = TraitValues(items[i])
    BY <1>1, <1>2
  <2>2. Cats(index) = [id \in 1..n |-> index[id].trait_values]
    BY <1>1, <2>1, NumberedCats
  <2> QED
    BY <1>4, <2>1, <2>2
<1>7. DOMAIN cats = 1..n /\ IsFiniteSet(DOMAIN cats) /\ DOMAIN cats \subseteq Nat
  <2>1. DOMAIN cats = 1..n
    BY <1>4
  <2>2. IsFiniteSet(1..n)
    BY <1>1, FS_Interval
  <2> QED
    BY <1>1, <2>1, <2>2
<1>8. PICK counted : Painted(counted) /\ Complete(counted) /\ counts = Summarize(TraitsOf(counted))
  BY DEF SummaryOfCats
<1>9. /\ DOMAIN filters.pattern = {counted[i].pattern : i \in 1..n}
      /\ DOMAIN filters.category = {counted[i].category : i \in 1..n}
      /\ DOMAIN filters.palette_id = {counted[i].palette_id : i \in 1..n}
      /\ DOMAIN filters.rarity_tier = {counted[i].rarity_tier : i \in 1..n}
      /\ DOMAIN filters.rarity_type \subseteq {counted[i].rarity_type : i \in 1..n}
  BY <1>1, <1>2, <1>8, FilterOptions
<1>10. \A key \in {"pattern", "rarity_tier", "rarity_type"} : DOMAIN filters[key] \cap NoValues = {}
  <2>1. \A i \in 1..n : /\ counted[i].pattern \notin NoValues /\ counted[i].rarity_tier \notin NoValues
                        /\ counted[i].rarity_type \notin NoValues
    BY <1>1, <1>8, TraitsAreValues DEF Painted
  <2> QED
    BY <1>9, <2>1
<1>11. ASSUME NEW id \in DOMAIN cats
       PROVE  /\ cats[id].collar \in {"none", "checkered_collar", "classic_red_collar"}
              /\ cats[id].category \in DOMAIN Groups => cats[id].category \in DOMAIN filters.category
              /\ \A g \in DOMAIN Groups : cats[id].palette_id \in Groups[g] =>
                     cats[id].category = g /\ cats[id].palette_id \in DOMAIN filters.palette_id
  <2>1. PICK item : item = items[id] /\ id \in 1..n
    BY <1>7
  <2>2. cats[id].collar = item.collar_type /\ cats[id].category = item.category /\ cats[id].palette_id = item.palette_id
    BY <1>4, <2>1 DEF TraitValues
  <2>3. Made(item) /\ CanBeDrawn(item)
    BY <1>1, <2>1 DEF Painted
  <2>4. item.collar_type \in {"none", "checkered_collar", "classic_red_collar"}
    BY <2>3 DEF CanBeDrawn, Known, COLLAR_TYPE_NAMES
  <2>5. PICK s \in 1..Len(SourceItems) : MadeOf(item, SourceItems[s])
    BY <2>3 DEF Made
  <2>6. item.category = SourceItems[s].category /\ item.palette_id = SourceItems[s].palette_id
    BY <2>5 DEF MadeOf
  <2>7. ASSUME Grouped(SourceItems[s])
        PROVE  item.category \in DOMAIN filters.category /\ item.palette_id \in DOMAIN filters.palette_id
    <3>1. PICK j \in 1..n : Kin(counted[j], SourceItems[s])
      BY <1>1, <1>8, <2>7 DEF Complete
    <3> QED
      BY <1>9, <2>6, <3>1 DEF Kin
  <2>8. item.category \in DOMAIN Groups => item.category \in DOMAIN filters.category
    BY <2>6, <2>7 DEF Grouped
  <2>9. ASSUME NEW g \in DOMAIN Groups, item.palette_id \in Groups[g]
        PROVE  item.category = g /\ item.palette_id \in DOMAIN filters.palette_id
    BY <2>6, <2>7, <2>9, CatalogueAssumption DEF Grouped
  <2> QED
    BY <2>2, <2>4, <2>8, <2>9
<1>12. PICK docs : docs = [collection |-> collection, filters |-> filters, index |-> index]
  OBVIOUS
<1>13. docs.collection = collection /\ docs.filters = filters /\ docs.index = index
  BY <1>12
<1>14. Documents(docs)
  BY <1>5, <1>6, <1>7, <1>10, <1>11, <1>13 DEF Documents
<1> QED
  BY <1>3, <1>12, <1>14

(* The inductive invariant: what a script holds and writes is complete, and the site there is
   was published from such documents. *)
SiteInv == PublishInv /\ (site = None \/ Documents(site))

LEMMA InitIsPublishable == Init => PublishInv
<1> SUFFICES ASSUME Init PROVE PublishInv
  OBVIOUS
<1>1. PICK sel \in Selections :
        LET items == Rebuilt(sel)
            first == Generated(items, BaseData)
            pictures == [i \in 1..Len(items) |-> BuildSvgFromItem(first, items[i])]
            final == WithHash(items, pictures)
        IN  /\ ~RebuildRefuses(sel)
            /\ Valid(final, sel)
            /\ selection = sel
            /\ manifest = [created |-> 0, items |-> final]
            /\ summary = [created |-> 0, counts |-> Summarize(TraitsOf(final)), of |-> final]
            /\ DOMAIN viewer = {"svgs"} \cup ToSet(DocOrder)
            /\ job = Idle
  BY DEF Init
<1>2. PICK items : items = Rebuilt(sel) /\ items \in Seq(SourceCats)
  BY <1>1, RebuiltIs
<1>3. PICK pictures : manifest.items = WithHash(items, pictures)
  BY <1>1, <1>2
<1>4. Painted(manifest.items)
  BY InitIsDrawn DEF DrawingInv
<1>5. Len(items) = MaxSupply
  <2>1. Len(manifest.items) = MaxSupply
    BY <1>4, NumberedItems DEF Painted
  <2>2. PICK n \in Nat : n = Len(items)
    BY <1>2, LenProperties
  <2>3. manifest.items = [i \in 1..n |-> Overwritten(items[i], [final_png |-> pictures[i]])]
    BY <1>3, <2>2 DEF WithHash
  <2> QED
    BY <2>1, <2>2, <2>3
<1>6. Complete(manifest.items)
  BY <1>1, <1>2, <1>3, <1>5, RebuiltIsComplete, HashedIsComplete
<1>7. summary.counts = Summarize(TraitsOf(manifest.items)) /\ selection \in Selections /\ job.script = "none"
  BY <1>1 DEF Idle
<1>8. SummaryOfCats(summary.counts)
  BY <1>4, <1>6, <1>7 DEF SummaryOfCats
<1>9. "index" \in DOMAIN viewer
  BY <1>1 DEF DocOrder, ToSet
<1> QED
  BY <1>6, <1>7, <1>8, <1>9 DEF PublishInv

LEMMA NextIsPublishable ==
    ReleaseInv /\ DrawingInv /\ PublishInv /\ [Next]_vars => PublishInv'
<1> SUFFICES ASSUME ReleaseInv, DrawingInv, PublishInv, [Next]_vars PROVE PublishInv'
  OBVIOUS
<1>1. ASSUME UNCHANGED <<selection, manifest, summary>>, DOMAIN viewer' = DOMAIN viewer,
             job'.script # "rebuild" \/ UNCHANGED job
      PROVE  PublishInv'
  BY <1>1 DEF PublishInv, SummaryOfCats
<1>2. CASE EditSelection
  BY <1>2 DEF EditSelection, PublishInv
<1>3. CASE RebuildStarts
  <2>1. /\ job' = [script |-> "rebuild", step |-> "draw", sel |-> selection, items |-> Rebuilt(selection)]
        /\ ~RebuildRefuses(selection) /\ Len(Rebuilt(selection)) = MaxSupply
        /\ UNCHANGED <<selection, manifest, summary, viewer>>
    BY <1>3 DEF RebuildStarts
  <2>2. Complete(Rebuilt(selection))
    BY <2>1, RebuiltIsComplete DEF PublishInv
  <2>3. job'.step = "draw" /\ job'.items = Rebuilt(selection)
    BY <2>1
  <2>4. Len(job'.items) = MaxSupply /\ Complete(job'.items)
    BY <2>1, <2>2, <2>3
  <2> QED
    BY <2>1, <2>4 DEF PublishInv
<1>4. ASSUME job.script = "rebuild" PROVE job = [script |-> "rebuild", step |-> job.step, sel |-> job.sel, items |-> job.items]
  BY <1>4 DEF ReleaseInv, JobIsWhole, Idle
<1>5. CASE RebuildDraws
  <2>1. PICK drawn : /\ job.script = "rebuild" /\ job.step = "draw"
                     /\ \/ job' = Idle
                        \/ job' = [job EXCEPT !.step = "manifest", !.items = WithHash(job.items, drawn)]
                     /\ UNCHANGED <<selection, manifest, summary, viewer>>
    BY <1>5 DEF RebuildDraws
  <2>2. CASE job' = Idle
    BY <1>1, <2>1, <2>2 DEF Idle
  <2>3. CASE job' = [job EXCEPT !.step = "manifest", !.items = WithHash(job.items, drawn)]
    <3>1. PICK items \in Seq(SourceCats) : items = job.items /\ Len(items) = MaxSupply /\ Complete(items)
      BY <2>1 DEF DrawingInv, PublishInv
    <3>2. PICK kept, old, step : job = [script |-> "rebuild", step |-> step, sel |-> kept, items |-> old]
      BY <1>4, <2>1
    <3>3. job' = [script |-> "rebuild", step |-> "manifest", sel |-> kept, items |-> WithHash(items, drawn)]
      BY <2>3, <3>1, <3>2
    <3>4. job'.step = "manifest" /\ job'.items = WithHash(items, drawn)
      BY <3>3
    <3>5. Complete(job'.items)
      BY <3>1, <3>4, HashedIsComplete
    <3> QED
      BY <2>1, <3>4, <3>5 DEF PublishInv, SummaryOfCats
  <2> QED
    BY <2>1, <2>2, <2>3
<1>6. CASE RebuildWritesManifest
  <2>1. /\ job.script = "rebuild" /\ job.step = "manifest"
        /\ manifest' = [created |-> manifest.created + 1, items |-> job.items]
        /\ job' = [job EXCEPT !.step = "summary"]
        /\ UNCHANGED <<selection, summary, viewer>>
    BY <1>6 DEF RebuildWritesManifest
  <2>2. manifest'.items = job.items /\ Complete(job.items)
    BY <2>1 DEF PublishInv
  <2>3. job'.step = "summary"
    BY <1>4, <2>1
  <2> QED
    BY <2>1, <2>2, <2>3 DEF PublishInv, SummaryOfCats
<1>7. CASE RebuildWritesSummary
  <2>1. /\ job.script = "rebuild" /\ job.step = "summary"
        /\ summary' = [created |-> manifest.created, counts |-> Summarize(TraitsOf(job.items)), of |-> job.items]
        /\ job' = Idle /\ UNCHANGED <<selection, manifest, viewer>>
    BY <1>7 DEF RebuildWritesSummary
  <2>2. job.items = manifest.items /\ Painted(manifest.items) /\ Complete(manifest.items)
    BY <2>1 DEF ReleaseInv, DrawingInv, PublishInv
  <2>3. summary'.counts = Summarize(TraitsOf(job.items)) /\ job'.script = "none"
    BY <2>1 DEF Idle
  <2>4. SummaryOfCats(summary'.counts)
    BY <2>2, <2>3 DEF SummaryOfCats
  <2> QED
    BY <2>1, <2>3, <2>4 DEF PublishInv, SummaryOfCats
<1>8. CASE GenerateOnchainData
  BY <1>1, <1>8 DEF GenerateOnchainData
<1>9. CASE ViewerChecksItems
  <2>1. PICK items, new : /\ viewer' = [viewer EXCEPT !.svgs = new]
                          /\ \/ job' = Idle
                             \/ job' = [script |-> "viewer", step |-> 1, items |-> items, summary |-> summary]
                          /\ UNCHANGED <<selection, manifest, summary>>
    BY <1>9 DEF ViewerChecksItems
  <2>2. job'.script # "rebuild" /\ DOMAIN viewer' = DOMAIN viewer
    BY <2>1 DEF Idle
  <2> QED
    BY <1>1, <2>1, <2>2
<1>10. CASE ViewerWritesDoc
  <2>1. PICK doc, new : viewer' = [viewer EXCEPT ![doc] = new]
    BY <1>10 DEF ViewerWritesDoc
  <2>2. /\ job.script = "viewer" /\ UNCHANGED <<selection, manifest, summary>>
        /\ job' = IF job.step = Len(DocOrder) THEN Idle ELSE [job EXCEPT !.step = @ + 1]
    BY <1>10 DEF ViewerWritesDoc
  <2>3. job = [script |-> "viewer", step |-> job.step, items |-> job.items, summary |-> job.summary]
    BY <2>2 DEF ReleaseInv, JobIsWhole, Idle
  <2>4. job'.script # "rebuild"
    BY <2>2, <2>3 DEF Idle
  <2> QED
    BY <1>1, <2>1, <2>2, <2>4
<1>11. CASE Stops
  BY <1>1, <1>11 DEF Stops, Idle
<1>12. CASE UNCHANGED vars
  BY <1>1, <1>12 DEF vars
<1> QED
  BY <1>2, <1>3, <1>5, <1>6, <1>7, <1>8, <1>9, <1>10, <1>11, <1>12 DEF Next

(* What is published is what the viewer run wrote. *)
LEMMA PublishedSite ==
    ASSUME ReleaseInv, DrawingInv, PublishInv, Publish
    PROVE  Documents(site')
<1>1. /\ job.script = "viewer" /\ job.step = Len(DocOrder)
      /\ viewer' = [viewer EXCEPT ![DocOrder[job.step]] = ViewerDoc(job.items, job.summary.counts, DocOrder[job.step])]
      /\ site' = [collection |-> viewer'.collection, filters |-> viewer'.filters, index |-> viewer'.index]
  BY DEF Publish, ViewerWritesDoc
<1>2. DocOrder[job.step] = "index" /\ job.step = 4
  BY <1>1, DocsInOrder
<1>3. PICK items, counts : items = job.items /\ counts = job.summary.counts
  OBVIOUS
<1>4. items = manifest.items /\ counts = summary.counts
  BY <1>1, <1>3 DEF ReleaseInv
<1>5. /\ viewer.collection = ViewerDoc(items, counts, "collection")
      /\ viewer.filters = ViewerDoc(items, counts, "filters")
  <2>1. job.step > 1 /\ job.step > 2
    BY <1>2
  <2> QED
    BY <1>1, <1>3, <2>1 DEF ReleaseInv
<1>6. viewer' = [viewer EXCEPT !.index = ViewerDoc(items, counts, "index")]
  BY <1>1, <1>2, <1>3
<1>7. /\ viewer'.index = ViewerDoc(items, counts, "index")
      /\ viewer'.collection = viewer.collection /\ viewer'.filters = viewer.filters
  <2>1. "index" \in DOMAIN viewer /\ {"collection", "filters"} \subseteq DOMAIN viewer
    BY DEF PublishInv, ReleaseInv
  <2> QED
    BY <1>6, <2>1
<1>8. Painted(items) /\ SummaryOfCats(counts)
  BY <1>4 DEF DrawingInv, PublishInv
<1>9. site' = [collection |-> ViewerDoc(items, counts, "collection"),
               filters    |-> ViewerDoc(items, counts, "filters"),
               index      |-> ViewerDoc(items, counts, "index")]
  BY <1>1, <1>5, <1>7
<1> QED
  BY <1>8, <1>9, PublishedDocuments

(* A visit changes no document. *)
LEMMA VisitsKeepTheSite == ViewNext => UNCHANGED site
BY DEF ViewNext, ClickChip, ClickSort, SearchToken, ClearTokenSearch, ClearAll, ClickPage, OpenCat,
       OpenNeighbour, BackToView, Go

LEMMA CatalogueSteps == [CatalogueNext]_<<vars, viewVars>> => [Next]_vars
<1>1. CASE site = None /\ Next /\ UNCHANGED viewVars
  BY <1>1
<1>2. CASE Publish
  BY <1>2 DEF Publish, Next
<1>3. CASE site # None /\ ViewNext /\ UNCHANGED vars
  BY <1>3
<1>4. CASE UNCHANGED <<vars, viewVars>>
  BY <1>4
<1> QED
  BY <1>1, <1>2, <1>3, <1>4 DEF CatalogueNext

LEMMA SiteStays ==
    ReleaseInv /\ DrawingInv /\ SiteInv /\ [CatalogueNext]_<<vars, viewVars>> => SiteInv'
<1> SUFFICES ASSUME ReleaseInv, DrawingInv, SiteInv, [CatalogueNext]_<<vars, viewVars>> PROVE SiteInv'
  OBVIOUS
<1>1. PublishInv'
  BY CatalogueSteps, NextIsPublishable DEF SiteInv
<1>2. ASSUME UNCHANGED site PROVE SiteInv'
  <2>1. site = None \/ Documents(site)
    BY DEF SiteInv
  <2>2. (site = None \/ Documents(site))'
    BY <1>2, <2>1
  <2> QED
    BY <1>1, <2>2 DEF SiteInv
<1>3. CASE site = None /\ Next /\ UNCHANGED viewVars
  BY <1>2, <1>3 DEF viewVars
<1>4. CASE Publish
  BY <1>1, <1>4, PublishedSite DEF SiteInv
<1>5. CASE site # None /\ ViewNext /\ UNCHANGED vars
  BY <1>2, <1>5, VisitsKeepTheSite
<1>6. CASE UNCHANGED <<vars, viewVars>>
  BY <1>2, <1>6 DEF viewVars
<1> QED
  BY <1>3, <1>4, <1>5, <1>6 DEF CatalogueNext

(* What the viewer script publishes, it publishes of complete manifests. *)
THEOREM SitesAreKept == CatalogueSpec => []SiteInv
<1>1. CatalogueInit => Init /\ SiteInv
  BY InitIsPublishable DEF CatalogueInit, SiteInv
<1>2. CatalogueSpec => Spec
  BY <1>1, CatalogueSteps, PTL DEF CatalogueSpec, Spec
<1>3. CatalogueSpec => [](ReleaseInv /\ DrawingInv)
  BY <1>2, ReleaseIsDrawn, PTL
<1> QED
  BY <1>1, <1>3, SiteStays, PTL DEF CatalogueSpec

(* The documents that generate_viewer_data.mjs leaves for the site agree with one another,
   whatever was run, stopped and selected before: also with the trait summary of an earlier
   manifest every chip the browse page needs has its option. *)
THEOREM SitesAlwaysAgree == CatalogueSpec => []SitesAgree
<1>1. SiteInv => SitesAgree
  BY DEF SiteInv, SitesAgree
<1> QED
  BY <1>1, SitesAreKept, PTL

(* A visit of the site there is keeps its invariant, and begins with it. *)
VisitInv == site = None \/ ViewInv(site)

LEMMA VisitStays ==
    SiteInv /\ VisitInv /\ [CatalogueNext]_<<vars, viewVars>> => VisitInv'
<1> SUFFICES ASSUME SiteInv, VisitInv, [CatalogueNext]_<<vars, viewVars>> PROVE VisitInv'
  OBVIOUS
<1>1. PICK docs : docs = site
  OBVIOUS
<1>2. ASSUME site # None, [ViewNext]_viewVars, UNCHANGED site PROVE VisitInv'
  <2>1. Documents(docs) /\ ViewInv(docs)
    BY <1>1, <1>2 DEF SiteInv, VisitInv
  <2>2. ViewInv(docs)'
    BY <1>2, <2>1, ViewsStayViews
  <2> QED
    BY <2>2 DEF VisitInv, ViewInv
<1>3. CASE site = None /\ Next /\ UNCHANGED viewVars
  BY <1>3 DEF VisitInv, viewVars
<1>4. CASE Publish
  <2>1. params' \in Landings /\ place' = List
    BY <1>4 DEF Publish
  <2>2. params'.page \in Nat \cup {None}
    BY <2>1, ViewAssumption
  <2> QED
    BY <2>1, <2>2 DEF VisitInv, ViewInv
<1>5. CASE site # None /\ ViewNext /\ UNCHANGED vars
  BY <1>2, <1>5, VisitsKeepTheSite
<1>6. CASE UNCHANGED <<vars, viewVars>>
  <2>1. CASE site = None
    BY <1>6, <2>1 DEF VisitInv, viewVars
  <2>2. CASE site # None
    BY <1>2, <1>6, <2>2 DEF viewVars
  <2> QED
    BY <2>1, <2>2
<1> QED
  BY <1>3, <1>4, <1>5, <1>6 DEF CatalogueNext

LEMMA VisitsKeepTheirWord ==
    SiteInv /\ VisitInv => /\ ChipsCountWhatTheyOpen /\ PagesPartitionTheView
                           /\ LinksReachThePages /\ WalksStayInTheView
<1> SUFFICES ASSUME SiteInv, VisitInv
             PROVE  /\ ChipsCountWhatTheyOpen /\ PagesPartitionTheView
                    /\ LinksReachThePages /\ WalksStayInTheView
  OBVIOUS
<1>1. CASE site = None
  BY <1>1 DEF ChipsCountWhatTheyOpen, PagesPartitionTheView, LinksReachThePages, WalksStayInTheView
<1>2. CASE site # None
  <2>1. PICK docs : docs = site
    OBVIOUS
  <2>2. Documents(docs) /\ ViewInv(docs)
    BY <1>2, <2>1 DEF SiteInv, VisitInv
  <2> QED
    BY <2>2, ViewsKeepTheirWord
<1> QED
  BY <1>1, <1>2

(* Whatever release was published, whatever was run and stopped before, and however the visitor
   goes on: chips count what they open, pages partition the view and their links reach them,
   and walks stay in the view. *)
THEOREM TheSiteKeepsItsWord ==
    CatalogueSpec => [](/\ ChipsCountWhatTheyOpen /\ PagesPartitionTheView
                        /\ LinksReachThePages /\ WalksStayInTheView)
<1>1. CatalogueInit => VisitInv
  BY DEF CatalogueInit, VisitInv
<1>2. CatalogueSpec => []SiteInv
  BY SitesAreKept
<1> QED
  BY <1>1, <1>2, VisitStays, VisitsKeepTheirWord, PTL DEF CatalogueSpec
=============================================================================
