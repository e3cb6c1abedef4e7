--------------------------- MODULE CoreCatsProofs ---------------------------
(***************************************************************************)
(* Proofs about CoreCats for every supply, wallet cap, delay, window and   *)
(* finite set of wallets.  IInv is inductive; the properties follow, and   *)
(* so does that CoreCats implements TokenLottery.  Then the phases of a    *)
(* commit: CoreCats moves commits through them as CommitLife says, and a   *)
(* WalletReader, whose five calls are answered while the contract moves    *)
(* on, never sees one too early.                                           *)
(***************************************************************************)
EXTENDS WalletReader, FiniteSetTheorems, TLAPS

(* One element for every token that f grants. *)
Units(f) == {u \in Minters \X Quantities : u[2] <= f[u[1]]}

LEMMA UnitsFinite ==
  ASSUME NEW f
  PROVE  IsFiniteSet(Units(f))
<1>0. IsFiniteSet(Quantities)
  BY CoreCatsAssumption, FS_Interval DEF Quantities
<1>1. IsFiniteSet(Minters \X Quantities)
  BY <1>0, CoreCatsAssumption, FS_Product
<1>2. Units(f) \in SUBSET (Minters \X Quantities)
  BY DEF Units
<1> QED
  BY <1>1, <1>2, FS_Subset

(* The units of one wallet are as many as it was granted. *)
LEMMA UnitsOfOne ==
  ASSUME NEW m \in Minters, NEW q \in 0..MaxPerAddress
  PROVE  /\ IsFiniteSet({m} \X (1..q))
         /\ Cardinality({m} \X (1..q)) = q
<1>1. IsFiniteSet({m}) /\ Cardinality({m}) = 1
  BY FS_Singleton
<1>2. q \in Nat
  BY CoreCatsAssumption
<1>3. IsFiniteSet(1..q) /\ Cardinality(1..q) = q
  BY <1>2, FS_Interval
<1>4. IsFiniteSet({m} \X (1..q)) /\ Cardinality({m} \X (1..q)) = 1 * q
  BY <1>1, <1>3, FS_Product
<1> QED
  BY <1>2, <1>4

(* What a wallet is granted is part of all that is granted. *)
LEMMA UnitsSplit ==
  ASSUME NEW f \in [Minters -> 0..MaxPerAddress], NEW m \in Minters
  PROVE  LET rest == {u \in Units(f) : u[1] # m}
         IN  /\ IsFiniteSet(rest)
             /\ Cardinality(Units(f)) = Cardinality(rest) + f[m]
             /\ Cardinality(rest) \in Nat
<1> DEFINE rest == {u \in Units(f) : u[1] # m}
           own == {m} \X (1..f[m])
<1>1. f[m] \in 0..MaxPerAddress
  OBVIOUS
<1>2. IsFiniteSet(own) /\ Cardinality(own) = f[m]
  BY <1>1, UnitsOfOne
<1>3. IsFiniteSet(rest)
  <2>1. rest \in SUBSET Units(f)
    OBVIOUS
  <2> QED
    BY <2>1, UnitsFinite, FS_Subset
<1>4. Units(f) = rest \cup own
  BY <1>1, CoreCatsAssumption DEF Units, Quantities
<1>5. rest \cap own = {}
  OBVIOUS
<1>6. Cardinality(rest \cap own) = 0
  BY <1>5, FS_EmptySet
<1>7. Cardinality(rest \cup own) = Cardinality(rest) + Cardinality(own) - Cardinality(rest \cap own)
  BY <1>2, <1>3, FS_Union
<1>8. Cardinality(rest) \in Nat
  BY <1>3, FS_CardinalityType
<1>9. f[m] \in Int
  BY <1>1, CoreCatsAssumption
<1>10. Cardinality(Units(f)) = Cardinality(rest) + f[m]
  <2> HIDE DEF rest, own
  <2> QED
    BY <1>2, <1>4, <1>6, <1>7, <1>8, <1>9
<1> QED
  BY <1>3, <1>8, <1>10

(* Changing the grant of one wallet changes the total by the difference. *)
LEMMA UnitsChange ==
  ASSUME NEW f \in [Minters -> 0..MaxPerAddress],
         NEW g \in [Minters -> 0..MaxPerAddress],
         NEW m \in Minters,
         \A n \in Minters : n # m => g[n] = f[n]
  PROVE  /\ Cardinality(Units(g)) = Cardinality(Units(f)) - f[m] + g[m]
         /\ Cardinality(Units(f)) \in Nat
         /\ Cardinality(Units(f)) >= f[m]
<1> DEFINE restf == {u \in Units(f) : u[1] # m}
           restg == {u \in Units(g) : u[1] # m}
<1>1. Cardinality(Units(f)) = Cardinality(restf) + f[m] /\ Cardinality(restf) \in Nat
  BY UnitsSplit
<1>2. Cardinality(Units(g)) = Cardinality(restg) + g[m]
  BY UnitsSplit
<1>3. restf = restg
  BY DEF Units
<1>4. f[m] \in Nat /\ g[m] \in Nat
  BY CoreCatsAssumption
<1> HIDE DEF restf, restg
<1> QED
  BY <1>1, <1>2, <1>3, <1>4

-----------------------------------------------------------------------------
(* The reservation of every wallet, as a grant. *)
Granted == [m \in Minters |-> pendingCommit[m].quantity]

LEMMA GrantedType ==
  ASSUME TypeOK
  PROVE  /\ Granted \in [Minters -> 0..MaxPerAddress]
         /\ Units(Granted) = ReservedUnits
  BY DEF TypeOK, Granted, Units, ReservedUnits

LEMMA InitIInv == Init => IInv
<1> SUFFICES ASSUME Init PROVE IInv
  OBVIOUS
<1> USE CoreCatsAssumption
<1>1. TypeOK
  BY DEF Init, TypeOK, NoCommit, NoCall, Slots, TokenIds
<1>2. ReservedUnits = {}
  BY DEF Init, ReservedUnits, Quantities, NoCommit
<1>3. ReservationsBalance
  BY <1>2, FS_EmptySet DEF Init, ReservationsBalance, NoCommit
<1>4. WalletCapHolds
  BY DEF Init, WalletCapHolds
<1>5. CallConsistent /\ CommitShape
  BY DEF Init, CallConsistent, CommitShape, HasCommit, NoCommit
<1>6. Idle /\ Drawn = 0 /\ Unassigned = TokenIds
  BY DEF Init, Idle, NoCall, Drawn, Unassigned, TokenIds
<1>7. SlotsHoldUnassigned
  <2>1. \A i \in 0..(MaxSupply - Drawn - 1) : SlotValue(i) = i
    BY <1>6 DEF Init, SlotValue, Slots
  <2>2. {SlotValue(i) + 1 : i \in 0..(MaxSupply - Drawn - 1)} = TokenIds
    <3>1. ASSUME NEW t \in TokenIds
          PROVE  \E i \in 0..(MaxSupply - Drawn - 1) : t = SlotValue(i) + 1
      <4>1. t - 1 \in 0..(MaxSupply - Drawn - 1)
        BY <1>6 DEF TokenIds
      <4> QED
        BY <4>1, <2>1 DEF TokenIds
    <3> QED
      BY <3>1, <2>1, <1>6 DEF TokenIds
  <2> QED
    BY <1>6, <2>1, <2>2 DEF SlotsHoldUnassigned
<1>8. TokensCounted
  <2>1. \A m \in Minters : MintedBy(m) = {} /\ Outstanding(m) = 0
    BY DEF Init, MintedBy, Outstanding, NoCall
  <2>2. TokenIds \ Unassigned = {}
    BY <1>6
  <2> QED
    BY <1>6, <2>1, <2>2, FS_EmptySet DEF Init, TokensCounted
<1> QED
  BY <1>1, <1>3, <1>4, <1>5, <1>7, <1>8 DEF IInv

-----------------------------------------------------------------------------
(* A step that changes the reservation of one wallet moves the total with  *)
(* it, and the total was at least that reservation.                        *)
LEMMA ReservedUnitsChange ==
  ASSUME TypeOK, NEW m \in Minters, NEW c,
         c \in [quantity : 0..MaxPerAddress, finalizeBlock : Nat, expiryBlock : Nat],
         pendingCommit' = [pendingCommit EXCEPT ![m] = c]
  PROVE  /\ Cardinality(ReservedUnits') =
                Cardinality(ReservedUnits) - pendingCommit[m].quantity + c.quantity
         /\ Cardinality(ReservedUnits) \in Nat
         /\ Cardinality(ReservedUnits) >= pendingCommit[m].quantity
<1> DEFINE g == [n \in Minters |-> pendingCommit'[n].quantity]
<1>1. Granted \in [Minters -> 0..MaxPerAddress] /\ Units(Granted) = ReservedUnits
  BY GrantedType
<1>2. g \in [Minters -> 0..MaxPerAddress]
  BY DEF TypeOK
<1>3. Units(g) = ReservedUnits'
  BY DEF Units, ReservedUnits
<1>4. \A n \in Minters : n # m => g[n] = Granted[n]
  BY DEF Granted, TypeOK
<1>5. g[m] = c.quantity /\ Granted[m] = pendingCommit[m].quantity
  BY DEF Granted, TypeOK
<1> HIDE DEF g
<1>6. /\ Cardinality(Units(g)) = Cardinality(Units(Granted)) - Granted[m] + g[m]
      /\ Cardinality(Units(Granted)) \in Nat
      /\ Cardinality(Units(Granted)) >= Granted[m]
  BY <1>1, <1>2, <1>4, UnitsChange
<1> QED
  BY <1>1, <1>3, <1>5, <1>6

(* Only a draw touches the matrix and the assignments. *)
LEMMA SlotsUntouched ==
  ASSUME SlotsHoldUnassigned, UNCHANGED <<tokenMatrix, assignedTo>>, Drawn' = Drawn
  PROVE  SlotsHoldUnassigned'
  BY DEF SlotsHoldUnassigned, Unassigned, SlotValue

LEMMA CommitMintKeepsIInv ==
  ASSUME IInv, NEW m \in Minters, NEW q \in Quantities, CommitMint(m, q)
  PROVE  IInv'
<1> USE CoreCatsAssumption
<1> DEFINE c == [quantity |-> q,
                 finalizeBlock |-> block + FinalizeDelayBlocks,
                 expiryBlock |-> block + FinalizeDelayBlocks + FinalizeWindowBlocks]
           old == pendingCommit[m].quantity
<1>1. TypeOK /\ q \in 1..MaxPerAddress /\ block \in Nat
  BY DEF IInv, Quantities, TypeOK
<1>2. c \in [quantity : 0..MaxPerAddress, finalizeBlock : Nat, expiryBlock : Nat]
  BY <1>1
<1>3. pendingCommit' = [pendingCommit EXCEPT ![m] = c]
  BY DEF CommitMint
<1>4. old \in 0..MaxPerAddress /\ Reclaimed(m) = old
  BY <1>1 DEF CommitMint, TypeOK, Reclaimed, HasCommit, Expired
<1>5. /\ Cardinality(ReservedUnits') = Cardinality(ReservedUnits) - old + q
      /\ Cardinality(ReservedUnits) \in Nat
      /\ Cardinality(ReservedUnits) >= old
  <2>1. c.quantity = q
    OBVIOUS
  <2> HIDE DEF c
  <2> QED
    BY <1>1, <1>2, <1>3, <2>1, ReservedUnitsChange
<1>6. /\ reservedPerAddress[m] = old
      /\ reservedSupply = Cardinality(ReservedUnits)
      /\ mintedPerAddress[m] + q <= MaxPerAddress
      /\ mintedCount + (reservedSupply - old) + q <= MaxSupply
  BY <1>1, <1>4 DEF CommitMint, WithinSupply, WithinWalletCap, IInv, ReservationsBalance, TypeOK
<1>7. /\ reservedPerAddress' = [reservedPerAddress EXCEPT ![m] = q]
      /\ reservedSupply' = reservedSupply - old + q
  <2>1. reservedPerAddress[m] - Reclaimed(m) + q = q
    BY <1>1, <1>4, <1>6
  <2> HIDE DEF old
  <2> QED
    BY <1>4, <2>1 DEF CommitMint
<1>8. UNCHANGED <<block, mintedCount, mintedPerAddress, tokenMatrix, call, assignedTo>>
  BY DEF CommitMint
<1>9. TypeOK'
  BY <1>1, <1>2, <1>3, <1>4, <1>5, <1>6, <1>7, <1>8 DEF TypeOK
<1>10. ReservationsBalance'
  <2>1. \A n \in Minters : reservedPerAddress'[n] = pendingCommit'[n].quantity
    BY <1>1, <1>3, <1>7 DEF IInv, ReservationsBalance, TypeOK
  <2>2. reservedSupply' = Cardinality(ReservedUnits')
    BY <1>4, <1>5, <1>6, <1>7
  <2>3. mintedCount' + reservedSupply' <= MaxSupply
    BY <1>1, <1>4, <1>6, <1>7, <1>8 DEF TypeOK
  <2> QED
    BY <2>1, <2>2, <2>3 DEF ReservationsBalance
<1>11. WalletCapHolds'
  BY <1>1, <1>6, <1>7, <1>8 DEF IInv, WalletCapHolds, TypeOK
<1>12. CallConsistent'
  BY <1>8 DEF IInv, CallConsistent, CommitMint, Idle
<1>13. CommitShape'
  BY <1>1, <1>3 DEF IInv, CommitShape, HasCommit, TypeOK
<1>14. SlotsHoldUnassigned' /\ TokensCounted'
  <2>1. Drawn' = Drawn /\ Unassigned' = Unassigned
    BY <1>8 DEF Drawn, Idle, Unassigned
  <2>2. SlotsHoldUnassigned'
    BY <1>8, <2>1, SlotsUntouched DEF IInv
  <2>3. TokensCounted'
    BY <1>8, <2>1 DEF IInv, TokensCounted, MintedBy, Outstanding
  <2> QED
    BY <2>2, <2>3
<1> QED
  BY <1>9, <1>10, <1>11, <1>12, <1>13, <1>14 DEF IInv

LEMMA ClearExpiredCommitKeepsIInv ==
  ASSUME IInv, NEW m \in Minters, ClearExpiredCommit(m)
  PROVE  IInv'
<1> USE CoreCatsAssumption
<1> DEFINE old == pendingCommit[m].quantity
<1>1. TypeOK /\ old \in 0..MaxPerAddress
  BY DEF IInv, TypeOK
<1>2. NoCommit \in [quantity : 0..MaxPerAddress, finalizeBlock : Nat, expiryBlock : Nat]
  BY DEF NoCommit
<1>3. pendingCommit' = [pendingCommit EXCEPT ![m] = NoCommit] /\ NoCommit.quantity = 0
  BY DEF ClearExpiredCommit, NoCommit
<1>4. /\ Cardinality(ReservedUnits') = Cardinality(ReservedUnits) - old + 0
      /\ Cardinality(ReservedUnits) \in Nat
      /\ Cardinality(ReservedUnits) >= old
  BY <1>1, <1>2, <1>3, ReservedUnitsChange
<1>5. /\ reservedPerAddress[m] = old
      /\ reservedSupply = Cardinality(ReservedUnits)
      /\ mintedCount + reservedSupply <= MaxSupply
  BY DEF IInv, ReservationsBalance
<1>6. /\ reservedPerAddress' = [reservedPerAddress EXCEPT ![m] = 0]
      /\ reservedSupply' = reservedSupply - old
  <2>1. reservedPerAddress[m] - old = 0
    BY <1>1, <1>5
  <2> QED
    BY <2>1 DEF ClearExpiredCommit
<1>7. UNCHANGED <<block, mintedCount, mintedPerAddress, tokenMatrix, call, assignedTo>>
  BY DEF ClearExpiredCommit
<1>8. TypeOK'
  BY <1>1, <1>2, <1>3, <1>4, <1>5, <1>6, <1>7 DEF TypeOK
<1>9. ReservationsBalance'
  BY <1>1, <1>3, <1>4, <1>5, <1>6, <1>7 DEF IInv, ReservationsBalance, TypeOK
<1>10. WalletCapHolds'
  BY <1>1, <1>6, <1>7 DEF IInv, WalletCapHolds, TypeOK
<1>11. CallConsistent'
  BY <1>7 DEF IInv, CallConsistent, ClearExpiredCommit, Idle
<1>12. CommitShape'
  BY <1>1, <1>3 DEF IInv, CommitShape, HasCommit, TypeOK
<1>13. Drawn' = Drawn /\ Unassigned' = Unassigned
  BY <1>7 DEF Drawn, Idle, Unassigned
<1>14. SlotsHoldUnassigned'
  BY <1>7, <1>13, SlotsUntouched DEF IInv
<1>15. TokensCounted'
  BY <1>7, <1>13 DEF IInv, TokensCounted, MintedBy, Outstanding
<1> QED
  BY <1>8, <1>9, <1>10, <1>11, <1>12, <1>14, <1>15 DEF IInv

LEMMA FinalizeMintKeepsIInv ==
  ASSUME IInv, NEW m \in Minters, FinalizeMint(m)
  PROVE  IInv'
<1> USE CoreCatsAssumption
<1> DEFINE q == pendingCommit[m].quantity
<1>1. TypeOK /\ q \in 1..MaxPerAddress
  BY DEF IInv, TypeOK, FinalizeMint, CanFinalize, HasCommit
<1>2. NoCommit \in [quantity : 0..MaxPerAddress, finalizeBlock : Nat, expiryBlock : Nat]
  BY DEF NoCommit
<1>3. pendingCommit' = [pendingCommit EXCEPT ![m] = NoCommit] /\ NoCommit.quantity = 0
  BY DEF FinalizeMint, NoCommit
<1>4. /\ Cardinality(ReservedUnits') = Cardinality(ReservedUnits) - q + 0
      /\ Cardinality(ReservedUnits) \in Nat
      /\ Cardinality(ReservedUnits) >= q
  BY <1>1, <1>2, <1>3, ReservedUnitsChange
<1>5. /\ reservedPerAddress[m] = q
      /\ reservedSupply = Cardinality(ReservedUnits)
      /\ mintedCount + reservedSupply <= MaxSupply
      /\ mintedPerAddress[m] + q <= MaxPerAddress
  BY DEF IInv, ReservationsBalance, WalletCapHolds
<1>6. /\ reservedPerAddress' = [reservedPerAddress EXCEPT ![m] = 0]
      /\ reservedSupply' = reservedSupply - q
      /\ mintedPerAddress' = [mintedPerAddress EXCEPT ![m] = @ + q]
      /\ mintedCount' = mintedCount + q
      /\ call' = [minter |-> m, quantity |-> q, mintedBefore |-> mintedCount, i |-> 0]
  <2>1. reservedPerAddress[m] - q = 0
    BY <1>1, <1>5
  <2> QED
    BY <2>1 DEF FinalizeMint
<1>7. UNCHANGED <<block, tokenMatrix, assignedTo>> /\ Idle /\ ~Idle'
  BY <1>6 DEF FinalizeMint, Idle
<1>8. TypeOK'
  BY <1>1, <1>2, <1>3, <1>4, <1>5, <1>6, <1>7 DEF TypeOK
<1>9. ReservationsBalance'
  BY <1>1, <1>3, <1>4, <1>5, <1>6, <1>7 DEF IInv, ReservationsBalance, TypeOK
<1>10. WalletCapHolds'
  BY <1>1, <1>5, <1>6, <1>7 DEF IInv, WalletCapHolds, TypeOK
<1>11. CallConsistent'
  BY <1>1, <1>3, <1>6 DEF CallConsistent, TypeOK
<1>12. CommitShape'
  BY <1>1, <1>3 DEF IInv, CommitShape, HasCommit, TypeOK
<1>13. Drawn' = Drawn /\ Unassigned' = Unassigned
  BY <1>1, <1>6, <1>7 DEF Drawn, Unassigned, TypeOK
<1>14. SlotsHoldUnassigned'
  BY <1>7, <1>13, SlotsUntouched DEF IInv
<1>15. TokensCounted'
  <2>1. ASSUME NEW n \in Minters
        PROVE  Cardinality(MintedBy(n))' = (mintedPerAddress[n] - Outstanding(n))'
    <3>1. MintedBy(n)' = MintedBy(n) /\ Outstanding(n) = 0
      BY <1>7 DEF MintedBy, Outstanding, Idle
    <3>2. Outstanding(n)' = IF n = m THEN q ELSE 0
      BY <1>1, <1>6 DEF Outstanding
    <3>3. Cardinality(MintedBy(n)) = mintedPerAddress[n] - Outstanding(n)
      BY DEF IInv, TokensCounted
    <3> QED
      BY <1>1, <1>6, <3>1, <3>2, <3>3 DEF TypeOK
  <2> QED
    BY <1>13, <2>1 DEF IInv, TokensCounted
<1> QED
  BY <1>8, <1>9, <1>10, <1>11, <1>12, <1>14, <1>15 DEF IInv

LEMMA NextBlockKeepsIInv ==
  ASSUME IInv, NextBlock
  PROVE  IInv'
<1> USE CoreCatsAssumption
<1>1. UNCHANGED <<accountVars, tokenMatrix, call, assignedTo>> /\ block' \in 0..MaxBlock
  BY DEF IInv, TypeOK, NextBlock
<1>2. Drawn' = Drawn /\ Unassigned' = Unassigned /\ ReservedUnits' = ReservedUnits
  BY <1>1 DEF Drawn, Idle, Unassigned, ReservedUnits, accountVars
<1>3. TypeOK' /\ ReservationsBalance' /\ WalletCapHolds'
  BY <1>1, <1>2 DEF IInv, TypeOK, ReservationsBalance, WalletCapHolds, accountVars
<1>4. CallConsistent' /\ CommitShape'
  BY <1>1 DEF IInv, CallConsistent, CommitShape, HasCommit, accountVars
<1>5. SlotsHoldUnassigned'
  BY <1>1, <1>2, SlotsUntouched DEF IInv
<1>6. TokensCounted'
  BY <1>1, <1>2 DEF IInv, TokensCounted, MintedBy, Outstanding, accountVars
<1> QED
  BY <1>3, <1>4, <1>5, <1>6 DEF IInv

(* Where a draw takes place: at least one slot is left, and the call and   *)
(* the number of draws move on by one.                                     *)
LEMMA DrawFrame ==
  ASSUME IInv, DrawToken
  PROVE  /\ call.minter \in Minters /\ ~Idle
         /\ Drawn \in 0..(MaxSupply - 1) /\ Drawn = call.mintedBefore + call.i
         /\ Drawn' = Drawn + 1
         /\ call.i + 1 <= call.quantity /\ call.mintedBefore + call.quantity = mintedCount
         /\ pendingCommit[call.minter] = NoCommit
         /\ IF LastTurn THEN call' = NoCall ELSE call' = [call EXCEPT !.i = call.i + 1]
         /\ LastTurn <=> call.i + 1 = call.quantity
<1> USE CoreCatsAssumption
<1>1. ~Idle /\ call.minter # NoMinter
  BY DEF DrawToken, Idle
<1>2. TypeOK /\ call.minter \in Minters /\ call.i < call.quantity
      /\ call.mintedBefore + call.quantity = mintedCount
      /\ pendingCommit[call.minter] = NoCommit
  BY <1>1 DEF IInv, CallConsistent, NoCall
<1>3. call.i \in Nat /\ call.quantity \in Nat /\ call.mintedBefore \in Nat
      /\ mintedCount \in 0..MaxSupply
  BY <1>2 DEF TypeOK
<1>4. Drawn = call.mintedBefore + call.i
  BY <1>1 DEF Drawn
<1>5. IF LastTurn THEN call' = NoCall ELSE call' = [call EXCEPT !.i = call.i + 1]
  BY DEF DrawToken
<1>6. mintedCount' = mintedCount
  BY DEF DrawToken, accountVars
<1>7. Drawn' = Drawn + 1
  <2>1. CASE LastTurn
    <3>1. Idle'
      BY <2>1, <1>5 DEF Idle, NoCall
    <3> QED
      BY <2>1, <3>1, <1>2, <1>3, <1>4, <1>6 DEF Drawn, LastTurn
  <2>2. CASE ~LastTurn
    <3>1. /\ call'.minter = call.minter
          /\ call'.mintedBefore = call.mintedBefore
          /\ call'.i = call.i + 1
      BY <2>2, <1>2, <1>5 DEF TypeOK
    <3>2. ~Idle'
      BY <3>1, <1>1 DEF Idle
    <3> QED
      BY <3>1, <3>2, <1>3, <1>4 DEF Drawn
  <2> QED
    BY <2>1, <2>2
<1> QED
  BY <1>1, <1>2, <1>3, <1>4, <1>5, <1>7 DEF LastTurn

(* The heart of the lazy shuffle: a draw takes exactly the drawn id out of *)
(* the live slots, because the value moved from the last slot is never 0.  *)
LEMMA DrawKeepsSlots ==
  ASSUME IInv, DrawToken
  PROVE  /\ SlotsHoldUnassigned'
         /\ tokenMatrix' \in [Slots -> Slots]
         /\ \E t \in Unassigned :
               /\ assignedTo' = [assignedTo EXCEPT ![t] = call.minter]
               /\ Unassigned' = Unassigned \ {t}
<1> USE CoreCatsAssumption
<1> DEFINE last == MaxSupply - (call.mintedBefore + call.i) - 1
<1>1. /\ last \in Slots /\ last = MaxSupply - Drawn - 1
      /\ last - 1 = MaxSupply - Drawn' - 1
      /\ call.minter \in Minters /\ NoMinter # call.minter
  BY DrawFrame DEF Slots
<1>2. PICK d \in 0..last :
        /\ tokenMatrix' = MatrixAfterDraw(d, last)
        /\ assignedTo' = [assignedTo EXCEPT ![DrawnTokenId(d)] = call.minter]
  BY DEF DrawToken
<1>3. tokenMatrix \in [Slots -> Slots] /\ assignedTo \in [TokenIds -> Minters \cup {NoMinter}]
  BY DEF IInv, TypeOK
<1>4. /\ {SlotValue(i) + 1 : i \in 0..last} = Unassigned
      /\ \A i, j \in 0..last : SlotValue(i) = SlotValue(j) => i = j
  BY <1>1 DEF IInv, SlotsHoldUnassigned
<1> DEFINE t == SlotValue(d) + 1
<1> HIDE DEF last
<1>5. t \in Unassigned
  BY <1>4
<1>6. Unassigned' = Unassigned \ {t} /\ assignedTo' = [assignedTo EXCEPT ![t] = call.minter]
  BY <1>1, <1>2, <1>3, <1>5 DEF Unassigned, DrawnTokenId
<1>7. \A i \in 0..last : i \in Slots
  BY <1>1 DEF Slots
<1>8. \A i \in Slots : SlotValue(i) \in Slots
  BY <1>3 DEF SlotValue, Slots
<1>9. tokenMatrix' \in [Slots -> Slots]
  <2>1. 0 \in Slots
    BY DEF Slots
  <2>2. \A i \in Slots : tokenMatrix[i] \in Slots
    BY <1>3
  <2> QED
    BY <1>1, <1>2, <1>8, <2>1, <2>2 DEF MatrixAfterDraw
<1>10. ASSUME NEW i \in 0..(last - 1)
       PROVE  SlotValue(i)' = IF i = d THEN SlotValue(last) ELSE SlotValue(i)
  <2>1. i \in Slots /\ i # last /\ last # 0
    BY <1>1 DEF Slots
  <2>2. tokenMatrix'[i] = IF i = d THEN SlotValue(last) ELSE tokenMatrix[i]
    BY <1>2, <2>1 DEF MatrixAfterDraw
  <2>3. SlotValue(last) # 0
    BY <2>1 DEF SlotValue
  <2> QED
    BY <2>2, <2>3 DEF SlotValue
<1>11. \A i, j \in 0..(last - 1) : SlotValue(i)' = SlotValue(j)' => i = j
  <2> SUFFICES ASSUME NEW i \in 0..(last - 1), NEW j \in 0..(last - 1),
                      SlotValue(i)' = SlotValue(j)'
               PROVE  i = j
    OBVIOUS
  <2>1. i \in 0..last /\ j \in 0..last /\ last \in 0..last /\ i # last /\ j # last
    BY <1>1 DEF Slots
  <2> QED
    BY <1>4, <1>10, <2>1
<1>12. {SlotValue(i)' + 1 : i \in 0..(last - 1)} = Unassigned \ {t}
  <2>1. ASSUME NEW i \in 0..(last - 1)
        PROVE  SlotValue(i)' + 1 \in Unassigned \ {t}
    <3>1. i \in 0..last /\ last \in 0..last /\ i # last
      BY <1>1 DEF Slots
    <3>2. CASE i = d
      <4>1. SlotValue(last) # SlotValue(d)
        BY <1>4, <3>1, <3>2
      <4> QED
        BY <1>4, <1>7, <1>8, <1>10, <3>1, <3>2, <4>1 DEF Slots
    <3>3. CASE i # d
      <4>1. SlotValue(i) # SlotValue(d)
        BY <1>4, <3>1, <3>3
      <4> QED
        BY <1>4, <1>7, <1>8, <1>10, <3>1, <3>3, <4>1 DEF Slots
    <3> QED
      BY <3>2, <3>3
  <2>2. ASSUME NEW u \in Unassigned \ {t}
        PROVE  \E i \in 0..(last - 1) : SlotValue(i)' + 1 = u
    <3>1. PICK j \in 0..last : u = SlotValue(j) + 1
      BY <1>4
    <3>2. j # d
      BY <3>1
    <3>3. CASE j = last
      <4>1. d \in 0..(last - 1)
        BY <1>1, <3>2, <3>3 DEF Slots
      <4> QED
        BY <1>10, <3>1, <3>3, <4>1
    <3>4. CASE j # last
      <4>1. j \in 0..(last - 1)
        BY <1>1, <3>4 DEF Slots
      <4> QED
        BY <1>10, <3>1, <3>2, <4>1
    <3> QED
      BY <3>3, <3>4
  <2>3. {SlotValue(i)' + 1 : i \in 0..(last - 1)} \subseteq Unassigned \ {t}
    BY <2>1
  <2>4. Unassigned \ {t} \subseteq {SlotValue(i)' + 1 : i \in 0..(last - 1)}
    BY <2>2
  <2> QED
    BY <2>3, <2>4, Zenon
<1>13. SlotsHoldUnassigned'
  BY <1>1, <1>6, <1>11, <1>12 DEF SlotsHoldUnassigned
<1> QED
  BY <1>5, <1>6, <1>9, <1>13

LEMMA TokenIdsFinite ==
  /\ IsFiniteSet(TokenIds) /\ Cardinality(TokenIds) = MaxSupply
  /\ IsFiniteSet(Unassigned)
  /\ \A m : IsFiniteSet(MintedBy(m))
<1>1. IsFiniteSet(TokenIds) /\ Cardinality(TokenIds) = MaxSupply
  BY CoreCatsAssumption, FS_Interval DEF TokenIds
<1>2. Unassigned \in SUBSET TokenIds /\ \A m : MintedBy(m) \in SUBSET TokenIds
  BY DEF Unassigned, MintedBy
<1> QED
  BY <1>1, <1>2, FS_Subset

LEMMA DrawTokenKeepsIInv ==
  ASSUME IInv, DrawToken
  PROVE  IInv'
<1> USE CoreCatsAssumption
<1>1. PICK t \in Unassigned :
        /\ assignedTo' = [assignedTo EXCEPT ![t] = call.minter]
        /\ Unassigned' = Unassigned \ {t}
  BY DrawKeepsSlots
<1>2. SlotsHoldUnassigned' /\ tokenMatrix' \in [Slots -> Slots]
  BY DrawKeepsSlots
<1>3. /\ call.minter \in Minters /\ Drawn' = Drawn + 1
      /\ call.i + 1 <= call.quantity /\ call.mintedBefore + call.quantity = mintedCount
      /\ pendingCommit[call.minter] = NoCommit
      /\ IF LastTurn THEN call' = NoCall ELSE call' = [call EXCEPT !.i = call.i + 1]
      /\ LastTurn <=> call.i + 1 = call.quantity
  BY DrawFrame
<1>4. TypeOK /\ UNCHANGED <<block, accountVars>>
  BY DEF IInv, DrawToken
<1>5. NoCall.minter = NoMinter
  BY DEF NoCall
<1>6. call.i \in Nat /\ call.quantity \in 0..MaxPerAddress /\ call.i + 1 \in 0..MaxPerAddress
  BY <1>3, <1>4 DEF TypeOK
<1>7. call' \in [minter : Minters \cup {NoMinter}, quantity : 0..MaxPerAddress,
                mintedBefore : 0..MaxSupply, i : 0..MaxPerAddress]
  BY <1>3, <1>4, <1>6 DEF TypeOK, NoCall
<1>8. TypeOK'
  <2>1. assignedTo' \in [TokenIds -> Minters \cup {NoMinter}]
    BY <1>1, <1>3, <1>4 DEF TypeOK
  <2> QED
    BY <1>2, <1>4, <1>7, <2>1 DEF TypeOK, accountVars
<1>9. ReservationsBalance' /\ WalletCapHolds'
  BY <1>4 DEF IInv, ReservationsBalance, WalletCapHolds, ReservedUnits, accountVars
<1>10. CallConsistent'
  <2>1. CASE LastTurn
    BY <1>3, <2>1 DEF CallConsistent
  <2>2. CASE ~LastTurn
    <3>1. /\ call'.minter = call.minter /\ call'.quantity = call.quantity
          /\ call'.mintedBefore = call.mintedBefore /\ call'.i = call.i + 1
      BY <1>3, <1>4, <2>2 DEF TypeOK
    <3> QED
      BY <1>3, <1>4, <1>6, <2>2, <3>1 DEF CallConsistent, accountVars
  <2> QED
    BY <2>1, <2>2
<1>11. CommitShape'
  BY <1>4 DEF IInv, CommitShape, HasCommit, accountVars
<1>w. PICK w \in Minters : w = call.minter
  BY <1>3
<1>12. Outstanding(w)' = Outstanding(w) - 1
  <2>1. CASE LastTurn
    BY <1>w, <1>3, <1>4, <1>5, <1>6, <2>1 DEF Outstanding
  <2>2. CASE ~LastTurn
    <3>1. call'.minter = call.minter /\ call'.quantity = call.quantity /\ call'.i = call.i + 1
      BY <1>3, <1>4, <2>2 DEF TypeOK
    <3> QED
      BY <1>w, <1>6, <3>1 DEF Outstanding
  <2> QED
    BY <2>1, <2>2
<1>13. \A m \in Minters : m # w => Outstanding(m)' = 0 /\ Outstanding(m) = 0
  BY <1>w, <1>3, <1>4, <1>5 DEF Outstanding, TypeOK
<1>14. t \in TokenIds /\ assignedTo[t] = NoMinter
  BY DEF Unassigned
<1>15. MintedBy(w)' = MintedBy(w) \cup {t} /\ t \notin MintedBy(w)
  BY <1>w, <1>1, <1>3, <1>4, <1>14 DEF MintedBy, TypeOK
<1>16. \A m \in Minters : m # w => MintedBy(m)' = MintedBy(m)
  BY <1>w, <1>1, <1>3, <1>4, <1>14 DEF MintedBy, TypeOK
<1>17. Cardinality(MintedBy(w)') = Cardinality(MintedBy(w)) + 1
  BY <1>15, TokenIdsFinite, FS_AddElement
<1>18. TokensCounted'
  <2>1. ASSUME NEW m \in Minters
        PROVE  Cardinality(MintedBy(m))' = (mintedPerAddress[m] - Outstanding(m))'
    <3>1. Cardinality(MintedBy(m)) = mintedPerAddress[m] - Outstanding(m)
      BY DEF IInv, TokensCounted
    <3>2. mintedPerAddress'[m] = mintedPerAddress[m] /\ mintedPerAddress[m] \in Nat
      BY <1>4 DEF accountVars, TypeOK
    <3>3. Outstanding(m) \in Int
      BY <1>w, <1>4 DEF Outstanding, TypeOK
    <3>4. CASE m = w
      BY <1>12, <1>17, <3>1, <3>2, <3>3, <3>4
    <3>5. CASE m # w
      BY <1>13, <1>16, <3>1, <3>2, <3>5
    <3> QED
      BY <3>4, <3>5
  <2>2. TokenIds \ Unassigned' = (TokenIds \ Unassigned) \cup {t} /\ t \notin TokenIds \ Unassigned
    BY <1>1, <1>14
  <2>3. IsFiniteSet(TokenIds \ Unassigned)
    BY TokenIdsFinite, FS_Difference
  <2>4. Cardinality(TokenIds \ Unassigned') = Cardinality(TokenIds \ Unassigned) + 1
    BY <2>2, <2>3, FS_AddElement
  <2>5. Cardinality(TokenIds \ Unassigned') = Drawn'
    BY <1>3, <2>4 DEF IInv, TokensCounted
  <2> QED
    BY <2>1, <2>5 DEF TokensCounted
<1> QED
  BY <1>2, <1>8, <1>9, <1>10, <1>11, <1>18 DEF IInv

-----------------------------------------------------------------------------
LEMMA StepKeepsIInv == IInv /\ [Next]_vars => IInv'
<1> SUFFICES ASSUME IInv, [Next]_vars PROVE IInv'
  OBVIOUS
<1>1. CASE NextBlock
  BY <1>1, NextBlockKeepsIInv
<1>2. CASE DrawToken
  BY <1>2, DrawTokenKeepsIInv
<1>3. ASSUME NEW m \in Minters, NEW q \in Quantities, CommitMint(m, q)
      PROVE  IInv'
  BY <1>3, CommitMintKeepsIInv
<1>4. ASSUME NEW m \in Minters, FinalizeMint(m)
      PROVE  IInv'
  BY <1>4, FinalizeMintKeepsIInv
<1>5. ASSUME NEW m \in Minters, ClearExpiredCommit(m)
      PROVE  IInv'
  BY <1>5, ClearExpiredCommitKeepsIInv
<1>6. CASE UNCHANGED vars
  BY <1>6 DEF vars, accountVars, IInv, TypeOK, ReservationsBalance, ReservedUnits,
     WalletCapHolds, CallConsistent, CommitShape, HasCommit, SlotsHoldUnassigned,
     SlotValue, TokensCounted, MintedBy, Outstanding, Unassigned, Drawn, Idle
<1> QED
  BY <1>1, <1>2, <1>3, <1>4, <1>5, <1>6 DEF Next

(* The inductive invariant holds in every reachable state. *)
THEOREM InductiveInvariant == Spec => []IInv
<1>1. Init => IInv
  BY InitIInv
<1>2. IInv /\ [Next]_vars => IInv'
  BY StepKeepsIInv
<1> QED
  BY <1>1, <1>2, PTL DEF Spec

(* Every counter stays in its range: no checked subtraction of the         *)
(* contract can revert and no quantity exceeds its width.                  *)
THEOREM TypeCorrect == Spec => []TypeOK
  BY InductiveInvariant, PTL DEF IInv

(* reservedSupply and reservedPerAddress are what the pending commits say, *)
(* and minted plus reserved never exceeds MAX_SUPPLY.                      *)
THEOREM ReservationsAlwaysBalance == Spec => []ReservationsBalance
  BY InductiveInvariant, PTL DEF IInv

(* No wallet gets past MAX_PER_ADDRESS, reservations included. *)
THEOREM WalletCapAlwaysHolds == Spec => []WalletCapHolds
  BY InductiveInvariant, PTL DEF IInv

(* The lazy shuffle of _drawRandomTokenId never repeats or loses an id. *)
THEOREM DrawsNeverRepeat == Spec => []SlotsHoldUnassigned
  BY InductiveInvariant, PTL DEF IInv

(* Between transactions the mint counters equal the assigned tokens. *)
THEOREM CountersAlwaysMatch == Spec => []CountersMatchTokens
<1>1. IInv => CountersMatchTokens
  <2> SUFFICES ASSUME IInv, Idle PROVE CountersMatchTokens
    BY DEF CountersMatchTokens
  <2>1. \A m \in Minters : Outstanding(m) = 0
    BY CoreCatsAssumption DEF Idle, Outstanding
  <2>2. mintedCount = Drawn
    BY DEF Drawn
  <2>3. \A m \in Minters : mintedPerAddress[m] \in Nat
    BY CoreCatsAssumption DEF IInv, TypeOK
  <2> QED
    BY <2>1, <2>2, <2>3 DEF IInv, TokensCounted, CountersMatchTokens
<1> QED
  BY <1>1, InductiveInvariant, PTL

(* Whatever the delay and the window, as long as blockhash() reaches back  *)
(* over the window, no commit is ever stuck and no block lets finalizeMint *)
(* and clearExpiredCommit both succeed.                                    *)
THEOREM PhasesAlwaysPartition == Spec => []PhasesPartitionTime
<1>1. IInv => PhasesPartitionTime
  <2> SUFFICES ASSUME IInv, NEW m \in Minters, HasCommit(m)
               PROVE  \/ block <= pendingCommit[m].finalizeBlock /\ ~CanFinalize(m) /\ ~Expired(m)
                      \/ block > pendingCommit[m].finalizeBlock /\ (CanFinalize(m) <=> ~Expired(m))
    BY DEF PhasesPartitionTime
  <2>1. /\ pendingCommit[m].finalizeBlock \in Nat /\ block \in Nat
        /\ pendingCommit[m].expiryBlock = pendingCommit[m].finalizeBlock + FinalizeWindowBlocks
    BY CoreCatsAssumption DEF IInv, TypeOK, CommitShape
  <2> QED
    BY <2>1, CoreCatsAssumption DEF CanFinalize, Expired, BlockhashAvailable
<1> QED
  BY <1>1, InductiveInvariant, PTL

-----------------------------------------------------------------------------
(* CoreCats implements TokenLottery through Owed. *)

USE CoreCatsAssumption

LEMMA LotteryNames ==
  /\ Lottery!TokenIds = TokenIds
  /\ Lottery!Unclaimed = Unassigned
  /\ \A m : Lottery!MintedBy(m) = MintedBy(m)
  BY DEF Lottery!TokenIds, TokenIds, Lottery!Unclaimed, Unassigned,
         Lottery!MintedBy, MintedBy

(* The instance brings its own name for Cardinality. *)
LEMMA SameCardinality == \A S : Lottery!Cardinality(S) = Cardinality(S)
  BY DEF Lottery!Cardinality, Cardinality

LEMMA OwedWhenIdle ==
  ASSUME TypeOK, Idle
  PROVE  \A m \in Minters : Owed[m] = pendingCommit[m].quantity
  BY DEF Idle, Owed

LEMMA InitRefines == Init => Lottery!LotteryInit
<1> SUFFICES ASSUME Init PROVE Lottery!LotteryInit
  OBVIOUS
<1>1. assignedTo = [t \in Lottery!TokenIds |-> NoMinter]
  BY LotteryNames DEF Init
<1>2. Owed = [m \in Minters |-> 0]
  BY DEF Init, Owed, NoCall, NoCommit
<1> QED
  BY <1>1, <1>2 DEF Lottery!LotteryInit

LEMMA UnassignedLeft ==
  ASSUME IInv
  PROVE  Cardinality(Unassigned) = MaxSupply - Drawn
<1>1. Cardinality(TokenIds \ Unassigned) = Cardinality(TokenIds) - Cardinality(TokenIds \cap Unassigned)
  BY TokenIdsFinite, FS_Difference
<1>2. TokenIds \cap Unassigned = Unassigned
  BY DEF Unassigned
<1>3. Cardinality(Unassigned) \in Nat
  BY TokenIdsFinite, FS_CardinalityType
<1> QED
  BY <1>1, <1>2, <1>3, TokenIdsFinite DEF IInv, TokensCounted

(* A commit within the limits of the contract is a promise the pool keeps. *)
LEMMA CommitRefines ==
  ASSUME IInv, NEW m \in Minters, NEW q \in Quantities, CommitMint(m, q)
  PROVE  Lottery!Promise(m, q)
<1>1. TypeOK /\ Idle /\ q \in 1..MaxPerAddress
  BY DEF IInv, CommitMint, Quantities
<1>2. /\ pendingCommit[m].quantity \in 0..MaxPerAddress
      /\ Reclaimed(m) = pendingCommit[m].quantity
      /\ reservedPerAddress[m] = pendingCommit[m].quantity
      /\ mintedPerAddress[m] \in Nat /\ mintedCount \in Nat /\ reservedSupply \in Nat
  BY <1>1 DEF IInv, CommitMint, TypeOK, Reclaimed, HasCommit, Expired, ReservationsBalance
<1>3. Cardinality(Lottery!MintedBy(m)) + q <= MaxPerAddress
  <2>1. Cardinality(MintedBy(m)) = mintedPerAddress[m] - 0
    BY <1>1 DEF IInv, TokensCounted, Outstanding, Idle
  <2> QED
    BY <1>1, <1>2, <2>1, LotteryNames DEF CommitMint, WithinWalletCap
<1>4. Cardinality(Lottery!PromisedTo(Minters \ {m})) + q <= Cardinality(Lottery!Unclaimed)
  <2> DEFINE rest == {u \in Units(Granted) : u[1] # m}
  <2>1. Granted \in [Minters -> 0..MaxPerAddress] /\ Units(Granted) = ReservedUnits
    BY <1>1, GrantedType
  <2>2. Cardinality(Units(Granted)) = Cardinality(rest) + Granted[m] /\ Cardinality(rest) \in Nat
    BY <2>1, UnitsSplit
  <2>3. Lottery!PromisedTo(Minters \ {m}) = rest
    BY <1>1, OwedWhenIdle DEF Lottery!PromisedTo, Units, Granted, Quantities
  <2>4. reservedSupply = Cardinality(rest) + pendingCommit[m].quantity
    BY <2>1, <2>2 DEF IInv, ReservationsBalance, Granted
  <2>5. Cardinality(Unassigned) = MaxSupply - mintedCount
    BY <1>1, UnassignedLeft DEF Drawn
  <2> HIDE DEF rest
  <2> QED
    BY <1>1, <1>2, <2>2, <2>3, <2>4, <2>5, LotteryNames DEF CommitMint, WithinSupply
<1>5. Owed' = [Owed EXCEPT ![m] = q]
  <2>1. Idle'
    BY <1>1 DEF CommitMint, Idle
  <2>2. \A n \in Minters : pendingCommit'[n].quantity = IF n = m THEN q ELSE pendingCommit[n].quantity
    BY <1>1 DEF CommitMint, TypeOK
  <2> QED
    BY <1>1, <2>1, <2>2 DEF Owed, Idle
<1>6. UNCHANGED assignedTo
  BY DEF CommitMint
<1> QED
  BY <1>3, <1>4, <1>5, <1>6, SameCardinality DEF Lottery!Promise

LEMMA ClearRefines ==
  ASSUME IInv, NEW m \in Minters, ClearExpiredCommit(m)
  PROVE  Lottery!Lapse(m)
<1>1. TypeOK /\ Idle /\ Idle' /\ UNCHANGED assignedTo
  BY DEF IInv, ClearExpiredCommit, Idle
<1>2. Owed[m] > 0
  <2>1. Owed[m] = pendingCommit[m].quantity
    BY <1>1, OwedWhenIdle
  <2> QED
    BY <2>1 DEF ClearExpiredCommit, Expired, HasCommit
<1>3. \A n \in Minters : pendingCommit'[n].quantity = IF n = m THEN 0 ELSE pendingCommit[n].quantity
  BY <1>1 DEF ClearExpiredCommit, TypeOK, NoCommit
<1>4. Owed' = [Owed EXCEPT ![m] = 0]
  BY <1>1, <1>3 DEF Owed, Idle
<1> QED
  BY <1>1, <1>2, <1>4 DEF Lottery!Lapse

(* Settling the books before the loop is not visible to the lottery. *)
LEMMA FinalizeStutters ==
  ASSUME IInv, NEW m \in Minters, FinalizeMint(m)
  PROVE  UNCHANGED <<assignedTo, Owed>>
<1>1. TypeOK /\ Idle /\ UNCHANGED assignedTo
  BY DEF IInv, FinalizeMint
<1>2. /\ call'.minter = m /\ call'.i = 0
      /\ call'.quantity = pendingCommit[m].quantity /\ pendingCommit[m].quantity \in Nat
  BY <1>1 DEF FinalizeMint, TypeOK
<1>3. \A n \in Minters : n # m => pendingCommit'[n] = pendingCommit[n]
  BY <1>1 DEF FinalizeMint, TypeOK
<1>4. \A n \in Minters : call.minter # n
  BY <1>1 DEF Idle
<1>5. Owed' = Owed
  BY <1>2, <1>3, <1>4 DEF Owed
<1> QED
  BY <1>1, <1>5

(* Each turn of the loop delivers one id nobody has. *)
LEMMA DrawRefines ==
  ASSUME IInv, DrawToken
  PROVE  \E m \in Minters : \E t \in Lottery!TokenIds : Lottery!Deliver(m, t)
<1>1. PICK t \in Unassigned : assignedTo' = [assignedTo EXCEPT ![t] = call.minter]
  BY DrawKeepsSlots
<1>2. /\ call.minter \in Minters /\ call.i + 1 <= call.quantity
      /\ pendingCommit[call.minter] = NoCommit
      /\ IF LastTurn THEN call' = NoCall ELSE call' = [call EXCEPT !.i = call.i + 1]
      /\ LastTurn <=> call.i + 1 = call.quantity
  BY DrawFrame
<1>3. TypeOK /\ pendingCommit' = pendingCommit
  BY DEF IInv, DrawToken, accountVars
<1>4. call.i \in Nat /\ call.quantity \in Nat
  BY <1>3 DEF TypeOK
<1>5. PICK w \in Minters : w = call.minter
  BY <1>2
<1>6. Owed[w] = call.quantity - call.i /\ Owed[w] > 0
  BY <1>2, <1>4, <1>5 DEF Owed
<1>7. Owed'[w] = Owed[w] - 1
  <2>1. CASE LastTurn
    <3>1. call'.minter # w
      BY <1>2, <2>1 DEF NoCall
    <3>2. pendingCommit'[w].quantity = 0
      BY <1>2, <1>3, <1>5 DEF NoCommit
    <3> QED
      BY <1>2, <1>4, <1>6, <2>1, <3>1, <3>2 DEF Owed
  <2>2. CASE ~LastTurn
    <3>1. call'.minter = w /\ call'.quantity = call.quantity /\ call'.i = call.i + 1
      BY <1>2, <1>3, <1>5, <2>2 DEF TypeOK
    <3> QED
      BY <1>4, <1>6, <3>1 DEF Owed
  <2> QED
    BY <2>1, <2>2
<1>8. \A n \in Minters : n # w => Owed'[n] = Owed[n]
  <2>1. call'.minter \in {w, NoMinter}
    BY <1>2, <1>3, <1>5 DEF TypeOK, NoCall
  <2> QED
    BY <1>3, <1>5, <2>1 DEF Owed
<1>9. Owed' = [Owed EXCEPT ![w] = @ - 1]
  <2>1. Owed = [n \in Minters |-> Owed[n]] /\ Owed' = [n \in Minters |-> Owed'[n]]
    BY DEF Owed
  <2> HIDE DEF Owed
  <2> QED
    BY <1>7, <1>8, <2>1
<1>10. Lottery!Deliver(w, t)
  BY <1>1, <1>5, <1>6, <1>9, LotteryNames DEF Lottery!Deliver
<1> QED
  BY <1>10, LotteryNames DEF Unassigned

LEMMA StepRefines ==
  IInv /\ [Next]_vars => [Lottery!LotteryNext]_(Lottery!lotteryVars)
<1> SUFFICES ASSUME IInv, [Next]_vars
             PROVE  Lottery!LotteryNext \/ UNCHANGED <<assignedTo, Owed>>
  BY DEF Lottery!lotteryVars
<1>1. CASE NextBlock
  BY <1>1 DEF NextBlock, Owed, accountVars
<1>2. CASE DrawToken
  BY <1>2, DrawRefines DEF Lottery!LotteryNext
<1>3. ASSUME NEW m \in Minters, NEW q \in Quantities, CommitMint(m, q)
      PROVE  Lottery!LotteryNext
  BY <1>3, CommitRefines DEF Lottery!LotteryNext, Quantities
<1>4. ASSUME NEW m \in Minters, FinalizeMint(m)
      PROVE  UNCHANGED <<assignedTo, Owed>>
  BY <1>4, FinalizeStutters
<1>5. ASSUME NEW m \in Minters, ClearExpiredCommit(m)
      PROVE  Lottery!LotteryNext
  BY <1>5, ClearRefines DEF Lottery!LotteryNext
<1>6. CASE UNCHANGED vars
  BY <1>6 DEF vars, accountVars, Owed
<1> QED
  BY <1>1, <1>2, <1>3, <1>4, <1>5, <1>6 DEF Next

(* The contract implements the lottery: every reservation it accepts can   *)
(* be honoured from ids nobody has, and no id is given away twice.         *)
THEOREM CoreCatsImplementsLottery == Spec => ImplementsLottery
<1>1. Init => Lottery!LotteryInit
  BY InitRefines
<1>2. IInv /\ [Next]_vars => [Lottery!LotteryNext]_(Lottery!lotteryVars)
  BY StepRefines
<1> QED
  BY <1>1, <1>2, InductiveInvariant, PTL DEF Spec, ImplementsLottery, Lottery!LotterySpec
---------------------------------------------------------------------------
(* Phases *)

USE CoreCatsAssumption

Phased == [m \in Minters |-> Phase(m)]

(* The phase of a commit, without the order of the CASE. *)
PhasesAre ==
  \A m \in Minters :
    /\ Phase(m) = "none"    <=> ~HasCommit(m)
    /\ Phase(m) = "early"   <=> HasCommit(m) /\ block <= pendingCommit[m].finalizeBlock
    /\ Phase(m) = "open"    <=> /\ HasCommit(m)
                               /\ block > pendingCommit[m].finalizeBlock
                               /\ block <= pendingCommit[m].expiryBlock
    /\ Phase(m) = "expired" <=> HasCommit(m) /\ block > pendingCommit[m].expiryBlock
    /\ Phase(m) \in Life!Phases

LEMMA PhaseIs == IInv => PhasesAre
<1> SUFFICES ASSUME IInv, NEW m \in Minters
             PROVE  PhasesAre!(m)
  BY DEF PhasesAre
<1>1. /\ block \in Nat
      /\ pendingCommit[m].finalizeBlock \in Nat /\ pendingCommit[m].expiryBlock \in Nat
  BY DEF IInv, TypeOK
<1>2. HasCommit(m) =>
        pendingCommit[m].expiryBlock = pendingCommit[m].finalizeBlock + FinalizeWindowBlocks
  BY DEF IInv, CommitShape
<1>3. CanFinalize(m) <=> /\ HasCommit(m)
                         /\ block > pendingCommit[m].finalizeBlock
                         /\ block <= pendingCommit[m].expiryBlock
  BY <1>1, <1>2 DEF CanFinalize, BlockhashAvailable
<1>4. Expired(m) <=> HasCommit(m) /\ block > pendingCommit[m].expiryBlock
  BY DEF Expired
<1>5. CASE ~HasCommit(m)
  <2>1. Phase(m) = "none"
    BY <1>5, <1>3, <1>4 DEF Phase
  <2> QED
    BY <2>1, <1>5 DEF Life!Phases
<1>6. CASE HasCommit(m) /\ block > pendingCommit[m].expiryBlock
  <2>1. Phase(m) = "expired"
    BY <1>6, <1>3, <1>4 DEF Phase
  <2> QED
    BY <2>1, <1>6, <1>1, <1>2 DEF Life!Phases
<1>7. CASE HasCommit(m) /\ block <= pendingCommit[m].finalizeBlock
  <2>1. ~Expired(m) /\ ~CanFinalize(m)
    BY <1>7, <1>1, <1>2, <1>3, <1>4
  <2>2. Phase(m) = "early"
    BY <2>1, <1>7 DEF Phase
  <2> QED
    BY <2>2, <1>7, <1>1, <1>2 DEF Life!Phases
<1>8. CASE HasCommit(m) /\ block > pendingCommit[m].finalizeBlock
                        /\ block <= pendingCommit[m].expiryBlock
  <2>1. ~Expired(m) /\ CanFinalize(m)
    BY <1>8, <1>1, <1>3, <1>4
  <2>2. Phase(m) = "open"
    BY <2>1, <1>8 DEF Phase
  <2> QED
    BY <2>2, <1>8, <1>1, <1>2 DEF Life!Phases
<1> QED
  BY <1>1, <1>5, <1>6, <1>7, <1>8

(* A step that leaves the block and m's commit alone leaves m's phase. *)
LEMMA PhaseKept ==
  ASSUME IInv, IInv', NEW m \in Minters,
         block' = block, pendingCommit'[m] = pendingCommit[m]
  PROVE  Phase(m)' = Phase(m)
<1>1. HasCommit(m)' <=> HasCommit(m)
  BY DEF HasCommit
<1>2. Expired(m)' <=> Expired(m)
  BY <1>1 DEF Expired
<1>3. CanFinalize(m)' <=> CanFinalize(m)
  BY <1>1 DEF CanFinalize, BlockhashAvailable
<1> QED
  BY <1>1, <1>2, <1>3 DEF Phase

(* The same, one step later. *)
LEMMA PhaseIsNext == IInv' => PhasesAre'
  BY PhaseIs, PTL

LEMMA CommitGone ==
  ASSUME IInv, NEW m \in Minters, pendingCommit' = [pendingCommit EXCEPT ![m] = NoCommit]
  PROVE  Phase(m)' = "none"
<1>1. ~HasCommit(m)'
  BY DEF HasCommit, NoCommit, IInv, TypeOK
<1>2. ~Expired(m)' /\ ~CanFinalize(m)'
  BY <1>1 DEF Expired, CanFinalize
<1> QED
  BY <1>1, <1>2 DEF Phase

(* A call on m's commit is a step of m's phase alone. *)
LEMMA OneCommitMoves ==
  ASSUME IInv, IInv', NEW m \in Minters, block' = block,
         \A n \in Minters \ {m} : pendingCommit'[n] = pendingCommit[n]
  PROVE  Phased' = [Phased EXCEPT ![m] = Phase(m)']
<1>1. \A n \in Minters \ {m} : Phase(n)' = Phase(n)
  BY PhaseKept
<1>2. \A n \in Minters : Phased'[n] = IF n = m THEN Phase(m)' ELSE Phased[n]
  BY <1>1 DEF Phased
<1> QED
  BY <1>2 DEF Phased

LEMMA CommitMoves ==
  ASSUME IInv, IInv', NEW m \in Minters, NEW q \in Quantities, CommitMint(m, q)
  PROVE  Life!Commit(m)
<1>1. Phase(m) \in {"none", "expired"}
  BY PhaseIs DEF PhasesAre, CommitMint, Expired
<1>2. Phase(m)' = "early"
  <2>1. /\ pendingCommit'[m].quantity = q /\ block' = block
        /\ pendingCommit'[m].finalizeBlock = block + FinalizeDelayBlocks
    BY DEF CommitMint, IInv, TypeOK
  <2>2. HasCommit(m)' /\ block' <= pendingCommit'[m].finalizeBlock
    BY <2>1 DEF HasCommit, Quantities, IInv, TypeOK
  <2>3. Phase(m)' = "early" <=> HasCommit(m)' /\ block' <= pendingCommit'[m].finalizeBlock
    BY PhaseIsNext DEF PhasesAre
  <2> QED
    BY <2>2, <2>3
<1>3. Phased' = [Phased EXCEPT ![m] = Phase(m)']
  <2>1. block' = block /\ \A n \in Minters \ {m} : pendingCommit'[n] = pendingCommit[n]
    BY DEF CommitMint, IInv, TypeOK
  <2> QED
    BY <2>1, OneCommitMoves
<1> QED
  BY <1>1, <1>2, <1>3 DEF Life!Commit, Phased

LEMMA FinalizeMoves ==
  ASSUME IInv, IInv', NEW m \in Minters, FinalizeMint(m)
  PROVE  Life!Finalize(m)
<1>1. Phase(m) = "open"
  BY PhaseIs DEF PhasesAre, FinalizeMint, CanFinalize
<1>2. block' = block /\ pendingCommit' = [pendingCommit EXCEPT ![m] = NoCommit]
  BY DEF FinalizeMint
<1>3. Phase(m)' = "none"
  BY <1>2, CommitGone
<1>4. Phased' = [Phased EXCEPT ![m] = Phase(m)']
  BY <1>2, OneCommitMoves DEF IInv, TypeOK
<1> QED
  BY <1>1, <1>3, <1>4 DEF Life!Finalize, Phased

LEMMA ClearMoves ==
  ASSUME IInv, IInv', NEW m \in Minters, ClearExpiredCommit(m)
  PROVE  Life!Clear(m)
<1>1. Phase(m) = "expired"
  BY PhaseIs DEF PhasesAre, ClearExpiredCommit, Expired
<1>2. block' = block /\ pendingCommit' = [pendingCommit EXCEPT ![m] = NoCommit]
  BY DEF ClearExpiredCommit
<1>3. Phase(m)' = "none"
  BY <1>2, CommitGone
<1>4. Phased' = [Phased EXCEPT ![m] = Phase(m)']
  BY <1>2, OneCommitMoves DEF IInv, TypeOK
<1> QED
  BY <1>1, <1>3, <1>4 DEF Life!Clear, Phased

LEMMA BlockMoves ==
  ASSUME IInv, IInv', NextBlock
  PROVE  Life!BlocksPass
<1>1. block' = block + 1 /\ pendingCommit' = pendingCommit
  BY DEF NextBlock, accountVars
<1>2. ASSUME NEW m \in Minters
      PROVE  Phase(m)' \in Life!Later(Phase(m)) /\ Phase(m)' \in Life!Phases
  <2>1. /\ block \in Nat
        /\ pendingCommit[m].finalizeBlock \in Nat /\ pendingCommit[m].expiryBlock \in Nat
    BY DEF IInv, TypeOK
  <2>2. HasCommit(m)' <=> HasCommit(m)
    BY <1>1 DEF HasCommit
  <2>3. HasCommit(m) =>
          pendingCommit[m].expiryBlock = pendingCommit[m].finalizeBlock + FinalizeWindowBlocks
    BY DEF IInv, CommitShape
  <2> QED
    BY <1>1, <2>1, <2>2, <2>3, PhaseIs, PhaseIsNext DEF PhasesAre, Life!Later, Life!Phases
<1>3. Phased' \in [Minters -> Life!Phases]
  BY <1>2 DEF Phased
<1> QED
  BY <1>2, <1>3 DEF Life!BlocksPass, Phased

LEMMA StepMoves ==
  IInv /\ IInv' /\ [Next]_vars => [Life!LifeNext]_Phased
<1> SUFFICES ASSUME IInv, IInv', [Next]_vars
             PROVE  Life!LifeNext \/ Phased' = Phased
  OBVIOUS
<1>1. CASE NextBlock
  BY <1>1, BlockMoves DEF Life!LifeNext
<1>2. ASSUME UNCHANGED <<block, pendingCommit>>
      PROVE  Phased' = Phased
  BY <1>2, PhaseKept DEF Phased
<1>3. CASE DrawToken
  BY <1>2, <1>3 DEF DrawToken, accountVars
<1>4. ASSUME NEW m \in Minters, NEW q \in Quantities, CommitMint(m, q)
      PROVE  Life!LifeNext
  BY <1>4, CommitMoves DEF Life!LifeNext
<1>5. ASSUME NEW m \in Minters, FinalizeMint(m)
      PROVE  Life!LifeNext
  BY <1>5, FinalizeMoves DEF Life!LifeNext
<1>6. ASSUME NEW m \in Minters, ClearExpiredCommit(m)
      PROVE  Life!LifeNext
  BY <1>6, ClearMoves DEF Life!LifeNext
<1>7. CASE UNCHANGED vars
  BY <1>2, <1>7 DEF vars, accountVars
<1> QED
  BY <1>1, <1>3, <1>4, <1>5, <1>6, <1>7 DEF Next

(* The commits of the contract go through their phases as CommitLife says, *)
(* which is all that the session service is built on.                      *)
THEOREM CoreCatsImplementsCommitLife == Spec => ImplementsCommitLife
<1>1. Init => Life!LifeInit
  <2> SUFFICES ASSUME Init PROVE Life!LifeInit
    OBVIOUS
  <2>1. \A m \in Minters : ~HasCommit(m)
    BY DEF Init, HasCommit, NoCommit
  <2>2. \A m \in Minters : Phase(m) = "none"
    BY <2>1 DEF Phase, Expired, CanFinalize
  <2> QED
    BY <2>2 DEF Life!LifeInit
<1>2. IInv /\ IInv' /\ [Next]_vars => [Life!LifeNext]_Phased
  BY StepMoves
<1> QED
  BY <1>1, <1>2, InductiveInvariant, PTL DEF Spec, ImplementsCommitLife, Life!LifeSpec, Phased

-----------------------------------------------------------------------------
(* What a reading in progress has seen: a block that is not later than the *)
(* present one and, while the books have not changed, the books.           *)
Seen(i) == {ReadOrder[j] : j \in 1..(i - 1)}

ReadingOk ==
    /\ reader.wallet \in Minters \cup {NoMinter}
    /\ reader.next \in 1..6 /\ (reader.wallet = NoMinter => reader.next = 1)
    /\ reader = [wallet |-> reader.wallet, next |-> reader.next, seen |-> reader.seen,
                 could |-> reader.could, booksKept |-> reader.booksKept]
    /\ reader.seen = [f \in Seen(reader.next) |-> reader.seen[f]]
    /\ reader.next > 1 => reader.seen["block"] \in Nat /\ reader.seen["block"] <= block

BooksAsSeen ==
    reader.booksKept =>
        \A f \in Seen(reader.next) \ {"block"} : reader.seen[f] = Answer(reader.wallet, f)

LEMMA OrderOfReading ==
  /\ Len(ReadOrder) = 5
  /\ ReadOrder[1] = "block" /\ ReadOrder[2] = "available" /\ ReadOrder[3] = "minted"
  /\ ReadOrder[4] = "reserved" /\ ReadOrder[5] = "pending"
  /\ ReadOrder = <<"block", "available", "minted", "reserved", "pending">>
BY DEF ReadOrder

LEMMA SeenGrows ==
  ASSUME NEW i \in 1..5
  PROVE  /\ Seen(i + 1) = Seen(i) \cup {ReadOrder[i]}
         /\ i = 1 => Seen(i) = {} /\ ReadOrder[i] = "block"
         /\ i > 1 => "block" \in Seen(i) /\ ReadOrder[i] # "block"
         /\ ReadOrder[i] \notin Seen(i)
         /\ "pending" \in Seen(i + 1) <=> i = 5
<1>1. i = 1 \/ i = 2 \/ i = 3 \/ i = 4 \/ i = 5
  OBVIOUS
<1>2. Seen(i + 1) = Seen(i) \cup {ReadOrder[i]}
  BY DEF Seen
<1>3. Seen(1) = {}
  BY DEF Seen
<1>4. \A k \in 2..6 : ReadOrder[1] \in Seen(k)
  BY DEF Seen
<1>5. ReadOrder[i] \notin Seen(i)
  BY <1>1, OrderOfReading DEF Seen
<1>6. "pending" \in Seen(i + 1) <=> i = 5
  BY <1>1, OrderOfReading DEF Seen
<1> QED
  BY <1>1, <1>2, <1>3, <1>4, <1>5, <1>6, OrderOfReading

LEMMA StartIsOk ==
  ASSUME ReadingOk, NEW w \in Minters, StartReading(w)
  PROVE  ReadingOk' /\ BooksAsSeen'
<1>1. /\ reader'.wallet = w /\ reader'.next = 1 /\ reader'.seen = [f \in {} |-> 0] /\ block' = block
      /\ reader' = [wallet |-> w, next |-> 1, seen |-> [f \in {} |-> 0], could |-> reader'.could,
                    booksKept |-> TRUE]
  BY DEF StartReading, NoReading, vars
<1>2. Seen(1) = {}
  BY SeenGrows
<1>3. ReadingOk'
  BY <1>1, <1>2, CoreCatsAssumption DEF ReadingOk
<1> QED
  BY <1>1, <1>2, <1>3 DEF BooksAsSeen

LEMMA ReadingEndsOk ==
  ASSUME ReadingUsed
  PROVE  ReadingOk' /\ BooksAsSeen'
<1>1. Seen(1) = {}
  BY SeenGrows
<1> QED
  BY <1>1 DEF ReadingUsed, NoReading, ReadingOk, BooksAsSeen

(* One call of the reader. *)
LEMMA ReadSees ==
  ASSUME ReadingOk, Read
  PROVE  /\ reader.next \in 1..5 /\ reader'.next = reader.next + 1
         /\ reader.wallet \in Minters /\ reader'.wallet = reader.wallet
         /\ reader'.booksKept = reader.booksKept
         /\ reader' = [wallet |-> reader'.wallet, next |-> reader'.next, seen |-> reader'.seen,
                       could |-> reader'.could, booksKept |-> reader'.booksKept]
         /\ DOMAIN reader.seen = Seen(reader.next)
         /\ reader'.seen = [f \in Seen(reader.next + 1) |->
                IF f = ReadOrder[reader.next] THEN Answer(reader.wallet, f) ELSE reader.seen[f]]
<1>1. reader.next \in 1..5
  BY OrderOfReading DEF Read, ReadingOk
<1>2. DOMAIN reader.seen = Seen(reader.next)
  BY DEF ReadingOk
<1>3. Seen(reader.next + 1) = Seen(reader.next) \cup {ReadOrder[reader.next]}
  BY <1>1, SeenGrows
<1>4. reader' = [reader EXCEPT
            !.next = @ + 1,
            !.seen = [f \in DOMAIN @ \cup {ReadOrder[reader.next]} |->
                        IF f = ReadOrder[reader.next] THEN Answer(reader.wallet, ReadOrder[reader.next])
                        ELSE @[f]]]
  BY DEF Read
<1>5. reader'.seen = [f \in Seen(reader.next + 1) |->
          IF f = ReadOrder[reader.next] THEN Answer(reader.wallet, ReadOrder[reader.next])
          ELSE reader.seen[f]]
  BY <1>2, <1>3, <1>4 DEF ReadingOk
<1>6. reader'.seen = [f \in Seen(reader.next + 1) |->
          IF f = ReadOrder[reader.next] THEN Answer(reader.wallet, f) ELSE reader.seen[f]]
  BY <1>5, Zenon
<1> QED
  BY <1>1, <1>2, <1>4, <1>6 DEF ReadingOk, Read

LEMMA ReadIsOk ==
  ASSUME IInv, ReadingOk, BooksAsSeen, Read
  PROVE  ReadingOk' /\ BooksAsSeen'
<1> DEFINE n == reader.next
<1>1. /\ n \in 1..5 /\ reader'.next = n + 1
      /\ reader.wallet \in Minters /\ reader'.wallet = reader.wallet
      /\ reader'.booksKept = reader.booksKept
      /\ reader'.seen = [f \in Seen(n + 1) |->
             IF f = ReadOrder[n] THEN Answer(reader.wallet, f) ELSE reader.seen[f]]
  BY ReadSees
<1>2. UNCHANGED vars
  BY DEF Read
<1>3. /\ Seen(n + 1) = Seen(n) \cup {ReadOrder[n]}
      /\ n = 1 => ReadOrder[n] = "block"
      /\ n > 1 => "block" \in Seen(n) /\ ReadOrder[n] # "block"
  BY <1>1, SeenGrows
<1>4. reader'.seen["block"] \in Nat /\ reader'.seen["block"] <= block'
  <2>1. block \in Nat /\ block' = block
    BY <1>2 DEF IInv, TypeOK, vars
  <2>2. CASE n = 1
    BY <1>1, <1>3, <2>1, <2>2 DEF Answer
  <2>3. CASE n > 1
    BY <1>1, <1>3, <2>1, <2>3 DEF ReadingOk
  <2> QED
    BY <1>1, <2>2, <2>3
<1>5. ReadingOk'
  BY <1>1, <1>4, ReadSees, CoreCatsAssumption DEF ReadingOk
<1>6. \A f : Answer(reader.wallet, f)' = Answer(reader.wallet, f)
  BY <1>1, <1>2 DEF Answer, vars, accountVars
<1>7. ASSUME reader.booksKept, NEW f \in Seen(n + 1) \ {"block"}
      PROVE  reader'.seen[f] = Answer(reader.wallet, f)
  BY <1>1, <1>3, <1>7 DEF BooksAsSeen
<1> QED
  BY <1>1, <1>5, <1>6, <1>7 DEF BooksAsSeen

LEMMA MovesAreOk ==
  ASSUME IInv, IInv', ReadingOk, BooksAsSeen, ChainMoves
  PROVE  ReadingOk' /\ BooksAsSeen'
<1>1. block \in Nat /\ block' \in Nat /\ block <= block'
  BY DEF ChainMoves, Next, NextBlock, DrawToken, CommitMint, FinalizeMint, ClearExpiredCommit, IInv, TypeOK
<1>2. CASE reader.wallet = NoMinter
  <2>1. reader' = reader /\ reader.next = 1 /\ Seen(1) = {}
    BY <1>2, SeenGrows DEF ChainMoves, ReadingOk
  <2> QED
    BY <1>1, <2>1 DEF ReadingOk, BooksAsSeen
<1>3. CASE reader.wallet # NoMinter
  <2>1. reader' = [reader EXCEPT !.could = @ \cup Possible'[reader.wallet],
                                 !.booksKept = @ /\ UNCHANGED accountVars]
    BY <1>3 DEF ChainMoves
  <2>2. /\ reader'.wallet = reader.wallet /\ reader'.next = reader.next /\ reader'.seen = reader.seen
        /\ reader'.booksKept => reader.booksKept /\ UNCHANGED accountVars
        /\ reader' = [wallet |-> reader'.wallet, next |-> reader'.next, seen |-> reader'.seen,
                      could |-> reader'.could, booksKept |-> reader'.booksKept]
    BY <2>1 DEF ReadingOk
  <2>3. ReadingOk'
    BY <1>1, <2>2 DEF ReadingOk
  <2>4. ASSUME UNCHANGED accountVars, NEW f \in Seen(reader.next) \ {"block"}
        PROVE  Answer(reader.wallet, f)' = Answer(reader.wallet, f)
    <3>1. f \in {"available", "minted", "reserved", "pending"}
      BY OrderOfReading, <2>4 DEF Seen, ReadingOk
    <3>2. /\ mintedCount' = mintedCount /\ mintedPerAddress' = mintedPerAddress
          /\ reservedPerAddress' = reservedPerAddress /\ pendingCommit' = pendingCommit
          /\ reservedSupply' = reservedSupply
      BY <2>4 DEF accountVars
    <3> QED
      BY <2>2, <3>1, <3>2 DEF Answer
  <2> QED
    BY <2>2, <2>3, <2>4 DEF BooksAsSeen
<1> QED
  BY <1>2, <1>3

(* A reader is a bystander: the contract's own steps are those of CoreCats. *)
LEMMA ReaderStep ==
  IInv /\ IInv' /\ ReadingOk /\ BooksAsSeen /\ [ReaderNext]_<<vars, reader>>
    => ReadingOk' /\ BooksAsSeen'
<1> SUFFICES ASSUME IInv, IInv', ReadingOk, BooksAsSeen, [ReaderNext]_<<vars, reader>>
             PROVE  ReadingOk' /\ BooksAsSeen'
  OBVIOUS
<1>1. ASSUME NEW w \in Minters, StartReading(w)
      PROVE  ReadingOk' /\ BooksAsSeen'
  BY <1>1, StartIsOk
<1>2. CASE Read
  BY <1>2, ReadIsOk
<1>3. CASE ReadingUsed
  BY <1>3, ReadingEndsOk
<1>4. CASE ChainMoves
  BY <1>4, MovesAreOk
<1>5. CASE UNCHANGED <<vars, reader>>
  <2>1. /\ block' = block /\ reader' = reader /\ mintedCount' = mintedCount
        /\ mintedPerAddress' = mintedPerAddress /\ reservedPerAddress' = reservedPerAddress
        /\ pendingCommit' = pendingCommit /\ reservedSupply' = reservedSupply
    BY <1>5 DEF vars, accountVars
  <2>2. ReadingOk'
    BY <2>1 DEF ReadingOk
  <2>3. \A f : Answer(reader.wallet, f)' = Answer(reader.wallet, f)
    BY <2>1 DEF Answer
  <2> QED
    BY <2>1, <2>2, <2>3 DEF BooksAsSeen
<1> QED
  BY <1>1, <1>2, <1>3, <1>4, <1>5 DEF ReaderNext

LEMMA ReadingInvariant == ReaderSpec => [](IInv /\ ReadingOk /\ BooksAsSeen)
<1>1. ReaderInit => IInv /\ ReadingOk /\ BooksAsSeen
  <2> SUFFICES ASSUME ReaderInit
               PROVE  IInv /\ ReadingOk /\ BooksAsSeen
    OBVIOUS
  <2>1. /\ reader = [wallet |-> NoMinter, next |-> 1, seen |-> [f \in {} |-> 0], could |-> {}, booksKept |-> TRUE]
        /\ Seen(1) = {}
    BY SeenGrows DEF ReaderInit, NoReading
  <2>2. ReadingOk
    BY <2>1 DEF ReadingOk
  <2>3. BooksAsSeen
    BY <2>1 DEF BooksAsSeen
  <2> QED
    BY <2>2, <2>3, InitIInv DEF ReaderInit
<1>2. [ReaderNext]_<<vars, reader>> => [Next]_vars
  BY DEF ReaderNext, StartReading, Read, ReadingUsed, ChainMoves
<1> QED
  BY <1>1, <1>2, StepKeepsIInv, ReaderStep, PTL DEF ReaderSpec

(* With the last of its calls the reader knows the commit as it is now, at a block that may *)
(* be an earlier one.                                                                       *)
LEMMA LastReadIsBehind ==
  ASSUME IInv, ReadingOk, [ReaderNext]_<<vars, reader>>, ~Complete, Complete'
  PROVE  SeenPhase(reader'.seen) \in Behind(Phase(reader.wallet))
<1>1. Read /\ reader.next = 5
  <2>1. reader.next \in 1..5
    BY OrderOfReading DEF ReadingOk, Complete
  <2>2. reader'.next > 5
    BY OrderOfReading DEF Complete
  <2>3. ASSUME NEW w \in Minters, StartReading(w)
        PROVE  FALSE
    BY <2>2, <2>3 DEF StartReading, NoReading
  <2>4. CASE ReadingUsed
    BY <2>4 DEF ReadingUsed
  <2>5. CASE ChainMoves
    <3>1. reader'.next = reader.next
      BY <2>5 DEF ChainMoves, ReadingOk
    <3> QED
      BY <2>1, <2>2, <3>1
  <2>6. CASE UNCHANGED <<vars, reader>>
    BY <2>1, <2>2, <2>6
  <2>7. CASE Read
    BY <2>1, <2>2, <2>7, ReadSees
  <2> QED
    BY <2>3, <2>4, <2>5, <2>6, <2>7 DEF ReaderNext
<1> DEFINE w == reader.wallet
           c == pendingCommit[w]
           b == reader.seen["block"]
<1>2. w \in Minters /\ reader'.seen["pending"] = c /\ reader'.seen["block"] = b
  <2>1. "pending" \in Seen(6) /\ "block" \in Seen(6) /\ ReadOrder[5] = "pending"
    BY OrderOfReading DEF Seen
  <2>2. reader'.seen = [f \in Seen(6) |-> IF f = ReadOrder[5] THEN Answer(w, f) ELSE reader.seen[f]]
    BY <1>1, ReadSees
  <2> QED
    BY <1>1, <2>1, <2>2, ReadSees DEF Answer
<1>3. /\ b \in Nat /\ block \in Nat /\ b <= block
      /\ c.quantity \in Nat /\ c.finalizeBlock \in Nat /\ c.expiryBlock \in Nat
      /\ HasCommit(w) => c.expiryBlock = c.finalizeBlock + FinalizeWindowBlocks
  BY <1>1, <1>2 DEF ReadingOk, IInv, TypeOK, CommitShape
<1>4. PhasesAre!(w)
  BY <1>2, PhaseIs DEF PhasesAre
<1>5. CASE c.quantity = 0
  <2>1. SeenPhase(reader'.seen) = "none"
    BY <1>2, <1>5 DEF SeenPhase
  <2> QED
    BY <1>4, <1>5, <2>1 DEF Behind, HasCommit
<1>6. CASE c.quantity > 0 /\ b > c.expiryBlock
  <2>1. SeenPhase(reader'.seen) = "expired"
    BY <1>2, <1>3, <1>6 DEF SeenPhase, HasCommit
  <2> QED
    BY <1>3, <1>4, <1>6, <2>1 DEF Behind, HasCommit
<1>7. CASE c.quantity > 0 /\ b <= c.finalizeBlock
  <2>1. SeenPhase(reader'.seen) = "early"
    BY <1>2, <1>3, <1>7 DEF SeenPhase, HasCommit
  <2> QED
    BY <1>3, <1>4, <1>7, <2>1 DEF Behind, HasCommit, Life!Phases
<1>8. CASE c.quantity > 0 /\ b > c.finalizeBlock /\ b <= c.expiryBlock
  <2>1. SeenPhase(reader'.seen) = "open"
    BY <1>2, <1>3, <1>8 DEF SeenPhase, HasCommit
  <2>2. Phase(w) \in {"open", "expired"}
    BY <1>3, <1>4, <1>8 DEF HasCommit, Life!Phases
  <2> QED
    BY <2>1, <2>2 DEF Behind
<1> QED
  BY <1>3, <1>5, <1>6, <1>7, <1>8

(* get_wallet_mint_state and readWalletStateViaRpc may report an old phase of a commit, never *)
(* one it has not come to yet, for any lengths of delay and window.                           *)
THEOREM SeenPhaseIsAlwaysBehind == ReaderSpec => SeenPhaseIsBehind
<1>1. IInv /\ ReadingOk /\ [ReaderNext]_<<vars, reader>> =>
        [~Complete /\ Complete' => SeenPhase(reader'.seen) \in Behind(Phase(reader.wallet))]_<<vars, reader>>
  BY LastReadIsBehind
<1> QED
  BY <1>1, ReadingInvariant, PTL DEF ReaderSpec, SeenPhaseIsBehind

LEMMA CompleteReading ==
  ASSUME IInv, ReadingOk, BooksAsSeen, Complete, reader.booksKept
  PROVE  /\ reader.wallet \in Minters
         /\ reader.seen["block"] \in Nat /\ reader.seen["block"] <= block
         /\ reader.seen["available"] = MaxSupply - mintedCount - reservedSupply
         /\ reader.seen["minted"] = mintedPerAddress[reader.wallet]
         /\ reader.seen["reserved"] = reservedPerAddress[reader.wallet]
         /\ reader.seen["pending"] = pendingCommit[reader.wallet]
<1>1. reader.next = 6 /\ reader.wallet \in Minters
  BY OrderOfReading DEF Complete, ReadingOk
<1>2. \A f \in {"available", "minted", "reserved", "pending"} : f \in Seen(6) \ {"block"}
  BY OrderOfReading DEF Seen
<1>3. \A f \in {"available", "minted", "reserved", "pending"} : reader.seen[f] = Answer(reader.wallet, f)
  BY <1>1, <1>2 DEF BooksAsSeen
<1> QED
  BY <1>1, <1>3 DEF Answer, ReadingOk

LEMMA AcceptedIsWithinLimits ==
  ASSUME IInv, ReadingOk, BooksAsSeen, Complete, reader.booksKept,
         NEW q \in Quantities, Accepts(reader.seen, q)
  PROVE  MayCommit(reader.wallet, q)
<1> DEFINE w == reader.wallet
           c == pendingCommit[w]
           b == reader.seen["block"]
<1>1. /\ w \in Minters /\ b \in Nat /\ b <= block
      /\ reader.seen["available"] = MaxSupply - mintedCount - reservedSupply
      /\ reader.seen["minted"] = mintedPerAddress[w]
      /\ reader.seen["reserved"] = reservedPerAddress[w]
      /\ reader.seen["pending"] = c
  BY CompleteReading
<1>2. /\ block \in Nat /\ c.quantity \in Nat /\ c.expiryBlock \in Nat
      /\ mintedCount \in Nat /\ reservedSupply \in Nat /\ mintedPerAddress[w] \in Nat
      /\ reservedPerAddress[w] = c.quantity /\ q \in Nat
  BY <1>1 DEF IInv, TypeOK, ReservationsBalance, Quantities
<1>3. /\ SeenPhase(reader.seen) \in {"none", "expired"}
      /\ q <= MaxSupply - mintedCount - reservedSupply
      /\ mintedPerAddress[w] + EffectiveReserved(reader.seen) + q <= MaxPerAddress
  BY <1>1 DEF Accepts
<1>4. CASE c.quantity = 0
  <2>1. ~HasCommit(w) /\ Reclaimed(w) = 0
    BY <1>4 DEF HasCommit, Expired, Reclaimed
  <2>2. EffectiveReserved(reader.seen) = reservedPerAddress[w]
    <3>1. SeenPhase(reader.seen) = "none"
      BY <1>1, <1>4 DEF SeenPhase
    <3> QED
      BY <1>1, <3>1 DEF EffectiveReserved
  <2> QED
    BY <1>2, <1>3, <2>1, <2>2, CoreCatsAssumption DEF MayCommit, WithinSupply, WithinWalletCap
<1>5. CASE c.quantity > 0
  <2>1. b > c.expiryBlock /\ SeenPhase(reader.seen) = "expired"
    BY <1>1, <1>2, <1>3, <1>5 DEF SeenPhase
  <2>2. HasCommit(w) /\ Expired(w) /\ Reclaimed(w) = c.quantity
    BY <1>1, <1>2, <1>5, <2>1 DEF HasCommit, Expired, Reclaimed
  <2>3. EffectiveReserved(reader.seen) = 0
    BY <1>1, <1>2, <2>1 DEF EffectiveReserved
  <2> QED
    BY <1>2, <1>3, <2>2, <2>3, CoreCatsAssumption DEF MayCommit, WithinSupply, WithinWalletCap
<1> QED
  BY <1>2, <1>4, <1>5

(* What evaluate_authorization_precheck and evaluateMintPrecheck accept, commitMint accepts,  *)
(* unless a transaction changed the books while they were read: blocks that passed in between *)
(* do no harm, for any number of wallets, supply and cap.                                     *)
THEOREM AcceptedAlwaysCanCommit == ReaderSpec => []AcceptedCanCommit
<1>1. IInv /\ ReadingOk /\ BooksAsSeen => AcceptedCanCommit
  BY AcceptedIsWithinLimits DEF AcceptedCanCommit
<1> QED
  BY <1>1, ReadingInvariant, PTL
=============================================================================
