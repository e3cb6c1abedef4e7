------------------------------ MODULE CoreCats ------------------------------
(***************************************************************************)
(* foxar/src/CoreCats.sol: the commit / finalize mint contract.            *)
(*                                                                         *)
(* A transaction is atomic, so no other call runs while finalizeMint is in *)
(* its loop; the loop is nevertheless one step per drawn token (the local  *)
(* variables live in `call`), because the draws share the contract's slot  *)
(* matrix and the correctness of one rests on the one before.  A reverted  *)
(* transaction changes nothing and is no step.                             *)
(*                                                                         *)
(* Randomness (the keccak words built from the block hash) is a free       *)
(* choice of the draw index.  The recipient hook of _safeMint is taken to  *)
(* accept the token and to make no call of its own.                        *)
(***************************************************************************)
EXTENDS Integers, FiniteSets

CONSTANTS
    Minters,                \* wallet addresses
    NoMinter,               \* address(0)
    MaxSupply,              \* MAX_SUPPLY
    MaxPerAddress,          \* MAX_PER_ADDRESS
    FinalizeDelayBlocks,    \* FINALIZE_DELAY_BLOCKS
    FinalizeWindowBlocks,   \* FINALIZE_WINDOW_BLOCKS
    BlockhashDepth,         \* how many past blocks blockhash() answers for
    MaxBlock                \* bound: the chain of the model ends here

ASSUME CoreCatsAssumption ==
    /\ IsFiniteSet(Minters)
    /\ NoMinter \notin Minters
    /\ MaxSupply \in Nat \ {0}
    /\ MaxPerAddress \in Nat \ {0}
    /\ FinalizeDelayBlocks \in Nat
    /\ FinalizeWindowBlocks \in Nat
    /\ BlockhashDepth \in Nat
    /\ FinalizeWindowBlocks <= BlockhashDepth   \* 200 and 256
    /\ MaxBlock \in Nat

VARIABLES
    block,                  \* block.number
    mintedCount,            \* _mintedCount
    mintedPerAddress,
    reservedPerAddress,
    pendingCommit,
    tokenMatrix,            \* _tokenMatrix: 0 stands for "never written"
    reservedSupply,
    call,                   \* the locals of the finalizeMint call in its loop
    assignedTo              \* who minted a token id (CRC721 and TokenAssigned)

accountVars == <<mintedCount, mintedPerAddress, reservedPerAddress,
                 pendingCommit, reservedSupply>>
vars == <<block, accountVars, tokenMatrix, call, assignedTo>>

TokenIds == 1..MaxSupply
Slots == 0..(MaxSupply - 1)
Quantities == 1..MaxPerAddress

NoCommit == [quantity |-> 0, finalizeBlock |-> 0, expiryBlock |-> 0]
NoCall == [minter |-> NoMinter, quantity |-> 0, mintedBefore |-> 0, i |-> 0]

Idle == call.minter = NoMinter

-----------------------------------------------------------------------------
Init ==
    /\ block = 0
    /\ mintedCount = 0
    /\ mintedPerAddress = [m \in Minters |-> 0]
    /\ reservedPerAddress = [m \in Minters |-> 0]
    /\ pendingCommit = [m \in Minters |-> NoCommit]
    /\ tokenMatrix = [i \in Slots |-> 0]
    /\ reservedSupply = 0
    /\ call = NoCall
    /\ assignedTo = [t \in TokenIds |-> NoMinter]

HasCommit(m) == pendingCommit[m].quantity > 0
(* Fault: the window closes one block early for clearExpiredCommit only. *)
ExpiredEarly(m) == HasCommit(m) /\ block >= pendingCommit[m].expiryBlock

Expired(m) == HasCommit(m) /\ block > pendingCommit[m].expiryBlock

(* blockhash(b) # 0 *)
BlockhashAvailable(b) == b < block /\ block - b <= BlockhashDepth

(* Faults: the clearing is skipped; it is done a second time. *)
ReclaimedNever(m) == 0
ReclaimedTwice(m) == IF Expired(m) THEN 2 * pendingCommit[m].quantity ELSE 0

(* The part of m's reservation _clearExpiredCommitIfNeeded gives back. *)
Reclaimed(m) == IF Expired(m) THEN pendingCommit[m].quantity ELSE 0

-----------------------------------------------------------------------------
(* Faults: reserved tokens count as available; tokens already minted to    *)
(* the wallet are forgotten.                                               *)
SupplyOnlyMinted(to, quantity) == MaxSupply - mintedCount >= quantity
CapOnlyReserved(to, quantity) ==
    reservedPerAddress[to] - Reclaimed(to) + quantity <= MaxPerAddress

(* The limits, read from the books after the caller's own clearing. *)
WithinSupply(to, quantity) ==
    MaxSupply - mintedCount - (reservedSupply - Reclaimed(to)) >= quantity
WithinWalletCap(to, quantity) ==
    mintedPerAddress[to] + (reservedPerAddress[to] - Reclaimed(to)) + quantity
        <= MaxPerAddress

(* commitMint, with the clearing of the caller's own expired commit. *)
CommitMint(to, quantity) ==
    /\ Idle
    /\ HasCommit(to) => Expired(to)
    /\ WithinSupply(to, quantity)
    /\ WithinWalletCap(to, quantity)
    /\ pendingCommit' = [pendingCommit EXCEPT ![to] =
            [quantity |-> quantity,
             finalizeBlock |-> block + FinalizeDelayBlocks,
             expiryBlock |-> block + FinalizeDelayBlocks + FinalizeWindowBlocks]]
    /\ reservedPerAddress' =
            [reservedPerAddress EXCEPT ![to] = @ - Reclaimed(to) + quantity]
    /\ reservedSupply' = reservedSupply - Reclaimed(to) + quantity
    /\ UNCHANGED <<block, mintedCount, mintedPerAddress, tokenMatrix, call, assignedTo>>

(* Fault: the delay is not waited for, the last block's hash is taken. *)
CanFinalizeAtOnce(minter) == HasCommit(minter) /\ block <= pendingCommit[minter].expiryBlock

CanFinalize(minter) ==
    /\ HasCommit(minter)
    /\ block > pendingCommit[minter].finalizeBlock
    /\ block <= pendingCommit[minter].expiryBlock
    /\ BlockhashAvailable(pendingCommit[minter].finalizeBlock)

(* finalizeMint up to its loop: the books are settled before any draw. *)
FinalizeMint(minter) ==
    LET quantity == pendingCommit[minter].quantity IN
    /\ Idle
    /\ CanFinalize(minter)
    /\ pendingCommit' = [pendingCommit EXCEPT ![minter] = NoCommit]
    /\ reservedPerAddress' = [reservedPerAddress EXCEPT ![minter] = @ - quantity]
    /\ reservedSupply' = reservedSupply - quantity
    /\ mintedPerAddress' = [mintedPerAddress EXCEPT ![minter] = @ + quantity]
    /\ mintedCount' = mintedCount + quantity
    /\ call' = [minter |-> minter, quantity |-> quantity,
                mintedBefore |-> mintedCount, i |-> 0]
    /\ UNCHANGED <<block, tokenMatrix, assignedTo>>

(* What slot i of the matrix holds: an unwritten slot holds its own index. *)
SlotValue(i) == IF tokenMatrix[i] = 0 THEN i ELSE tokenMatrix[i]

(* Fault: the last slot's raw word is moved, 0 included. *)
MatrixAfterRawMove(drawIndex, lastIndex) ==
    [i \in Slots |-> IF i = lastIndex THEN 0
                     ELSE IF i = drawIndex THEN tokenMatrix[lastIndex]
                     ELSE tokenMatrix[i]]

(* _drawRandomTokenId: the last slot's value moves into the drawn slot. *)
MatrixAfterDraw(drawIndex, lastIndex) ==
    [i \in Slots |-> IF i = lastIndex THEN 0
                     ELSE IF i = drawIndex THEN SlotValue(lastIndex)
                     ELSE tokenMatrix[i]]

DrawnTokenId(drawIndex) == SlotValue(drawIndex) + 1

(* Fault: the loop ends one turn early. *)
LastTurnEarly == call.i + 2 >= call.quantity

LastTurn == call.i + 1 = call.quantity

(* One turn of finalizeMint's loop: draw a token id and mint it. *)
DrawToken ==
    LET remaining == MaxSupply - (call.mintedBefore + call.i) IN
    /\ ~Idle
    /\ \E drawIndex \in 0..(remaining - 1) :
        /\ tokenMatrix' = MatrixAfterDraw(drawIndex, remaining - 1)
        /\ assignedTo' = [assignedTo EXCEPT ![DrawnTokenId(drawIndex)] = call.minter]
    /\ call' = IF LastTurn THEN NoCall ELSE [call EXCEPT !.i = @ + 1]
    /\ UNCHANGED <<block, accountVars>>

(* clearExpiredCommit: anybody may return an expired reservation. *)
ClearExpiredCommit(minter) ==
    LET quantity == pendingCommit[minter].quantity IN
    /\ Idle
    /\ Expired(minter)
    /\ pendingCommit' = [pendingCommit EXCEPT ![minter] = NoCommit]
    /\ reservedPerAddress' = [reservedPerAddress EXCEPT ![minter] = @ - quantity]
    /\ reservedSupply' = reservedSupply - quantity
    /\ UNCHANGED <<block, mintedCount, mintedPerAddress, tokenMatrix, call, assignedTo>>

NextBlock ==
    /\ Idle
    /\ block < MaxBlock
    /\ block' = block + 1
    /\ UNCHANGED <<accountVars, tokenMatrix, call, assignedTo>>

Next ==
    \/ NextBlock
    \/ DrawToken
    \/ \E m \in Minters :
        \/ \E quantity \in Quantities : CommitMint(m, quantity)
        \/ FinalizeMint(m)
        \/ ClearExpiredCommit(m)

Spec == Init /\ [][Next]_vars

-----------------------------------------------------------------------------
TypeOK ==
    /\ block \in 0..MaxBlock
    /\ mintedCount \in 0..MaxSupply
    /\ mintedPerAddress \in [Minters -> 0..MaxPerAddress]
    /\ reservedPerAddress \in [Minters -> 0..MaxPerAddress]
    /\ pendingCommit \in [Minters -> [quantity : 0..MaxPerAddress,
                                      finalizeBlock : Nat, expiryBlock : Nat]]
    /\ tokenMatrix \in [Slots -> Slots]
    /\ reservedSupply \in 0..MaxSupply
    /\ call \in [minter : Minters \cup {NoMinter}, quantity : 0..MaxPerAddress,
                 mintedBefore : 0..MaxSupply, i : 0..MaxPerAddress]
    /\ assignedTo \in [TokenIds -> Minters \cup {NoMinter}]

(* One element for every token a live or expired commit keeps reserved. *)
ReservedUnits == {u \in Minters \X Quantities : u[2] <= pendingCommit[u[1]].quantity}

(* The two reservation counters are updated by hand in four places; they   *)
(* always equal what the pending commits say, and the checked subtraction  *)
(* in availableSupply never underflows.                                    *)
ReservationsBalance ==
    /\ \A m \in Minters : reservedPerAddress[m] = pendingCommit[m].quantity
    /\ reservedSupply = Cardinality(ReservedUnits)
    /\ mintedCount + reservedSupply <= MaxSupply

(* No wallet ever holds a claim on more than MAX_PER_ADDRESS tokens, the   *)
(* tokens it already minted and those it still has reserved together.      *)
WalletCapHolds ==
    \A m \in Minters : mintedPerAddress[m] + reservedPerAddress[m] <= MaxPerAddress

MintedBy(m) == {t \in TokenIds : assignedTo[t] = m}

(* How many draws the matrix has seen: the counter runs ahead of the loop. *)
Drawn == IF Idle THEN mintedCount ELSE call.mintedBefore + call.i
Unassigned == {t \in TokenIds : assignedTo[t] = NoMinter}

(* The live slots of the matrix hold every unassigned token id once: no    *)
(* draw can repeat an id and none is lost, although 0 doubles as the mark  *)
(* of a slot never written (_drawRandomTokenId).                           *)
SlotsHoldUnassigned ==
    /\ {SlotValue(i) + 1 : i \in 0..(MaxSupply - Drawn - 1)} = Unassigned
    /\ \A i, j \in 0..(MaxSupply - Drawn - 1) : SlotValue(i) = SlotValue(j) => i = j

(* Between transactions the per-wallet and the global counters agree with  *)
(* the tokens that were really assigned, though they are written first.    *)
CountersMatchTokens ==
    Idle => /\ \A m \in Minters :
                    mintedPerAddress[m] = Cardinality(MintedBy(m))
            /\ mintedCount = Cardinality(TokenIds \ Unassigned)

(* A commit is at every block in exactly one phase: too early, finalizable *)
(* or clearable.  There is no block at which it can only wait forever, and *)
(* none at which finalizeMint and clearExpiredCommit race.                 *)
PhasesPartitionTime ==
    \A m \in Minters : HasCommit(m) =>
        \/ block <= pendingCommit[m].finalizeBlock /\ ~CanFinalize(m) /\ ~Expired(m)
        \/ block > pendingCommit[m].finalizeBlock /\ (CanFinalize(m) <=> ~Expired(m))

-----------------------------------------------------------------------------
(* The inductive invariant: the properties above need, between two draws,  *)
(* that the loop's locals still describe the counters they were read from. *)
CallConsistent ==
    \/ call = NoCall
    \/ /\ call.minter \in Minters
       /\ call.i < call.quantity
       /\ call.mintedBefore + call.quantity = mintedCount
       /\ pendingCommit[call.minter] = NoCommit

CommitShape ==
    \A m \in Minters : HasCommit(m) =>
        pendingCommit[m].expiryBlock = pendingCommit[m].finalizeBlock + FinalizeWindowBlocks

(* Tokens counted as minted by m that its running call has yet to draw. *)
Outstanding(m) == IF call.minter = m THEN call.quantity - call.i ELSE 0

TokensCounted ==
    /\ \A m \in Minters :
            Cardinality(MintedBy(m)) = mintedPerAddress[m] - Outstanding(m)
    /\ Cardinality(TokenIds \ Unassigned) = Drawn

IInv ==
    /\ TypeOK
    /\ ReservationsBalance
    /\ WalletCapHolds
    /\ CallConsistent
    /\ CommitShape
    /\ SlotsHoldUnassigned
    /\ TokensCounted

-----------------------------------------------------------------------------
(* What m is still owed: its reservation, or the rest of its running call. *)
Owed == [m \in Minters |->
            IF call.minter = m THEN call.quantity - call.i
                               ELSE pendingCommit[m].quantity]

Lottery == INSTANCE TokenLottery WITH owed <- Owed

(* The phase m's commit is in, as a caller of the contract sees it. *)
Phase(m) ==
    CASE ~HasCommit(m)                                       -> "none"
      [] HasCommit(m) /\ Expired(m)                          -> "expired"
      [] HasCommit(m) /\ ~Expired(m) /\ CanFinalize(m)       -> "open"
      [] HasCommit(m) /\ ~Expired(m) /\ ~CanFinalize(m)      -> "early"

Life == INSTANCE CommitLife
            WITH Wallets <- Minters, phase <- [m \in Minters |-> Phase(m)]

(* Commits only move forward through their phases, each call moves the     *)
(* commit it names and no other, and finalizeMint works in one phase only: *)
(* an open commit never turns too early again, nor an expired one open.    *)
ImplementsCommitLife == Life!LifeSpec

(* commitMint, finalizeMint with its draws and clearExpiredCommit, seen    *)
(* through Owed, only promise, deliver and drop tokens: every promise made *)
(* can be kept from the ids nobody has, and no id is given twice.          *)
ImplementsLottery == Lottery!LotterySpec
=============================================================================
