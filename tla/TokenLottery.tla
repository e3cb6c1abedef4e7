---------------------------- MODULE TokenLottery ----------------------------
(***************************************************************************)
(* What the Core Cats contract promises a minter, with nothing of how it   *)
(* keeps the promise: a fixed set of token ids, each given away at most    *)
(* once; a minter may be owed tokens; whatever is owed can be delivered    *)
(* from the ids nobody has; and which id is delivered is left to chance.   *)
(*                                                                         *)
(* There are no blocks, no commits, no expiry and no matrix of slots here. *)
(* CoreCats.tla is shown to implement this module.                         *)
(***************************************************************************)
EXTENDS Integers, FiniteSets

CONSTANTS
    Minters,        \* wallet addresses
    NoMinter,       \* the owner of an id nobody has
    MaxSupply,      \* number of token ids
    MaxPerAddress   \* most tokens one wallet may mint

VARIABLES
    assignedTo,     \* assignedTo[t]: who minted token id t
    owed            \* owed[m]: tokens promised to m and not yet delivered

lotteryVars == <<assignedTo, owed>>

TokenIds == 1..MaxSupply

Unclaimed == {t \in TokenIds : assignedTo[t] = NoMinter}
MintedBy(m) == {t \in TokenIds : assignedTo[t] = m}

(* One element for every token promised to somebody in ms. *)
PromisedTo(ms) == {u \in ms \X (1..MaxPerAddress) : u[2] <= owed[u[1]]}

LotteryInit ==
    /\ assignedTo = [t \in TokenIds |-> NoMinter]
    /\ owed = [m \in Minters |-> 0]

(* m is promised q tokens; a promise that lapsed is replaced by the new one. *)
Promise(m, q) ==
    /\ Cardinality(PromisedTo(Minters \ {m})) + q <= Cardinality(Unclaimed)
    /\ Cardinality(MintedBy(m)) + q <= MaxPerAddress
    /\ owed' = [owed EXCEPT ![m] = q]
    /\ UNCHANGED assignedTo

(* A promise lapses as a whole. *)
Lapse(m) ==
    /\ owed[m] > 0
    /\ owed' = [owed EXCEPT ![m] = 0]
    /\ UNCHANGED assignedTo

Deliver(m, t) ==
    /\ owed[m] > 0
    /\ t \in Unclaimed
    /\ assignedTo' = [assignedTo EXCEPT ![t] = m]
    /\ owed' = [owed EXCEPT ![m] = @ - 1]

LotteryNext ==
    \E m \in Minters :
        \/ \E q \in 1..MaxPerAddress : Promise(m, q)
        \/ Lapse(m)
        \/ \E t \in TokenIds : Deliver(m, t)

LotterySpec == LotteryInit /\ [][LotteryNext]_lotteryVars
=============================================================================
