---------------------------- MODULE WalletReader ----------------------------
(***************************************************************************)
(* How the services learn about a wallet: get_wallet_mint_state (backend   *)
(* rpc.py) and readWalletStateViaRpc (web mint-precheck.js) make the same  *)
(* five calls, one after the other, while the contract of CoreCats moves   *)
(* on.  The FinalizeWorker decides on the phase it sees, the prechecks     *)
(* decide whether a commit request is prepared at all.                     *)
(***************************************************************************)
EXTENDS CoreCats, Sequences

VARIABLE reader             \* the reading in progress and what it has seen

Fields == {"block", "available", "minted", "reserved", "pending"}

(* Fault: the pending commit is read first and the block number last. *)
ReadOrderReversed == <<"pending", "reserved", "minted", "available", "block">>

ReadOrder == <<"block", "available", "minted", "reserved", "pending">>

NoReading ==
    [wallet |-> NoMinter, next |-> 1, seen |-> [f \in {} |-> 0], could |-> {}, booksKept |-> TRUE]

(* What one call answers. *)
Answer(w, field) ==
    CASE field = "block"     -> block
      [] field = "available" -> MaxSupply - mintedCount - reservedSupply
      [] field = "minted"    -> mintedPerAddress[w]
      [] field = "reserved"  -> reservedPerAddress[w]
      [] field = "pending"   -> pendingCommit[w]

(* commitMint would accept this quantity now. *)
MayCommit(w, quantity) ==
    /\ HasCommit(w) => Expired(w)
    /\ WithinSupply(w, quantity)
    /\ WithinWalletCap(w, quantity)

Possible == [w \in Minters |-> {q \in Quantities : MayCommit(w, q)}]

-----------------------------------------------------------------------------
StartReading(w) ==
    /\ reader = NoReading
    /\ reader' = [NoReading EXCEPT !.wallet = w, !.could = Possible[w]]
    /\ UNCHANGED vars

Read ==
    /\ Idle
    /\ reader.wallet # NoMinter
    /\ reader.next <= Len(ReadOrder)
    /\ LET field == ReadOrder[reader.next] IN
        reader' = [reader EXCEPT
            !.next = @ + 1,
            !.seen = [f \in DOMAIN @ \cup {field} |->
                        IF f = field THEN Answer(reader.wallet, field) ELSE @[f]]]
    /\ UNCHANGED vars

Complete == reader.next > Len(ReadOrder)

ReadingUsed ==
    /\ Complete
    /\ reader' = NoReading
    /\ UNCHANGED vars

(* The contract moves on; what was possible in between is remembered. *)
ChainMoves ==
    /\ Next
    /\ reader' = IF reader.wallet = NoMinter THEN reader
                 ELSE [reader EXCEPT
                        !.could = @ \cup Possible'[reader.wallet],
                        !.booksKept = @ /\ UNCHANGED accountVars]

ReaderInit == Init /\ reader = NoReading

ReaderNext ==
    \/ \E w \in Minters : StartReading(w)
    \/ Read
    \/ ReadingUsed
    \/ ChainMoves

ReaderSpec == ReaderInit /\ [][ReaderNext]_<<vars, reader>>

-----------------------------------------------------------------------------
(* pending_commit.exists, pending_commit_expired and the worker's test of  *)
(* finalize_block, on what was seen.                                       *)
SeenPhase(seen) ==
    CASE seen.pending.quantity = 0                       -> "none"
      [] /\ seen.pending.quantity > 0
         /\ seen.block > seen.pending.expiryBlock        -> "expired"
      [] /\ seen.pending.quantity > 0
         /\ seen.block <= seen.pending.finalizeBlock     -> "early"
      [] OTHER                                           -> "open"

(* effective_reserved: an expired reservation no longer counts. *)
EffectiveReserved(seen) ==
    LET left == seen.reserved - seen.pending.quantity IN
    IF SeenPhase(seen) = "expired" THEN (IF left > 0 THEN left ELSE 0) ELSE seen.reserved

(* Fault: a pending commit is no reason to refuse. *)
AcceptsPending(seen, quantity) ==
    /\ quantity <= seen.available
    /\ seen.minted + EffectiveReserved(seen) + quantity <= MaxPerAddress

(* evaluate_authorization_precheck and evaluateMintPrecheck *)
Accepts(seen, quantity) ==
    /\ SeenPhase(seen) \in {"none", "expired"}
    /\ quantity <= seen.available
    /\ seen.minted + EffectiveReserved(seen) + quantity <= MaxPerAddress

-----------------------------------------------------------------------------
(* The phases a reading may report of a commit that is in phase p when the *)
(* last of the five calls is answered.                                     *)
Behind(p) == CASE p = "open"    -> {"early", "open"}
               [] p = "expired" -> {"early", "open", "expired"}
               [] OTHER         -> {p}

(* The five calls are not one: yet the phase they add up to is that of the *)
(* commit at the last call or an earlier one of the same commit.  The      *)
(* worker may wait too long by it, it never gives up a commit too soon.    *)
SeenPhaseIsBehind ==
    [][ ~Complete /\ Complete' =>
            SeenPhase(reader'.seen) \in Behind(Phase(reader.wallet)) ]_<<vars, reader>>

(* If no transaction changed the books meanwhile, whatever blocks passed,  *)
(* a quantity the precheck accepts is one commitMint accepts.              *)
AcceptedCanCommit ==
    Complete /\ reader.booksKept =>
        \A q \in Quantities : Accepts(reader.seen, q) => MayCommit(reader.wallet, q)

(* A quantity that the wallet could have committed at no moment of the     *)
(* reading is refused before a commit transaction is prepared.             *)
OverLimitIsRejected ==
    Complete => \A q \in Quantities : Accepts(reader.seen, q) => q \in reader.could
=============================================================================
