---------------------------- MODULE CommitLife ------------------------------
(***************************************************************************)
(* What the rest of the system relies on about the commits kept in         *)
(* foxar/src/CoreCats.sol: the phases a wallet's commit goes through and   *)
(* the calls that each phase accepts.  CoreCats is shown to implement this *)
(* module, and MintSessions is built on top of it.                         *)
(***************************************************************************)
CONSTANT Wallets

VARIABLE phase              \* the phase of each wallet's commit

Phases == {"none", "early", "open", "expired"}

LifeInit == phase = [w \in Wallets |-> "none"]

(* commitMint: an expired commit is cleared on the way. *)
Commit(w) ==
    /\ phase[w] \in {"none", "expired"}
    /\ phase' = [phase EXCEPT ![w] = "early"]

(* The chain grows: every commit it affects moves past its finalizeBlock   *)
(* or its expiryBlock.                                                     *)
Later(p) == CASE p = "early" -> {"early", "open", "expired"}
              [] p = "open"  -> {"open", "expired"}
              [] OTHER       -> {p}

BlocksPass ==
    /\ phase' \in [Wallets -> Phases]
    /\ \A w \in Wallets : phase'[w] \in Later(phase[w])

(* finalizeMint *)
Finalize(w) == phase[w] = "open" /\ phase' = [phase EXCEPT ![w] = "none"]

(* clearExpiredCommit *)
Clear(w) == phase[w] = "expired" /\ phase' = [phase EXCEPT ![w] = "none"]

LifeNext == BlocksPass \/ \E w \in Wallets : Commit(w) \/ Finalize(w) \/ Clear(w)

LifeSpec == LifeInit /\ [][LifeNext]_phase
=============================================================================
