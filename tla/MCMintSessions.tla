-------------------------- MODULE MCMintSessions ----------------------------
(* A small instance of MintSessions.  Requests are interchangeable, and so *)
(* are the transactions of each kind.                                      *)
EXTENDS MintSessions, TLC
SessionSymmetry ==
    Permutations(Handlers) \cup Permutations(RelayTxs) \cup Permutations(ManualTxs)
=============================================================================
