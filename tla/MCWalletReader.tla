--------------------------- MODULE MCWalletReader ---------------------------
(* A small instance of the contract with a reader beside it.  The wallets are
   interchangeable. *)
EXTENDS WalletReader, TLC
MinterSymmetry == Permutations(Minters)
=============================================================================
