------------------------- MODULE MCCorePassCallback -------------------------
(* Two accounts.  Anybody may scan a code to log in; a request to sign is addressed to one   *)
(* account, whose callbacks name either, with signatures recovered and without.              *)
EXTENDS CorePassCallback, TLC

MCSettings ==
    LET First == CHOOSE a \in Accounts : TRUE
        Setting(p, b, m, r) == [pinned |-> p, site |-> b, method |-> m, recovery |-> r]
    IN  {Setting(None, "local", "login", TRUE),
         Setting(First, None, "sign", TRUE), Setting(First, "mint", "sign", FALSE)}

HandlerSymmetry == Permutations(Handlers)
=============================================================================
