----------------------------- MODULE MCMintPage ------------------------------
(* A small instance of PollingLeader and MintPage: the tabs elect the one that  *)
(* polls, and once they have settled their session is followed from there.      *)
EXTENDS MintPage

MCInit == Init /\ PageInit

Elect == poller = NoTab /\ Next /\ UNCHANGED pageVars
Show  == \/ \E t \in Tabs : Settle(t) /\ UNCHANGED vars
         \/ PageNext /\ UNCHANGED vars

MCNext == Elect \/ Show

Electing(A) == poller = NoTab /\ A /\ UNCHANGED pageVars

MCFairness ==
    /\ \A t \in Tabs : /\ WF_<<vars, pageVars>>(Electing(Heartbeat(t))) /\ WF_<<vars, pageVars>>(Electing(StorageEvent(t)))
                       /\ WF_<<vars, pageVars>>(Electing(Claim(t))) /\ WF_<<vars, pageVars>>(Electing(Release(t)))
    /\ WF_<<vars, pageVars>>(Electing(LeaseExpires /\ lease.owner \notin open))
    /\ PageFairness

MCSpec == MCInit /\ [][MCNext]_<<vars, pageVars>> /\ MCFairness
=============================================================================
