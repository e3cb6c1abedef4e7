---------------------------- MODULE PollingLeader ---------------------------
(***************************************************************************)
(* The mint page (web/components/mint-workflow.jsx) opened in several tabs *)
(* for one session.  One visible tab shall poll the server; it keeps a     *)
(* lease in localStorage, which the others watch.                          *)
(*                                                                         *)
(* localStorage has no test-and-set: a tab reads the lease, decides and    *)
(* writes, and the other tabs may do the same in between.  They learn of a *)
(* change by a storage event that arrives some time later.  A claim reads  *)
(* the lease and not the event, so events waiting for a tab are one.       *)
(*                                                                         *)
(* Time: a lease is fresh until it expires.  A browser that refuses to     *)
(* store anything lets every tab poll, and is not modelled.                *)
(***************************************************************************)
EXTENDS FiniteSets

CONSTANTS
    Tabs,
    NoTab           \* there is no lease

ASSUME NoTabAssumption == NoTab \notin Tabs

VARIABLES
    lease,          \* localStorage: the tab that owns it, not yet expired?
    open, hidden,   \* the tabs that show the session; document.hidden
    isPollingLeader,
    task,           \* the handler a tab is in the middle of
    current,        \* the lease as that handler has read it
    notified        \* the tabs a storage event is on its way to

vars == <<lease, open, hidden, isPollingLeader, task, current, notified>>

NoLease == [owner |-> NoTab, fresh |-> FALSE]

Init ==
    /\ lease = NoLease
    /\ open = {}
    /\ hidden = {}
    /\ isPollingLeader = {}
    /\ task = [t \in Tabs |-> "idle"]
    /\ current = [t \in Tabs |-> NoLease]
    /\ notified = {}

Idle(t) == t \in open /\ task[t] = "idle"

-----------------------------------------------------------------------------
(* A handler begins: claimLeadership or releaseLeadership read the lease.  *)
Begin(t, what) ==
    /\ task' = [task EXCEPT ![t] = what]
    /\ current' = [current EXCEPT ![t] = lease]

(* claimLeadership; a hidden tab releases instead. *)
ClaimLeadership(t, what) == Begin(t, IF t \in hidden THEN "release" ELSE what)

(* The effect runs for the first time: isPollingLeader starts as true. *)
Mount(t, inBackground) ==
    /\ t \notin open
    /\ open' = open \cup {t}
    /\ hidden' = IF inBackground THEN hidden \cup {t} ELSE hidden \ {t}
    /\ isPollingLeader' = isPollingLeader \cup {t}
    /\ Begin(t, IF inBackground THEN "release" ELSE "force")
    /\ UNCHANGED <<lease, notified>>

(* focus, pageshow, visibilitychange *)
Focus(t) ==
    /\ Idle(t)
    /\ ClaimLeadership(t, "force")
    /\ UNCHANGED <<lease, open, hidden, isPollingLeader, notified>>

Heartbeat(t) ==
    /\ Idle(t)
    /\ ClaimLeadership(t, "claim")
    /\ UNCHANGED <<lease, open, hidden, isPollingLeader, notified>>

StorageEvent(t) ==
    /\ Idle(t)
    /\ t \in notified
    /\ notified' = notified \ {t}
    /\ ClaimLeadership(t, "claim")
    /\ UNCHANGED <<lease, open, hidden, isPollingLeader>>

(* beforeunload, or the session has ended *)
Leave(t) ==
    /\ Idle(t)
    /\ Begin(t, "leave")
    /\ UNCHANGED <<lease, open, hidden, isPollingLeader, notified>>

-----------------------------------------------------------------------------
(* Fault: a lease that has expired still counts. *)
MayLeadNoExpiry(t) == task[t] = "force" \/ current[t].owner \in {NoTab, t}

MayLead(t) ==
    \/ task[t] = "force"
    \/ ~current[t].fresh
    \/ current[t].owner \in {NoTab, t}

(* Fault: a tab that finds another's lease goes on as before. *)
LeadersKept(t) == IF MayLead(t) THEN isPollingLeader \cup {t} ELSE isPollingLeader

LeadersAfterClaim(t) ==
    IF MayLead(t) THEN isPollingLeader \cup {t} ELSE isPollingLeader \ {t}

(* The rest of claimLeadership. *)
Claim(t) ==
    /\ task[t] \in {"claim", "force"}
    /\ IF MayLead(t)
       THEN /\ lease' = [owner |-> t, fresh |-> TRUE]
            /\ notified' = notified \cup (open \ {t})
       ELSE UNCHANGED <<lease, notified>>
    /\ isPollingLeader' = LeadersAfterClaim(t)
    /\ task' = [task EXCEPT ![t] = "idle"]
    /\ current' = [current EXCEPT ![t] = NoLease]
    /\ UNCHANGED <<open, hidden>>

(* What the page forgets when it is gone. *)
Gone(t) ==
    /\ open' = open \ {t}
    /\ hidden' = hidden \ {t}

(* The rest of releaseLeadership: what is removed is the lease as it is by *)
(* now, whoever owns it. *)
Release(t) ==
    /\ task[t] \in {"release", "leave"}
    /\ IF task[t] = "leave" THEN Gone(t) ELSE UNCHANGED <<open, hidden>>
    /\ lease' = IF current[t].owner = t THEN NoLease ELSE lease
    /\ notified' = open' \cap (IF lease' = lease THEN notified ELSE notified \cup (open \ {t}))
    /\ isPollingLeader' = isPollingLeader \ {t}
    /\ task' = [task EXCEPT ![t] = "idle"]
    /\ current' = [current EXCEPT ![t] = NoLease]

(* The browser kills the tab: nothing is released. *)
Crash(t) ==
    /\ t \in open
    /\ Gone(t)
    /\ isPollingLeader' = isPollingLeader \ {t}
    /\ task' = [task EXCEPT ![t] = "idle"]
    /\ current' = [current EXCEPT ![t] = NoLease]
    /\ notified' = notified \ {t}
    /\ UNCHANGED lease

(* The user turns to the tab or away from it. *)
Turn(t) ==
    /\ Idle(t)
    /\ hidden' = IF t \in hidden THEN hidden \ {t} ELSE hidden \cup {t}
    /\ UNCHANGED <<lease, open, isPollingLeader, task, current, notified>>

LeaseExpires ==
    /\ lease.fresh
    /\ lease' = [lease EXCEPT !.fresh = FALSE]
    /\ UNCHANGED <<open, hidden, isPollingLeader, task, current, notified>>

-----------------------------------------------------------------------------
(* What the user and the browser do of their own accord. *)
UserMoves(t) ==
    \/ \E inBackground \in BOOLEAN : Mount(t, inBackground)
    \/ Focus(t) \/ Turn(t) \/ Leave(t) \/ Crash(t)

PageMoves(t) == Heartbeat(t) \/ StorageEvent(t) \/ Claim(t) \/ Release(t)

Next == LeaseExpires \/ \E t \in Tabs : UserMoves(t) \/ PageMoves(t)

Spec == Init /\ [][Next]_vars

(* Handlers end, timers fire, events arrive, and the lease of a tab that   *)
(* is gone expires.  Nothing is assumed of the user.                       *)
Fairness ==
    /\ \A t \in Tabs : WF_vars(Heartbeat(t)) /\ WF_vars(StorageEvent(t))
                      /\ WF_vars(Claim(t)) /\ WF_vars(Release(t))
    /\ WF_vars(LeaseExpires /\ lease.owner \notin open)

FairSpec == Spec /\ Fairness

-----------------------------------------------------------------------------
TypeOK ==
    /\ lease \in [owner : Tabs \cup {NoTab}, fresh : BOOLEAN]
    /\ open \subseteq Tabs
    /\ hidden \subseteq open
    /\ isPollingLeader \subseteq open
    /\ task \in [Tabs -> {"idle", "claim", "force", "release", "leave"}]
    /\ \A t \in Tabs \ open : task[t] = "idle"
    /\ current \in [Tabs -> [owner : Tabs \cup {NoTab}, fresh : BOOLEAN]]
    /\ notified \subseteq open

(* A tab that goes on polling although another one took or removed its     *)
(* lease has a storage event on its way, or is already looking: however    *)
(* the reads and writes of the tabs interleave, rivals do not last.        *)
RivalsHear ==
    \A t \in isPollingLeader : Idle(t) /\ lease.owner # t => t \in notified

(* A tab takes or removes the lease while another is between its reading   *)
(* and its decision, which are microseconds apart.                         *)
Overtakes ==
    /\ lease'.owner # lease.owner
    /\ \E t \in Tabs : task[t] # "idle" /\ task'[t] = task[t]

Unsettled ==
    \/ \E t \in Tabs : UserMoves(t)
    \/ LeaseExpires /\ lease.owner \in open
    \/ Overtakes

Polls(t) == t \in (open \cap isPollingLeader) \ hidden

(* Whatever races there were: once the user leaves the tabs alone, a tab   *)
(* renews its lease in time (every 8 of its 20 seconds) and the tabs no    *)
(* longer overtake each other, exactly one tab polls for ever after, if    *)
(* there is a visible one at all.                                          *)
OneTabPolls ==
    <>[][~Unsettled]_vars /\ <>[](open # hidden)
        => <>[](Cardinality({t \in Tabs : Polls(t)}) = 1)
=============================================================================
