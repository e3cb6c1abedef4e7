------------------------- MODULE PollingLeaderProofs ------------------------
(***************************************************************************)
(* Rivals never last, for any number of tabs.                              *)
(***************************************************************************)
EXTENDS PollingLeader, TLAPS

TabInv == TypeOK /\ RivalsHear

(* No tab is open before the first one is mounted. *)
LEMMA TabInit == Init => TabInv
BY NoTabAssumption DEF Init, TabInv, TypeOK, RivalsHear, NoLease

(* A handler that begins takes its tab out of the idle ones and changes    *)
(* nothing else: the tab may even have used up its storage event.          *)
LEMMA BeginKeeps ==
    ASSUME TabInv, NEW t \in Tabs, NEW what \in {"claim", "force", "release", "leave"},
           Begin(t, what),
           UNCHANGED lease,
           open' \in {open, open \cup {t}}, t \in open',
           hidden' \in {hidden, hidden \cup {t}, hidden \ {t}}, hidden' \subseteq open',
           isPollingLeader' \in {isPollingLeader, isPollingLeader \cup {t}},
           isPollingLeader' \subseteq open',
           notified' \in {notified, notified \ {t}}
    PROVE  TabInv'
<1>1. TypeOK'
  BY DEF TabInv, TypeOK, Begin
<1>2. RivalsHear'
  <2>1. SUFFICES ASSUME NEW u \in isPollingLeader', Idle(u)', lease'.owner # u
                 PROVE  u \in notified'
    BY DEF RivalsHear, Idle
  <2>2. u # t
    BY <2>1 DEF Idle, Begin, TabInv, TypeOK
  <2>3. u \in isPollingLeader /\ Idle(u) /\ lease.owner # u
    BY <2>1, <2>2 DEF Idle, Begin, TabInv, TypeOK
  <2> QED BY <2>2, <2>3 DEF TabInv, RivalsHear
<1> QED BY <1>1, <1>2 DEF TabInv

(* A claim that is granted takes the lease and notifies every other tab    *)
(* that is open; one that is refused leaves a tab that no longer leads.    *)
LEMMA ClaimKeeps == ASSUME TabInv, NEW t \in Tabs, Claim(t) PROVE TabInv'
<1>1. t \in open
  BY DEF Claim, TabInv, TypeOK
<1>2. TypeOK'
  <2>1. lease' \in [owner : Tabs \cup {NoTab}, fresh : BOOLEAN]
    <3>1. CASE MayLead(t)
      <4>1. lease' = [owner |-> t, fresh |-> TRUE]
        BY <3>1, Zenon DEF Claim
      <4> QED BY <4>1
    <3>2. CASE ~MayLead(t)
      BY <3>2 DEF TabInv, TypeOK, Claim
    <3> QED BY <3>1, <3>2
  <2>2. task' \in [Tabs -> {"idle", "claim", "force", "release", "leave"}]
        /\ \A u \in Tabs \ open' : task'[u] = "idle"
    BY DEF TabInv, TypeOK, Claim
  <2>3. current' \in [Tabs -> [owner : Tabs \cup {NoTab}, fresh : BOOLEAN]]
    BY DEF TabInv, TypeOK, Claim, NoLease
  <2>4. isPollingLeader' \subseteq open' /\ notified' \subseteq open'
    BY <1>1 DEF TabInv, TypeOK, Claim, LeadersAfterClaim
  <2> QED BY <2>1, <2>2, <2>3, <2>4 DEF TabInv, TypeOK, Claim
<1>3. RivalsHear'
  <2>1. SUFFICES ASSUME NEW u \in isPollingLeader', Idle(u)', lease'.owner # u
                 PROVE  u \in notified'
    BY DEF RivalsHear, Idle
  <2>2. CASE MayLead(t)
    BY <2>1, <2>2 DEF Claim, Idle
  <2>3. CASE ~MayLead(t)
    <3>1. u # t
      BY <2>1, <2>3 DEF Claim, LeadersAfterClaim
    <3>2. u \in isPollingLeader /\ Idle(u) /\ lease.owner # u
      BY <2>1, <2>3, <3>1 DEF Claim, LeadersAfterClaim, Idle, TabInv, TypeOK
    <3> QED BY <2>3, <3>2 DEF Claim, TabInv, RivalsHear
  <2> QED BY <2>2, <2>3
<1> QED BY <1>2, <1>3 DEF TabInv

(* A release removes whatever lease there is, and tells its owner.         *)
LEMMA ReleaseKeeps == ASSUME TabInv, NEW t \in Tabs, Release(t) PROVE TabInv'
<1>1. t \in open
  BY DEF Release, TabInv, TypeOK
<1>2. open' \in {open, open \ {t}} /\ hidden' \in {hidden, hidden \ {t}}
  BY DEF Release, Gone
<1>3. TypeOK'
  <2>1. lease' \in [owner : Tabs \cup {NoTab}, fresh : BOOLEAN]
    BY DEF TabInv, TypeOK, Release, NoLease
  <2>2. task' \in [Tabs -> {"idle", "claim", "force", "release", "leave"}]
        /\ \A u \in Tabs \ open' : task'[u] = "idle"
    BY <1>2 DEF TabInv, TypeOK, Release
  <2>3. current' \in [Tabs -> [owner : Tabs \cup {NoTab}, fresh : BOOLEAN]]
    BY DEF TabInv, TypeOK, Release, NoLease
  <2>4. open' \subseteq Tabs /\ hidden' \subseteq open' /\ isPollingLeader' \subseteq open'
    BY <1>2 DEF TabInv, TypeOK, Release, Gone
  <2>5. notified' \subseteq open'
    BY <1>2 DEF TabInv, TypeOK, Release
  <2> QED BY <2>1, <2>2, <2>3, <2>4, <2>5 DEF TypeOK
<1>4. RivalsHear'
  <2>1. SUFFICES ASSUME NEW u \in isPollingLeader', Idle(u)', lease'.owner # u
                 PROVE  u \in notified'
    BY DEF RivalsHear, Idle
  <2>2. u # t /\ u \in isPollingLeader /\ Idle(u)
    BY <1>2, <2>1 DEF Release, Idle, TabInv, TypeOK
  <2>3. CASE lease' = lease
    BY <2>1, <2>2, <2>3 DEF Release, TabInv, RivalsHear, Idle
  <2>4. CASE lease' # lease
    BY <2>1, <2>2, <2>4 DEF Release, Idle
  <2> QED BY <2>3, <2>4
<1> QED BY <1>3, <1>4 DEF TabInv

(* A tab that is killed leads no more. *)
LEMMA CrashKeeps == ASSUME TabInv, NEW t \in Tabs, Crash(t) PROVE TabInv'
<1>1. TypeOK'
  BY DEF TabInv, TypeOK, Crash, Gone, NoLease
<1>2. RivalsHear'
  BY DEF TabInv, TypeOK, RivalsHear, Crash, Gone, Idle
<1> QED BY <1>1, <1>2 DEF TabInv

LEMMA TabStep == TabInv /\ [Next]_vars => TabInv'
<1> SUFFICES ASSUME TabInv, [Next]_vars PROVE TabInv'
  OBVIOUS
<1>1. ASSUME NEW t \in Tabs, NEW inBackground \in BOOLEAN, Mount(t, inBackground)
      PROVE  TabInv'
  BY <1>1, BeginKeeps DEF Mount, TabInv, TypeOK
<1>2. ASSUME NEW t \in Tabs, Focus(t) PROVE TabInv'
  BY <1>2, BeginKeeps DEF Focus, Idle, ClaimLeadership, TabInv, TypeOK
<1>3. ASSUME NEW t \in Tabs, Turn(t) PROVE TabInv'
  BY <1>3 DEF Turn, Idle, TabInv, TypeOK, RivalsHear
<1>4. ASSUME NEW t \in Tabs, Leave(t) PROVE TabInv'
  BY <1>4, BeginKeeps DEF Leave, Idle, TabInv, TypeOK
<1>5. ASSUME NEW t \in Tabs, Heartbeat(t) PROVE TabInv'
  BY <1>5, BeginKeeps DEF Heartbeat, Idle, ClaimLeadership, TabInv, TypeOK
<1>6. ASSUME NEW t \in Tabs, StorageEvent(t) PROVE TabInv'
  BY <1>6, BeginKeeps DEF StorageEvent, Idle, ClaimLeadership, TabInv, TypeOK
<1>7. CASE LeaseExpires
  BY <1>7 DEF LeaseExpires, Idle, TabInv, TypeOK, RivalsHear
<1>8. CASE UNCHANGED vars
  BY <1>8 DEF vars, Idle, TabInv, TypeOK, RivalsHear
<1> QED
  BY <1>1, <1>2, <1>3, <1>4, <1>5, <1>6, <1>7, <1>8, ClaimKeeps, ReleaseKeeps, CrashKeeps
  DEF Next, UserMoves, PageMoves

(* However the handlers of any number of tabs interleave, a tab that polls *)
(* without owning the lease has a storage event on its way or is looking.  *)
THEOREM RivalsAlwaysHear == Spec => []RivalsHear
<1>1. TabInv => RivalsHear
  BY DEF TabInv
<1> QED BY <1>1, TabInit, TabStep, PTL DEF Spec
=============================================================================
