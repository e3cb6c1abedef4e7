------------------------------ MODULE MintPage -------------------------------
(***************************************************************************)
(* What the tabs of PollingLeader show of their session, once they have    *)
(* settled who polls: refreshSession of mint-workflow.jsx against the read *)
(* path of corepass-mint-sessions.js with its cache, while callbacks and   *)
(* the worker change the stored session behind it and its row runs out.    *)
(*                                                                         *)
(* Of a session only its stage is kept: "waiting" for the commit,          *)
(* "submitted", or "done", which is every status the page calls terminal.  *)
(* A tab has one refresh under way at most; one web process serves all.    *)
(*                                                                         *)
(* Neither side's expiry of an unused commit request is modelled: both     *)
(* compute it from commit.expiry, which nothing sets.                      *)
(***************************************************************************)
EXTENDS PollingLeader, Naturals

CONSTANT MaxSetbacks    \* bound: how often a session at its end is set back

VARIABLES
    poller,     \* the tab that polls; NoTab while the tabs have not settled
    row,        \* the stored session's stage, or "gone"
    overdue,    \* whether the web server's clock has passed its expiry
    writer,     \* the stage a callback is about to store, or "idle"
    cache,      \* sessionReadCache: a stage, "missing" or "empty"
    call,       \* Tabs -> the refresh under way
    shown,      \* Tabs -> the stage on display, "none" yet, or "lost"
    mail,       \* Tabs -> the broadcast that comes next, or "none"
    setbacks

pageVars == <<poller, row, overdue, writer, cache, call, shown, mail, setbacks>>

NoCall == [from |-> "nowhere"]

PageInit ==
    /\ poller = NoTab
    /\ row = "waiting" /\ overdue = FALSE /\ writer = "idle" /\ cache = "empty"
    /\ call = [t \in Tabs |-> NoCall]
    /\ shown = [t \in Tabs |-> "none"]
    /\ mail = [t \in Tabs |-> "none"]
    /\ setbacks = 0

(* The tabs that still follow the session: sessionId is set and it is not terminal. *)
Following(t) == t \in open /\ shown[t] \notin {"done", "lost"}
Visible(t)   == t \in open \ hidden

Settle(t) ==
    /\ poller = NoTab
    /\ \A u \in Tabs : task[u] = "idle" /\ (Polls(u) <=> u = t)
    /\ lease = [owner |-> t, fresh |-> TRUE] /\ notified = {}
    /\ poller' = t
    /\ UNCHANGED <<row, overdue, writer, cache, call, shown, mail, setbacks>>

(* The poller's session has ended for it: another visible tab takes the lease, as  *)
(* PollingLeader has it.                                                           *)
NextPoller(t) ==
    /\ poller # NoTab /\ ~Following(poller) /\ Following(t) /\ Visible(t)
    /\ poller' = t
    /\ UNCHANGED <<row, overdue, writer, cache, call, shown, mail, setbacks>>

-----------------------------------------------------------------------------
(* The web server's reads *)

(* Fault: the time to live of terminal sessions is given to all. *)
LastsAlways(stage) == stage \notin {"missing", "empty"}

(* The hour a terminal session is cached is not waited for; 15 and 60 seconds are. *)
LastsLong(stage) == stage = "done"

CacheExpires ==
    /\ ~LastsLong(cache) /\ cache # "empty"
    /\ cache' = "empty"
    /\ UNCHANGED <<poller, row, overdue, writer, call, shown, mail, setbacks>>

(* readMintSession up to its await, with getRequiredSession's look at the row's expiry. *)
Reading(force) ==
    CASE ~force /\ cache # "empty"      -> [from |-> "cache", got |-> cache]
      [] force \/ cache = "empty"       -> IF row = "gone" THEN [from |-> "row", got |-> "missing"]
                                           ELSE IF overdue THEN [from |-> "removal", got |-> "missing"]
                                           ELSE [from |-> "row", got |-> row]

(* removeSession, the second call: whatever the row holds by then is deleted. *)
Remove(t) ==
    /\ call[t].from = "removal"
    /\ row' = "gone" /\ overdue' = FALSE
    /\ call' = [call EXCEPT ![t] = [from |-> "row", got |-> "missing"]]
    /\ UNCHANGED <<poller, writer, cache, shown, mail, setbacks>>

-----------------------------------------------------------------------------
(* The tabs *)

(* refreshSession, and the server up to its await; removeSession invalidates before it. *)
Refresh(t, force) ==
    /\ poller # NoTab /\ call[t] = NoCall /\ shown[t] # "lost"
    /\ call' = [call EXCEPT ![t] = Reading(force)]
    /\ cache' = IF Reading(force).from = "removal" THEN "empty" ELSE cache
    /\ UNCHANGED <<poller, row, overdue, writer, shown, mail, setbacks>>

(* The tab opens with a sessionId and no session. *)
Load(t) == t \in open /\ shown[t] = "none" /\ Refresh(t, FALSE)

(* Every minute, or two, while a submitted commit is on display. *)
AutoRefresh(t) == t = poller /\ Visible(t) /\ shown[t] = "submitted" /\ Refresh(t, FALSE)

(* The first three minutes of polling for the commit, coming back to the tab, and the button. *)
ForcedRefresh(t) == Visible(t) /\ Refresh(t, TRUE)

(* An answer, as the cache and the display take it.  A terminal session that is not found any  *)
(* more stays on display when it was finalized.                                               *)
Answer(t) ==
    LET got == call[t].got
    IN  /\ call[t].from \in {"row", "cache"}
        /\ call' = [call EXCEPT ![t] = NoCall]
        /\ cache' = IF call[t].from = "row" THEN got ELSE cache
        /\ IF got = "missing"
           THEN /\ \E seen \in {"lost"} \cup ({"done"} \cap {shown[t]}) : shown' = [shown EXCEPT ![t] = seen]
                /\ UNCHANGED mail
           ELSE /\ shown' = [shown EXCEPT ![t] = got]
                /\ mail' = [u \in Tabs |-> IF u \in open \ {t} THEN got ELSE mail[u]]
        /\ UNCHANGED <<poller, row, overdue, writer, setbacks>>

(* The request, or its answer, fails: the page only says so. *)
CallFails(t) ==
    /\ call[t] # NoCall
    /\ call' = [call EXCEPT ![t] = NoCall]
    /\ UNCHANGED <<poller, row, overdue, writer, cache, shown, mail, setbacks>>

(* channel.onmessage; of several broadcasts the last one stays on display. *)
Hear(t) ==
    /\ mail[t] # "none"
    /\ mail' = [mail EXCEPT ![t] = "none"]
    /\ shown' = [shown EXCEPT ![t] = IF @ = "lost" THEN @ ELSE mail[t]]
    /\ UNCHANGED <<poller, row, overdue, writer, cache, call, setbacks>>

-----------------------------------------------------------------------------
(* What happens to the stored session *)

(* A callback has read the session and invalidates the cache before it stores the commit, *)
(* or the rejection: persistSession.                                                      *)
CallbackPersists ==
    /\ poller # NoTab /\ row = "waiting" /\ ~overdue /\ writer = "idle"
    /\ cache' = "empty"
    /\ writer' \in {"submitted", "done"}
    /\ UNCHANGED <<poller, row, overdue, call, shown, mail, setbacks>>

(* The row is stored, a new one if need be, and its expiry is a new one. *)
CallbackStores ==
    /\ writer # "idle"
    /\ row' = writer /\ overdue' = FALSE
    /\ writer' = "idle"
    /\ UNCHANGED <<poller, cache, call, shown, mail, setbacks>>

(* The worker knows no cache.  A session is set back by an old copy of the worker's, or by a *)
(* commit callback that is repeated.                                                         *)
WorkerStores ==
    /\ \/ row = "submitted" /\ row' = "done" /\ UNCHANGED setbacks
       \/ /\ row = "done" /\ setbacks < MaxSetbacks
          /\ row' = "submitted" /\ setbacks' = setbacks + 1
    /\ UNCHANGED <<poller, overdue, writer, cache, call, shown, mail>>

(* Expiry passes on the web server's clock, and on the store's, which need not be the same. *)
Expires ==
    /\ poller # NoTab /\ row # "gone" /\ ~overdue
    /\ overdue' = TRUE
    /\ UNCHANGED <<poller, row, writer, cache, call, shown, mail, setbacks>>

CleanedUp ==
    /\ row # "gone" /\ overdue
    /\ row' = "gone" /\ overdue' = FALSE
    /\ UNCHANGED <<poller, writer, cache, call, shown, mail, setbacks>>

-----------------------------------------------------------------------------
TabMoves(t) ==
    \/ NextPoller(t) \/ Load(t) \/ AutoRefresh(t) \/ ForcedRefresh(t)
    \/ Remove(t) \/ Answer(t) \/ CallFails(t) \/ Hear(t)

PageNext ==
    \/ \E t \in Tabs : TabMoves(t)
    \/ CacheExpires \/ CallbackPersists \/ CallbackStores \/ WorkerStores \/ Expires \/ CleanedUp

(* Timers fire, requests end and do not fail for ever, messages arrive.  Nothing is assumed of *)
(* the user, of callbacks or of the worker.                                                   *)
PageFairness ==
    /\ WF_pageVars(CacheExpires)
    /\ \A t \in Tabs : /\ WF_pageVars(NextPoller(t)) /\ WF_pageVars(AutoRefresh(t))
                       /\ WF_pageVars(Hear(t)) /\ SF_pageVars(Remove(t))
                       /\ SF_pageVars(Answer(t))

-----------------------------------------------------------------------------
(* When the polling tab has no submitted commit to show, refreshes only come from the first *)
(* three minutes and from the user.                                                         *)
Unpolled == \E t \in Tabs : t = poller /\ shown[t] \in {"none", "waiting"}

(* Whatever was cached, overtaken, broadcast or lost on the way: when the stored session has *)
(* come to its end, or is gone, no visible tab goes on showing it as under way, unless the   *)
(* polling tab never got to see the commit.                                                  *)
PageCatchesUp ==
    <>[](poller # NoTab /\ row \in {"done", "gone"} /\ writer = "idle") =>
        \/ <>[]Unpolled
        \/ \A t \in Tabs : <>[](poller # NoTab /\ Visible(t) => ~Following(t))
=============================================================================
