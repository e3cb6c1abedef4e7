-------------------------- MODULE CorePassCallback --------------------------
(***************************************************************************)
(* Whose session is it?  corepass-mint-sessions.js puts requests for an    *)
(* account's approval into QR codes and links; CorePass, out of the        *)
(* server's sight, answers them with callbacks to the URL a request named: *)
(* late, repeated, in any order, and from more than one account when one   *)
(* code is scanned twice.  The first step names the minter, the second     *)
(* sends the commit, the third may send the finalize.                      *)
(*                                                                         *)
(* A callback's fields are looked up by name in query, form, JSON and      *)
(* what is nested in them, so here it is a record of its fields.  A hash   *)
(* is the account that sent the transaction, a session's login token is    *)
(* its id; callbacks that bring no hash are in MintSessions.  Callbacks    *)
(* are handled on a copy of the stored session, as with the external       *)
(* backend; what the chain makes of the transactions, the worker and the   *)
(* expiry of sessions are in MintSessions.                                 *)
(***************************************************************************)
EXTENDS Naturals, FiniteSets

CONSTANTS
    Accounts, Sessions, None,
    Handlers,           \* requests served at the same time
    Official, Local,    \* hosts: the official ones with their aliases, local ones
    Others,             \* and other deployments of the same program
    Settings,           \* environments of the web server, with a valid base URL or none
    Relayer,            \* stands for the hash of a relayed finalize
    MaxCallbacks        \* bound on the callbacks of CorePass

Hosts == Official \cup Local \cup Others

Account == Accounts \cup {None}
Steps   == {"identify", "commit", "finalize", "relay"}
Records ==
    [status : {"awaiting_identity", "precheck_rejected", "awaiting_commit", "commit_submitted",
               "finalize_submitted", "finalized"},
     openedAt : Hosts, method : {"login", "sign"},
     expected : Account, minter : Account, commit : BOOLEAN, commitTx : Account,
     finalize : BOOLEAN, finalizeTx : Account \cup {Relayer}]

ASSUME CorePassAssumption ==
    /\ None \notin Accounts \cup Sessions \cup Hosts \cup Steps \cup Records
    /\ Relayer \notin Account
    /\ MaxCallbacks \in Nat
    /\ Settings \subseteq [pinned : Account, site : Hosts \cup {None},
                           method : {"login", "sign"}, recovery : BOOLEAN]

VARIABLES
    env,          \* the environment
    sessions,     \* the stored records, None before there is one
    requests,     \* the requests ever shown
    callbacks,    \* the callbacks ever sent: any may arrive, and again
    work          \* what each handler has read, and the callback it handles

vars == <<env, sessions, requests, callbacks, work>>

Free == [callback |-> None, copy |-> None]

Init ==
    /\ env \in Settings
    /\ sessions = [s \in Sessions |-> None]
    /\ requests = {} /\ callbacks = {}
    /\ work = [h \in Handlers |-> Free]

---------------------------------------------------------------------------
(* Requests *)

(* Mutant of Conn: the site's base URL comes before the host that was asked. *)
ConnBySite(host) == IF env.site # None THEN {env.site} ELSE {host} \cap (Official \cup Local)

(* Where callbacks are sent, none if the server cannot tell. *)
Conn(host) ==
    IF host \in Official THEN {host}
    ELSE IF env.site # None THEN {env.site}
    ELSE {host} \cap Local

(* A deployment of the official contract has the setting "login". *)
Method(host) == IF host \in Official THEN "login" ELSE env.method

(* Account: whom the link asks, None for whoever scans it. *)
Request(s, step, account, host) == [session |-> s, step |-> step, account |-> account, conn |-> host]

(* Mutant of Asked: the link of the first step asks whoever scans it. *)
AskedOfAnybody(session, step) == IF step = "identify" THEN None ELSE session.minter

Asked(session, step) == IF step = "identify" THEN session.expected ELSE session.minter

CreateMintSession(s, host) ==
    /\ sessions[s] = None
    /\ sessions' = [sessions EXCEPT ![s] =
         [status |-> "awaiting_identity", openedAt |-> host,
          method |-> Method(host), expected |-> env.pinned,
          minter |-> None, commit |-> FALSE, commitTx |-> None, finalize |-> FALSE, finalizeTx |-> None]]
    /\ \E conn \in Conn(host) :
          requests' = requests \cup {Request(s, "identify", Asked(sessions'[s], "identify"), conn)}
    /\ UNCHANGED <<env, callbacks, work>>

---------------------------------------------------------------------------
(* CorePass *)

Signs(q) == q.step = "identify" /\ sessions[q.session].method = "sign"

(* What a callback tells, found by name wherever its query, form or JSON holds it.  A login
   request carries the session as a token and leads to the callback route without a path. *)
Fields(q, account, named) ==
    LET login == q.step = "identify" /\ ~Signs(q)
    IN  [request   |-> q,
         path      |-> IF login THEN [session |-> None, step |-> None]
                                ELSE [session |-> q.session, step |-> q.step],
         token     |-> IF login THEN q.session ELSE None,
         coreId    |-> named,
         signature |-> IF Signs(q) THEN account ELSE None,
         sender    |-> account]

(* A wallet approves a request and says so, whether it names itself or not (nobody reads a name
   in a finalize callback).  Next to a signature any account may be named. *)
Approve(q, account, named) ==
    /\ q \in requests /\ q.account \in {None, account}
    /\ named \in {None, account} \/ Signs(q)
    /\ q.step = "finalize" => named = account
    /\ Cardinality(callbacks) < MaxCallbacks
    /\ callbacks' = callbacks \cup {Fields(q, account, named)}
    /\ UNCHANGED <<env, sessions, requests, work>>

---------------------------------------------------------------------------
(* Callbacks *)

SessionId(c) == IF c.path.session # None THEN c.path.session ELSE c.token
Step(c)      == IF c.path.step # None THEN c.path.step ELSE "identify"

(* The button of the page that has a commit finalized: no callback of a wallet. *)
ByHand(s) == [request |-> None, path |-> [session |-> s, step |-> "relay"], token |-> None,
              coreId |-> None, signature |-> None, sender |-> Relayer]

(* getRequiredSession *)
Read(h, c) ==
    /\ work[h] = Free
    /\ SessionId(c) \in Sessions /\ sessions[SessionId(c)] # None
    /\ work' = [work EXCEPT ![h] = [callback |-> c, copy |-> sessions[SessionId(c)]]]
    /\ UNCHANGED <<env, sessions, requests, callbacks>>

(* persistSession *)
Persist(h, session, shown) ==
    /\ sessions' = [sessions EXCEPT ![SessionId(work[h].callback)] = session]
    /\ requests' = requests \cup shown

(* completeCorePassCallback, or the JSON answer of a POST *)
Answers(h) ==
    /\ work' = [work EXCEPT ![h] = Free]
    /\ UNCHANGED <<env, callbacks>>

Recovered(session, c) == IF session.method = "sign" THEN c.signature ELSE None

(* Mutant of Resolved: a name comes before the signature. *)
ResolvedByName(session, c) ==
    IF c.coreId # None THEN c.coreId
    ELSE IF env.recovery /\ Recovered(session, c) # None THEN Recovered(session, c)
    ELSE session.expected

(* resolveIdentifyCoreIdOutcome *)
Resolved(session, c) ==
    IF env.recovery /\ Recovered(session, c) # None THEN Recovered(session, c)
    ELSE IF c.coreId # None THEN c.coreId
    ELSE session.expected

Identify(h) ==
    LET session == work[h].copy
        minter  == Resolved(session, work[h].callback)
        s       == SessionId(work[h].callback)
    IN  /\ Step(work[h].callback) = "identify"
        /\ \/ /\ minter = None
              /\ Persist(h, session, {}) /\ Answers(h)
           \/ /\ minter # None
              /\ Persist(h, [session EXCEPT !.minter = minter, !.status = "precheck_rejected"], {})
              /\ Answers(h)
           \/ /\ minter # None
              /\ \E conn \in Conn(work[h].callback.request.conn) :
                    Persist(h, [session EXCEPT !.minter = minter, !.status = "awaiting_commit",
                                               !.commit = TRUE, !.commitTx = None],
                            {Request(s, "commit", minter, conn)})
              /\ Answers(h)

(* Mutant of Mismatch: any account's commit will do. *)
NeverMismatch(session, c) == FALSE

Mismatch(session, c) == c.coreId # None /\ session.minter # None /\ c.coreId # session.minter

Commit(h) ==
    LET session == work[h].copy  c == work[h].callback
    IN  /\ Step(c) = "commit"
        /\ session.commit /\ ~Mismatch(session, c)
        /\ \E conn \in Conn(c.request.conn) :
              Persist(h, [session EXCEPT !.status = "commit_submitted", !.commitTx = c.sender, !.finalize = TRUE],
                      {Request(SessionId(c), "finalize", session.minter, conn)})
        /\ Answers(h)

Finalize(h) ==
    LET session == work[h].copy  c == work[h].callback
    IN  /\ Step(c) = "finalize"
        /\ session.finalize
        /\ Persist(h, IF session.finalizeTx = c.sender THEN session
                      ELSE [session EXCEPT !.status = "finalized", !.finalizeTx = c.sender], {})
        /\ Answers(h)

(* attemptSessionFinalize *)
Relay(h) ==
    LET session == work[h].copy
    IN  /\ Step(work[h].callback) = "relay"
        /\ session.minter # None /\ session.finalize /\ session.finalizeTx = None
        /\ \E done \in {session, [session EXCEPT !.status = "finalize_submitted", !.finalizeTx = Relayer]} :
              Persist(h, done, {})
        /\ Answers(h)

(* The handler throws, or has nothing to do, and the record stays as it is stored. *)
Refuse(h) ==
    LET session == work[h].copy  c == work[h].callback
    IN  /\ \/ Step(c) = "commit" /\ (~session.commit \/ Mismatch(session, c) \/ Conn(c.request.conn) = {})
           \/ Step(c) = "finalize" /\ ~session.finalize
           \/ Step(c) = "relay" /\ (session.minter = None \/ ~session.finalize \/ session.finalizeTx # None)
        /\ Answers(h)
        /\ UNCHANGED <<sessions, requests>>

Next ==
    \/ \E s \in Sessions, host \in Hosts : CreateMintSession(s, host)
    \/ \E q \in requests, account \in Accounts, named \in Account : Approve(q, account, named)
    \/ \E h \in Handlers :
          \/ \E c \in callbacks \cup {ByHand(s) : s \in Sessions} : Read(h, c)
          \/ work[h] # Free /\ (Identify(h) \/ Commit(h) \/ Finalize(h) \/ Relay(h) \/ Refuse(h))

Spec == Init /\ [][Next]_vars

---------------------------------------------------------------------------
(* Properties *)

TypeOK ==
    /\ env \in Settings
    /\ sessions \in [Sessions -> Records \cup {None}]
    /\ requests \subseteq [session : Sessions, step : Steps \ {"relay"}, account : Account, conn : Hosts]
    /\ \A c \in callbacks : c.request \in requests /\ c.sender \in Accounts /\ c.coreId \in Account
    /\ \A h \in Handlers : work[h] # Free =>
          /\ work[h].copy \in Records
          /\ work[h].callback \in callbacks \cup {ByHand(s) : s \in Sessions}

Approvers(s) == {c.sender : c \in {d \in callbacks : d.request.session = s /\ d.request.step = "identify"}}

Named(s, account) == \E c \in callbacks : /\ c.request.session = s /\ c.request.step = "identify"
                                          /\ c.coreId = account

(* Nobody is taken for the minter of a session without having approved its first request,
   whatever account a callback names next to the signature of another, and however callbacks
   overlap.  Where signatures are not recovered the name alone decides, and the minter of a
   session to sign is only somebody a callback named. *)
MinterApproved ==
    \A s \in Sessions : sessions[s] # None /\ sessions[s].minter # None =>
        \/ sessions[s].minter \in Approvers(s)
        \/ sessions[s].method = "sign" /\ ~env.recovery /\ Named(s, sessions[s].minter)

Unnamed(s, account) ==
    \E c \in callbacks : /\ c.request.session = s /\ c.request.step = "commit"
                         /\ c.sender = account /\ c.coreId = None

(* The commit a session waits for was sent by its minter: the worker asks the chain for this
   hash and for that account's pending commit.  A second account may have identified meanwhile;
   only a callback that does not say whose commit it brings can then mix the two. *)
WatchedCommitIsMinters ==
    \A s \in Sessions : sessions[s] # None /\ sessions[s].status = "commit_submitted" =>
        sessions[s].commitTx = sessions[s].minter \/ Unnamed(s, sessions[s].commitTx)

(* Callbacks of a session come back to one host: the official one, if it was opened there. *)
ReturnsStayOnOrigin ==
    \A q \in requests :
        /\ sessions[q.session].openedAt \in Official => q.conn = sessions[q.session].openedAt
        /\ \A r \in requests : r.session = q.session => r.conn = q.conn
=============================================================================
