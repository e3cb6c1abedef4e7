----------------------- MODULE CorePassCallbackProofs -----------------------
(***************************************************************************)
(* Whose session it is, for any accounts, sessions, handlers and hosts,    *)
(* and any number of callbacks.  A callback is about the session and step  *)
(* of the request it answers; a record, stored or in a handler's hands,    *)
(* names a minter that approved, or was named where the name alone         *)
(* decides, and a commit of that minter.                                   *)
(***************************************************************************)
EXTENDS CorePassCallback, TLAPS

USE CorePassAssumption

(* The parts of the inductive invariant: what a record of session s may say when cs have been sent. *)
Approved(cs, s, account) ==
    \E d \in cs : d.request.session = s /\ d.request.step = "identify" /\ d.sender = account

SentUnnamed(cs, s, account) ==
    \E d \in cs : d.request.session = s /\ d.request.step = "commit" /\ d.sender = account /\ d.coreId = None

NamedIn(cs, s, account) ==
    \E d \in cs : d.request.session = s /\ d.request.step = "identify" /\ d.coreId = account

(* Approved, or named where the name alone decides: rec tells whether signatures are recovered. *)
Vouched(rec, cs, s, method, account) ==
    Approved(cs, s, account) \/ (method = "sign" /\ ~rec /\ NamedIn(cs, s, account))

Sound(rec, cs, s, r) ==
    /\ r.minter # None => Vouched(rec, cs, s, r.method, r.minter)
    /\ r.commit => r.minter # None
    /\ r.status = "commit_submitted" => r.commitTx = r.minter \/ SentUnnamed(cs, s, r.commitTx)

RequestsOk ==
    \A q \in requests :
        /\ sessions[q.session] # None
        /\ q.conn \in Conn(sessions[q.session].openedAt)
        /\ q.step = "identify" => q.account = sessions[q.session].expected

(* A callback answers the request it was made for.  It names its sender or nobody, or carries
   the sender's signature. *)
CallbacksOk ==
    \A c \in callbacks :
        /\ SessionId(c) = c.request.session /\ Step(c) = c.request.step
        /\ c.request.account \in {None, c.sender}
        /\ \/ c.coreId \in {None, c.sender}
           \/ c.request.step = "identify" /\ sessions[c.request.session].method = "sign"
        /\ c.request.step = "identify" /\ sessions[c.request.session].method = "sign" => c.signature = c.sender

RecordsOk == \A s \in Sessions : sessions[s] # None => Sound(env.recovery, callbacks, s, sessions[s])

(* A copy is as good as the record, however old it is. *)
CopiesOk ==
    \A h \in Handlers : work[h] # Free =>
        /\ SessionId(work[h].callback) \in Sessions
        /\ sessions[SessionId(work[h].callback)] # None
        /\ work[h].copy.openedAt = sessions[SessionId(work[h].callback)].openedAt
        /\ work[h].copy.expected = sessions[SessionId(work[h].callback)].expected
        /\ work[h].copy.method = sessions[SessionId(work[h].callback)].method
        /\ Sound(env.recovery, callbacks, SessionId(work[h].callback), work[h].copy)

IInv ==
    /\ TypeOK /\ DOMAIN work = Handlers
    /\ RequestsOk /\ CallbacksOk /\ RecordsOk /\ CopiesOk

---------------------------------------------------------------------------
(* Operators *)

(* A callback finds the way its request went: the host it arrives at sends the next one there too. *)
LEMMA ConnIsStable ==
  ASSUME env \in Settings, NEW host \in Hosts, NEW conn \in Conn(host)
  PROVE  /\ conn \in Hosts /\ Conn(conn) = Conn(host)
         /\ Conn(host) = {conn}
         /\ host \in Official => conn = host
<1>1. env.site \in Hosts \cup {None}
  OBVIOUS
<1>2. CASE host \in Official
  BY <1>2 DEF Conn
<1>3. CASE host \notin Official /\ env.site # None
  BY <1>1, <1>3 DEF Conn
<1>4. CASE host \notin Official /\ env.site = None
  BY <1>4 DEF Conn
<1> QED
  BY <1>2, <1>3, <1>4

(* What is known of a record is never unlearnt. *)
LEMMA SoundIsKept ==
  ASSUME NEW rec, NEW cs, NEW more, cs \subseteq more, NEW s, NEW r, Sound(rec, cs, s, r)
  PROVE  Sound(rec, more, s, r)
BY DEF Sound, Vouched, Approved, NamedIn, SentUnnamed

(* The callback in a handler's hands, unless it is the page's button. *)
LEMMA HandledCallback ==
  ASSUME IInv, NEW h \in Handlers, work[h] # Free, Step(work[h].callback) # "relay"
  PROVE  /\ work[h].callback \in callbacks
         /\ work[h].callback.request.conn \in Hosts
         /\ Conn(work[h].callback.request.conn) = Conn(work[h].copy.openedAt)
<1> DEFINE c == work[h].callback
<1>1. ASSUME NEW s \in Sessions
      PROVE  Step(ByHand(s)) = "relay"
  BY DEF ByHand, Step, Steps
<1>2. c \in callbacks
  BY <1>1 DEF IInv, TypeOK
<1>3. c.request \in requests
  BY <1>2 DEF IInv, TypeOK
<1>4. /\ SessionId(c) = c.request.session
      /\ c.request.conn \in Conn(sessions[c.request.session].openedAt)
      /\ sessions[c.request.session] # None
      /\ c.request.session \in Sessions
  BY <1>2, <1>3 DEF IInv, RequestsOk, CallbacksOk, TypeOK
<1>5. sessions[c.request.session] \in Records
  BY <1>4 DEF IInv, TypeOK
<1>6. sessions[c.request.session].openedAt \in Hosts
  BY <1>5 DEF Records
<1>7. work[h].copy.openedAt = sessions[c.request.session].openedAt
  BY <1>4 DEF IInv, CopiesOk
<1>8. /\ c.request.conn \in Hosts
      /\ Conn(c.request.conn) = Conn(sessions[c.request.session].openedAt)
  BY <1>4, <1>6, ConnIsStable DEF IInv, TypeOK
<1> QED
  BY <1>2, <1>7, <1>8

---------------------------------------------------------------------------
(* Steps *)

LEMMA InitEstablishes == Init => IInv
<1> SUFFICES ASSUME Init PROVE IInv
  OBVIOUS
<1>1. \A h \in Handlers : work[h] = Free
  BY DEF Init
<1>2. TypeOK /\ DOMAIN work = Handlers
  BY <1>1 DEF Init, TypeOK
<1> QED
  BY <1>1, <1>2 DEF Init, IInv, RequestsOk, CallbacksOk, RecordsOk, CopiesOk

LEMMA CreateKeeps ==
  ASSUME IInv, NEW s \in Sessions, NEW host \in Hosts, CreateMintSession(s, host)
  PROVE  IInv'
<1> DEFINE r == [status |-> "awaiting_identity", openedAt |-> host,
                 method |-> Method(host), expected |-> env.pinned,
                 minter |-> None, commit |-> FALSE, commitTx |-> None, finalize |-> FALSE, finalizeTx |-> None]
<1>0. /\ env \in Settings
      /\ env.pinned \in Account /\ env.method \in {"login", "sign"}
  BY DEF IInv, TypeOK
<1>1. r \in Records
  BY <1>0 DEF Records, Method, Account
<1>2. r # None
  BY <1>1
<1>3. /\ sessions \in [Sessions -> Records \cup {None}]
      /\ sessions[s] = None
      /\ sessions' = [sessions EXCEPT ![s] = r]
      /\ UNCHANGED <<env, callbacks, work>>
  BY DEF CreateMintSession, IInv, TypeOK
<1>4. /\ sessions'[s] = r
      /\ \A t \in Sessions \ {s} : sessions'[t] = sessions[t]
      /\ sessions' \in [Sessions -> Records \cup {None}]
  BY <1>1, <1>3
<1> HIDE DEF r
<1>5. PICK conn \in Conn(host) :
        requests' = requests \cup {Request(s, "identify", Asked(sessions'[s], "identify"), conn)}
  BY DEF CreateMintSession
<1>6. conn \in Hosts
  BY <1>0, ConnIsStable
<1> DEFINE q == Request(s, "identify", Asked(sessions'[s], "identify"), conn)
<1>7. /\ r.openedAt = host /\ r.expected = env.pinned /\ r.minter = None
      /\ ~r.commit /\ r.status # "commit_submitted"
  BY DEF r
<1>8. /\ q \in [session : Sessions, step : Steps \ {"relay"}, account : Account, conn : Hosts]
      /\ q.session = s /\ q.conn = conn /\ q.account = env.pinned
  BY <1>0, <1>4, <1>6, <1>7 DEF Request, Asked, Steps
<1> HIDE DEF q
<1>9. requests' = requests \cup {q}
  BY <1>5 DEF q
<1>10. \A p \in requests : p.session \in Sessions \ {s}
  BY <1>3 DEF IInv, TypeOK, RequestsOk
<1>11. TypeOK' /\ (DOMAIN work = Handlers)'
  BY <1>3, <1>4, <1>8, <1>9 DEF IInv, TypeOK
<1>12. RequestsOk'
  <2>1. Conn(host)' = Conn(host)
    BY <1>3 DEF Conn
  <2>2. ASSUME NEW p \in requests
        PROVE  (/\ sessions[p.session] # None
                /\ p.conn \in Conn(sessions[p.session].openedAt)
                /\ p.step = "identify" => p.account = sessions[p.session].expected)'
    <3>1. sessions'[p.session] = sessions[p.session]
      BY <1>4, <1>10
    <3>2. Conn(sessions[p.session].openedAt)' = Conn(sessions[p.session].openedAt)
      BY <1>3, <3>1 DEF Conn
    <3> QED
      BY <3>1, <3>2 DEF IInv, RequestsOk
  <2>3. /\ sessions'[q.session] # None
        /\ q.conn \in Conn(sessions[s].openedAt)'
        /\ q.account = sessions'[q.session].expected
    <3>1. Conn(sessions[s].openedAt)' = Conn(host)
      BY <1>3, <1>4, <1>7 DEF Conn
    <3> QED
      BY <3>1, <1>2, <1>4, <1>7, <1>8
  <2> QED
    BY <1>8, <1>9, <2>2, <2>3 DEF RequestsOk
<1>13. CallbacksOk' /\ RecordsOk'
  <2>1. \A c \in callbacks : c.request \in requests /\ sessions'[c.request.session] = sessions[c.request.session]
    BY <1>4, <1>10 DEF IInv, TypeOK
  <2>2. CallbacksOk'
    BY <1>3, <2>1 DEF IInv, CallbacksOk
  <2>3. RecordsOk'
    BY <1>3, <1>4, <1>7 DEF IInv, RecordsOk, Sound
  <2> QED
    BY <2>2, <2>3
<1>14. CopiesOk'
  BY <1>3, <1>4 DEF IInv, CopiesOk
<1> QED
  BY <1>11, <1>12, <1>13, <1>14 DEF IInv

LEMMA ApproveKeeps ==
  ASSUME IInv, NEW q \in requests, NEW account \in Accounts, NEW named \in Account, Approve(q, account, named)
  PROVE  IInv'
<1> DEFINE login == q.step = "identify" /\ sessions[q.session].method = "login"
           c == Fields(q, account, named)
<1>1. /\ callbacks' = callbacks \cup {c}
      /\ q.account \in {None, account}
      /\ UNCHANGED <<env, sessions, requests, work>>
  BY DEF Approve
<1>2. q.session \in Sessions /\ q.step \in Steps
  BY DEF IInv, TypeOK
<1>3. /\ SessionId(c) = q.session /\ Step(c) = q.step
  <2>1. CASE login
    BY <1>2, <2>1 DEF SessionId, Step, Fields, Signs
  <2>2. CASE ~login
    BY <1>2, <2>2 DEF SessionId, Step, Fields, Signs
  <2> QED
    BY <2>1, <2>2
<1>4. /\ c.request = q /\ c.sender = account /\ c.coreId = named
      /\ named \in {None, account} \/ Signs(q)
      /\ Signs(q) => c.signature = account
  BY DEF Approve, Fields
<1> HIDE DEF c
<1>5. TypeOK' /\ (DOMAIN work = Handlers)'
  BY <1>1, <1>4 DEF IInv, TypeOK
<1>6. RequestsOk'
  BY <1>1 DEF IInv, RequestsOk, Conn
<1>7. CallbacksOk'
  BY <1>1, <1>3, <1>4 DEF IInv, CallbacksOk, Signs
<1>8. callbacks \subseteq callbacks'
  BY <1>1
<1>9. RecordsOk'
  <2> SUFFICES ASSUME NEW s \in Sessions, sessions[s] # None
               PROVE  Sound(env.recovery, callbacks', s, sessions[s])
    BY <1>1 DEF RecordsOk
  <2>1. Sound(env.recovery, callbacks, s, sessions[s])
    BY DEF IInv, RecordsOk
  <2> QED
    BY <1>8, <2>1, SoundIsKept
<1>10. CopiesOk'
  <2> SUFFICES ASSUME NEW h \in Handlers, work[h] # Free
               PROVE  Sound(env.recovery, callbacks', SessionId(work[h].callback), work[h].copy)
    BY <1>1 DEF IInv, CopiesOk
  <2>1. Sound(env.recovery, callbacks, SessionId(work[h].callback), work[h].copy)
    BY DEF IInv, CopiesOk
  <2> QED
    BY <1>8, <2>1, SoundIsKept
<1> QED
  BY <1>5, <1>6, <1>7, <1>9, <1>10 DEF IInv

LEMMA ReadKeeps ==
  ASSUME IInv, NEW h \in Handlers, NEW c \in callbacks \cup {ByHand(s) : s \in Sessions}, Read(h, c)
  PROVE  IInv'
<1> DEFINE w == [callback |-> c, copy |-> sessions[SessionId(c)]]
<1>1. /\ SessionId(c) \in Sessions /\ sessions[SessionId(c)] # None
      /\ work' = [work EXCEPT ![h] = w]
      /\ UNCHANGED <<env, sessions, requests, callbacks>>
  BY DEF Read
<1>2. /\ work'[h] = w /\ w.callback = c /\ w.copy = sessions[SessionId(c)]
      /\ \A k \in Handlers \ {h} : work'[k] = work[k]
      /\ DOMAIN work' = Handlers
  BY <1>1 DEF IInv
<1>3. sessions[SessionId(c)] \in Records /\ Sound(env.recovery, callbacks, SessionId(c), sessions[SessionId(c)])
  BY <1>1 DEF IInv, TypeOK, RecordsOk
<1> HIDE DEF w
<1>4. TypeOK'
  <2> SUFFICES ASSUME NEW k \in Handlers, work'[k] # Free
               PROVE  /\ work'[k].copy \in Records
                      /\ work'[k].callback \in callbacks \cup {ByHand(s) : s \in Sessions}
    BY <1>1 DEF IInv, TypeOK
  <2>1. CASE k = h
    BY <1>2, <1>3, <2>1
  <2>2. CASE k # h
    BY <1>2, <2>2 DEF IInv, TypeOK
  <2> QED
    BY <2>1, <2>2
<1>5. RequestsOk' /\ CallbacksOk' /\ RecordsOk'
  BY <1>1 DEF IInv, RequestsOk, CallbacksOk, RecordsOk, Conn
<1>6. CopiesOk'
  <2> SUFFICES ASSUME NEW k \in Handlers, work'[k] # Free
               PROVE  /\ SessionId(work'[k].callback) \in Sessions
                      /\ sessions[SessionId(work'[k].callback)] # None
                      /\ work'[k].copy.openedAt = sessions[SessionId(work'[k].callback)].openedAt
                      /\ work'[k].copy.expected = sessions[SessionId(work'[k].callback)].expected
                      /\ work'[k].copy.method = sessions[SessionId(work'[k].callback)].method
                      /\ Sound(env.recovery, callbacks, SessionId(work'[k].callback), work'[k].copy)
    BY <1>1 DEF CopiesOk
  <2>1. CASE k = h
    BY <1>1, <1>2, <1>3, <2>1
  <2>2. CASE k # h
    BY <1>2, <2>2 DEF IInv, CopiesOk
  <2> QED
    BY <2>1, <2>2
<1> QED
  BY <1>2, <1>4, <1>5, <1>6 DEF IInv

(* Storing a sound copy over whatever became of the record meanwhile, and showing more requests. *)
LEMMA PersistKeeps ==
  ASSUME IInv, NEW h \in Handlers, work[h] # Free,
         NEW s \in Sessions, s = SessionId(work[h].callback),
         NEW r \in Records, Sound(env.recovery, callbacks, s, r),
         r.openedAt = work[h].copy.openedAt, r.expected = work[h].copy.expected,
         r.method = work[h].copy.method,
         NEW shown,
         \A q \in shown :
           /\ q \in [session : Sessions, step : Steps \ {"relay"}, account : Account, conn : Hosts]
           /\ q.session = s /\ q.step # "identify" /\ q.conn \in Conn(r.openedAt),
         sessions' = [sessions EXCEPT ![s] = r],
         requests' = requests \cup shown,
         work' = [work EXCEPT ![h] = Free],
         UNCHANGED <<env, callbacks>>
  PROVE  IInv'
<1>1. /\ sessions \in [Sessions -> Records \cup {None}]
      /\ sessions[s] # None
      /\ r.openedAt = sessions[s].openedAt /\ r.expected = sessions[s].expected
      /\ r.method = sessions[s].method
      /\ r # None
  BY DEF IInv, TypeOK, CopiesOk
<1>2. /\ sessions'[s] = r
      /\ \A t \in Sessions \ {s} : sessions'[t] = sessions[t]
      /\ sessions' \in [Sessions -> Records \cup {None}]
  BY <1>1
<1>3. /\ \A t \in Sessions : sessions[t] # None =>
            /\ sessions'[t] # None
            /\ sessions'[t].openedAt = sessions[t].openedAt
            /\ sessions'[t].expected = sessions[t].expected
            /\ sessions'[t].method = sessions[t].method
  BY <1>1, <1>2
<1>4. /\ work'[h] = Free
      /\ \A k \in Handlers \ {h} : work'[k] = work[k]
      /\ DOMAIN work' = Handlers
  BY DEF IInv
<1>5. TypeOK' /\ (DOMAIN work = Handlers)'
  <2>1. /\ requests' \subseteq [session : Sessions, step : Steps \ {"relay"}, account : Account, conn : Hosts]
        /\ requests \subseteq requests'
    BY DEF IInv, TypeOK
  <2>2. \A k \in Handlers : work'[k] # Free =>
          /\ work'[k].copy \in Records
          /\ work'[k].callback \in callbacks \cup {ByHand(t) : t \in Sessions}
    BY <1>4 DEF IInv, TypeOK
  <2> QED
    BY <1>2, <1>4, <2>1, <2>2 DEF IInv, TypeOK
<1>6. RequestsOk'
  <2> SUFFICES ASSUME NEW q \in requests'
               PROVE  /\ sessions'[q.session] # None
                      /\ q.conn \in Conn(sessions[q.session].openedAt)'
                      /\ q.step = "identify" => q.account = sessions'[q.session].expected
    BY DEF RequestsOk
  <2>1. Conn(sessions[q.session].openedAt)' = Conn(sessions'[q.session].openedAt)
    BY DEF Conn
  <2>2. CASE q \in shown
    BY <1>1, <1>2, <2>1, <2>2
  <2>3. CASE q \in requests
    <3>1. q.session \in Sessions /\ sessions[q.session] # None
      BY <2>3 DEF IInv, TypeOK, RequestsOk
    <3>2. /\ sessions'[q.session] # None
          /\ sessions'[q.session].openedAt = sessions[q.session].openedAt
          /\ sessions'[q.session].expected = sessions[q.session].expected
      BY <1>3, <3>1
    <3> QED
      BY <2>1, <2>3, <3>2 DEF IInv, RequestsOk
  <2> QED
    BY <2>2, <2>3
<1>7. CallbacksOk'
  <2>1. \A c \in callbacks : sessions'[c.request.session].method = sessions[c.request.session].method
    BY <1>3 DEF IInv, TypeOK, RequestsOk
  <2> QED
    BY <2>1 DEF IInv, CallbacksOk
<1>8. RecordsOk'
  <2> SUFFICES ASSUME NEW t \in Sessions, sessions'[t] # None
               PROVE  Sound(env.recovery, callbacks, t, sessions'[t])
    BY DEF RecordsOk
  <2>1. CASE t = s
    BY <1>2, <2>1
  <2>2. CASE t # s
    BY <1>2, <2>2 DEF IInv, RecordsOk
  <2> QED
    BY <2>1, <2>2
<1>9. CopiesOk'
  <2> SUFFICES ASSUME NEW k \in Handlers, work'[k] # Free
               PROVE  /\ SessionId(work'[k].callback) \in Sessions
                      /\ sessions'[SessionId(work'[k].callback)] # None
                      /\ work'[k].copy.openedAt = sessions'[SessionId(work'[k].callback)].openedAt
                      /\ work'[k].copy.expected = sessions'[SessionId(work'[k].callback)].expected
                      /\ work'[k].copy.method = sessions'[SessionId(work'[k].callback)].method
                      /\ Sound(env.recovery, callbacks, SessionId(work'[k].callback), work'[k].copy)
    BY DEF CopiesOk
  <2>1. k # h /\ work'[k] = work[k]
    BY <1>4
  <2> QED
    BY <1>3, <2>1 DEF IInv, CopiesOk
<1> QED
  BY <1>5, <1>6, <1>7, <1>8, <1>9 DEF IInv

LEMMA StoreKeeps ==
  ASSUME IInv, NEW h \in Handlers, work[h] # Free,
         NEW s \in Sessions, s = SessionId(work[h].callback),
         NEW r \in Records, Sound(env.recovery, callbacks, s, r),
         r.openedAt = work[h].copy.openedAt, r.expected = work[h].copy.expected,
         r.method = work[h].copy.method,
         sessions' = [sessions EXCEPT ![s] = r],
         requests' = requests \cup {},
         work' = [work EXCEPT ![h] = Free],
         UNCHANGED <<env, callbacks>>
  PROVE  IInv'
<1>1. PICK shown : shown = {}
  OBVIOUS
<1>2. /\ requests' = requests \cup shown
      /\ \A q \in shown :
           /\ q \in [session : Sessions, step : Steps \ {"relay"}, account : Account, conn : Hosts]
           /\ q.session = s /\ q.step # "identify" /\ q.conn \in Conn(r.openedAt)
  BY <1>1
<1> QED
  BY <1>2, PersistKeeps

(* The minter a callback of the first step settles on is vouched for. *)
LEMMA ResolvedVouched ==
  ASSUME IInv, NEW h \in Handlers, work[h] # Free, Step(work[h].callback) = "identify",
         Resolved(work[h].copy, work[h].callback) # None
  PROVE  /\ Resolved(work[h].copy, work[h].callback) \in Accounts
         /\ Vouched(env.recovery, callbacks, SessionId(work[h].callback), work[h].copy.method,
                    Resolved(work[h].copy, work[h].callback))
<1> DEFINE c == work[h].callback
           account == Resolved(work[h].copy, c)
<1>1. /\ c \in callbacks /\ Step(c) # "relay"
  BY HandledCallback
<1>2. /\ c.request \in requests /\ c.sender \in Accounts /\ c.coreId \in Account
      /\ c.request.account \in {None, c.sender}
      /\ SessionId(c) = c.request.session /\ c.request.step = "identify"
  BY <1>1 DEF IInv, TypeOK, CallbacksOk
<1>3. /\ work[h].copy.expected = c.request.account
      /\ work[h].copy.method = sessions[c.request.session].method
  BY <1>2 DEF IInv, RequestsOk, CopiesOk
<1>4. /\ work[h].copy.method = "sign" => c.signature = c.sender
      /\ work[h].copy.method # "sign" => c.coreId \in {None, c.sender}
  BY <1>1, <1>2, <1>3 DEF IInv, CallbacksOk
<1>5. \/ account = c.sender
      \/ work[h].copy.method = "sign" /\ ~env.recovery /\ account = c.coreId
  BY <1>2, <1>3, <1>4 DEF Resolved, Recovered
<1>6. account \in Accounts
  BY <1>2, <1>5 DEF Account
<1>7. CASE account = c.sender
  BY <1>1, <1>2, <1>6, <1>7 DEF Vouched, Approved
<1>8. CASE work[h].copy.method = "sign" /\ ~env.recovery /\ account = c.coreId
  BY <1>1, <1>2, <1>6, <1>8 DEF Vouched, NamedIn
<1> QED
  BY <1>5, <1>7, <1>8

(* The copy in a handler's hands, its session named apart. *)
LEMMA HandledCopy ==
  ASSUME IInv, NEW h \in Handlers, work[h] # Free
  PROVE  /\ SessionId(work[h].callback) \in Sessions
         /\ work[h].copy \in Records
         /\ Sound(env.recovery, callbacks, SessionId(work[h].callback), work[h].copy)
BY DEF IInv, TypeOK, CopiesOk

LEMMA IdentifyKeeps ==
  ASSUME IInv, NEW h \in Handlers, work[h] # Free, Identify(h)
  PROVE  IInv'
<1>1. PICK s \in Sessions : s = SessionId(work[h].callback)
  BY HandledCopy
<1>2. PICK r \in Records : r = work[h].copy
  BY HandledCopy
<1>3. /\ Sound(env.recovery, callbacks, s, r)
      /\ Step(work[h].callback) = "identify" /\ Step(work[h].callback) # "relay"
  BY <1>1, <1>2, HandledCopy DEF Identify
<1> DEFINE minter == Resolved(work[h].copy, work[h].callback)
<1>4. CASE minter = None /\ Persist(h, work[h].copy, {}) /\ Answers(h)
  <2>1. /\ sessions' = [sessions EXCEPT ![s] = r]
        /\ requests' = requests \cup {} /\ work' = [work EXCEPT ![h] = Free]
        /\ UNCHANGED <<env, callbacks>>
    BY <1>1, <1>2, <1>4 DEF Persist, Answers
  <2> QED
    BY <1>1, <1>2, <1>3, <2>1, StoreKeeps
<1>5. CASE /\ minter # None
           /\ Persist(h, [work[h].copy EXCEPT !.minter = minter, !.status = "precheck_rejected"], {})
           /\ Answers(h)
  <2>1. minter \in Accounts /\ Vouched(env.recovery, callbacks, s, r.method, minter)
    BY <1>1, <1>2, <1>3, <1>5, ResolvedVouched
  <2>2. PICK m \in Accounts : m = minter /\ Vouched(env.recovery, callbacks, s, r.method, m)
    BY <2>1
  <2>3. PICK t \in Records : t = [r EXCEPT !.minter = m, !.status = "precheck_rejected"]
    BY DEF Records, Account
  <2>4. /\ Sound(env.recovery, callbacks, s, t)
        /\ t.openedAt = work[h].copy.openedAt /\ t.expected = work[h].copy.expected
        /\ t.method = work[h].copy.method
    BY <1>2, <2>2, <2>3 DEF Sound, Records
  <2>5. /\ sessions' = [sessions EXCEPT ![s] = t]
        /\ requests' = requests \cup {} /\ work' = [work EXCEPT ![h] = Free]
        /\ UNCHANGED <<env, callbacks>>
    BY <1>1, <1>2, <1>5, <2>2, <2>3 DEF Persist, Answers
  <2> QED
    BY <1>1, <2>4, <2>5, StoreKeeps
<1>6. CASE /\ minter # None
           /\ \E conn \in Conn(work[h].callback.request.conn) :
                 Persist(h, [work[h].copy EXCEPT !.minter = minter, !.status = "awaiting_commit",
                                                 !.commit = TRUE, !.commitTx = None],
                         {Request(SessionId(work[h].callback), "commit", minter, conn)})
           /\ Answers(h)
  <2>1. minter \in Accounts /\ Vouched(env.recovery, callbacks, s, r.method, minter)
    BY <1>1, <1>2, <1>3, <1>6, ResolvedVouched
  <2>2. PICK m \in Accounts : m = minter /\ Vouched(env.recovery, callbacks, s, r.method, m)
    BY <2>1
  <2>3. PICK t \in Records : t = [r EXCEPT !.minter = m, !.status = "awaiting_commit",
                                           !.commit = TRUE, !.commitTx = None]
    BY DEF Records, Account
  <2>4. /\ Sound(env.recovery, callbacks, s, t)
        /\ t.openedAt = work[h].copy.openedAt /\ t.expected = work[h].copy.expected
        /\ t.method = work[h].copy.method
        /\ t.openedAt \in Hosts
    BY <1>2, <2>2, <2>3 DEF Sound, Records
  <2>5. PICK conn \in Conn(work[h].callback.request.conn) :
          Persist(h, [work[h].copy EXCEPT !.minter = minter, !.status = "awaiting_commit",
                                          !.commit = TRUE, !.commitTx = None],
                  {Request(SessionId(work[h].callback), "commit", minter, conn)})
    BY <1>6
  <2>6. conn \in Conn(t.openedAt) /\ conn \in Hosts
    BY <1>3, <2>4, <2>5, HandledCallback, ConnIsStable DEF IInv, TypeOK
  <2>7. PICK shown : shown = {Request(s, "commit", m, conn)}
    OBVIOUS
  <2>8. \A q \in shown :
          /\ q \in [session : Sessions, step : Steps \ {"relay"}, account : Account, conn : Hosts]
          /\ q.session = s /\ q.step # "identify" /\ q.conn \in Conn(t.openedAt)
    BY <2>6, <2>7 DEF Request, Steps, Account
  <2>9. /\ sessions' = [sessions EXCEPT ![s] = t]
        /\ requests' = requests \cup shown /\ work' = [work EXCEPT ![h] = Free]
        /\ UNCHANGED <<env, callbacks>>
    BY <1>1, <1>2, <1>6, <2>2, <2>3, <2>5, <2>7 DEF Persist, Answers
  <2> QED
    BY <1>1, <2>4, <2>8, <2>9, PersistKeeps
<1> QED
  BY <1>4, <1>5, <1>6 DEF Identify

LEMMA CommitKeeps ==
  ASSUME IInv, NEW h \in Handlers, work[h] # Free, Commit(h)
  PROVE  IInv'
<1>1. PICK s \in Sessions : s = SessionId(work[h].callback)
  BY HandledCopy
<1>2. PICK r \in Records : r = work[h].copy
  BY HandledCopy
<1>3. PICK c : c = work[h].callback
  OBVIOUS
<1>4. /\ Sound(env.recovery, callbacks, s, r)
      /\ Step(c) = "commit" /\ Step(c) # "relay"
      /\ r.commit /\ ~Mismatch(r, c)
      /\ Answers(h)
  BY <1>1, <1>2, <1>3, HandledCopy DEF Commit
<1>5. /\ c \in callbacks
      /\ c.sender \in Accounts /\ c.coreId \in {None, c.sender}
      /\ c.request.session = s /\ c.request.step = "commit"
  BY <1>1, <1>3, <1>4, HandledCallback DEF IInv, TypeOK, CallbacksOk
<1>6. r.minter # None /\ r.minter \in Accounts
  BY <1>4 DEF Sound, Records, Account
(* A named sender is the minter. *)
<1>7. c.sender = r.minter \/ SentUnnamed(callbacks, s, c.sender)
  BY <1>4, <1>5, <1>6 DEF Mismatch, SentUnnamed
<1>8. PICK t \in Records :
        t = [r EXCEPT !.status = "commit_submitted", !.commitTx = c.sender, !.finalize = TRUE]
  BY <1>5 DEF Records, Account
<1>9. /\ Sound(env.recovery, callbacks, s, t)
      /\ t.openedAt = work[h].copy.openedAt /\ t.expected = work[h].copy.expected
        /\ t.method = work[h].copy.method
      /\ t.openedAt \in Hosts
  BY <1>2, <1>4, <1>7, <1>8 DEF Sound, Records
<1>10. PICK conn \in Conn(c.request.conn) :
         Persist(h, [r EXCEPT !.status = "commit_submitted", !.commitTx = c.sender, !.finalize = TRUE],
                 {Request(SessionId(c), "finalize", r.minter, conn)})
  BY <1>2, <1>3 DEF Commit
<1>11. conn \in Conn(t.openedAt) /\ conn \in Hosts
  BY <1>3, <1>4, <1>9, <1>10, HandledCallback, ConnIsStable DEF IInv, TypeOK
<1>12. PICK shown : shown = {Request(s, "finalize", r.minter, conn)}
  OBVIOUS
<1>13. \A q \in shown :
         /\ q \in [session : Sessions, step : Steps \ {"relay"}, account : Account, conn : Hosts]
         /\ q.session = s /\ q.step # "identify" /\ q.conn \in Conn(t.openedAt)
  BY <1>6, <1>11, <1>12 DEF Request, Steps, Account
<1>14. /\ sessions' = [sessions EXCEPT ![s] = t]
       /\ requests' = requests \cup shown /\ work' = [work EXCEPT ![h] = Free]
       /\ UNCHANGED <<env, callbacks>>
  BY <1>1, <1>3, <1>4, <1>8, <1>10, <1>12 DEF Persist, Answers
<1> QED
  BY <1>1, <1>9, <1>13, <1>14, PersistKeeps

LEMMA FinalizeKeeps ==
  ASSUME IInv, NEW h \in Handlers, work[h] # Free, Finalize(h)
  PROVE  IInv'
<1>1. PICK s \in Sessions : s = SessionId(work[h].callback)
  BY HandledCopy
<1>2. PICK r \in Records : r = work[h].copy
  BY HandledCopy
<1>3. PICK c : c = work[h].callback
  OBVIOUS
<1>4. /\ Sound(env.recovery, callbacks, s, r) /\ Step(c) = "finalize" /\ Step(c) # "relay" /\ Answers(h)
  BY <1>1, <1>2, <1>3, HandledCopy DEF Finalize
<1>5. c.sender \in Accounts
  BY <1>3, <1>4, HandledCallback DEF IInv, TypeOK
<1>6. PICK t \in Records :
        t = IF r.finalizeTx = c.sender THEN r
            ELSE [r EXCEPT !.status = "finalized", !.finalizeTx = c.sender]
  BY <1>5 DEF Records, Account
<1>7. /\ Sound(env.recovery, callbacks, s, t)
      /\ t.openedAt = work[h].copy.openedAt /\ t.expected = work[h].copy.expected
        /\ t.method = work[h].copy.method
  BY <1>2, <1>4, <1>6 DEF Sound, Records
<1>8. /\ sessions' = [sessions EXCEPT ![s] = t]
      /\ requests' = requests \cup {} /\ work' = [work EXCEPT ![h] = Free]
      /\ UNCHANGED <<env, callbacks>>
  BY <1>1, <1>2, <1>3, <1>4, <1>6 DEF Finalize, Persist, Answers
<1> QED
  BY <1>1, <1>7, <1>8, StoreKeeps

LEMMA RelayKeeps ==
  ASSUME IInv, NEW h \in Handlers, work[h] # Free, Relay(h)
  PROVE  IInv'
<1>1. PICK s \in Sessions : s = SessionId(work[h].callback)
  BY HandledCopy
<1>2. PICK r \in Records : r = work[h].copy
  BY HandledCopy
<1>3. Sound(env.recovery, callbacks, s, r)
  BY <1>1, <1>2, HandledCopy
<1>4. PICK done \in {r, [r EXCEPT !.status = "finalize_submitted", !.finalizeTx = Relayer]} :
        Persist(h, done, {})
  BY <1>2 DEF Relay
<1>5. done \in Records
  BY DEF Records
<1>6. /\ done.openedAt = r.openedAt /\ done.expected = r.expected
      /\ done.method = r.method /\ done.minter = r.minter /\ done.commit = r.commit /\ done.commitTx = r.commitTx
      /\ done.status \in {r.status, "finalize_submitted"}
  BY DEF Records
<1>7. Sound(env.recovery, callbacks, s, done)
  BY <1>3, <1>6 DEF Sound
<1>8. /\ sessions' = [sessions EXCEPT ![s] = done]
      /\ requests' = requests \cup {} /\ work' = [work EXCEPT ![h] = Free]
      /\ UNCHANGED <<env, callbacks>>
  BY <1>1, <1>4 DEF Relay, Persist, Answers
<1> QED
  BY <1>1, <1>2, <1>5, <1>6, <1>7, <1>8, StoreKeeps

LEMMA RefuseKeeps ==
  ASSUME IInv, NEW h \in Handlers, work[h] # Free, Refuse(h)
  PROVE  IInv'
<1>1. /\ work' = [work EXCEPT ![h] = Free]
      /\ UNCHANGED <<env, callbacks, sessions, requests>>
  BY DEF Refuse, Answers
<1>2. /\ work'[h] = Free
      /\ \A k \in Handlers \ {h} : work'[k] = work[k]
      /\ DOMAIN work' = Handlers
  BY <1>1 DEF IInv
<1>3. TypeOK'
  BY <1>1, <1>2 DEF IInv, TypeOK
<1>4. RequestsOk' /\ CallbacksOk' /\ RecordsOk'
  BY <1>1 DEF IInv, RequestsOk, CallbacksOk, RecordsOk, Conn
<1>5. CopiesOk'
  BY <1>1, <1>2 DEF IInv, CopiesOk
<1> QED
  BY <1>2, <1>3, <1>4, <1>5 DEF IInv

LEMMA StepKeeps == IInv /\ [Next]_vars => IInv'
<1> SUFFICES ASSUME IInv, [Next]_vars PROVE IInv'
  OBVIOUS
<1>1. CASE UNCHANGED vars
  <2>1. UNCHANGED <<env, sessions, requests, callbacks, work>>
    BY <1>1 DEF vars
  <2> QED
    BY <2>1 DEF IInv, TypeOK, RequestsOk, CallbacksOk, RecordsOk, CopiesOk, Conn
<1>2. CASE \E s \in Sessions, host \in Hosts : CreateMintSession(s, host)
  BY <1>2, CreateKeeps
<1>3. CASE \E q \in requests, account \in Accounts, named \in Account : Approve(q, account, named)
  BY <1>3, ApproveKeeps
<1>4. CASE \E h \in Handlers, c \in callbacks \cup {ByHand(s) : s \in Sessions} : Read(h, c)
  BY <1>4, ReadKeeps
<1>5. CASE \E h \in Handlers : work[h] # Free /\ (Identify(h) \/ Commit(h) \/ Finalize(h) \/ Relay(h) \/ Refuse(h))
  BY <1>5, IdentifyKeeps, CommitKeeps, FinalizeKeeps, RelayKeeps, RefuseKeeps
<1> QED
  BY <1>1, <1>2, <1>3, <1>4, <1>5 DEF Next

---------------------------------------------------------------------------
(* Theorems *)

LEMMA Invariant == Spec => []IInv
  BY InitEstablishes, StepKeeps, PTL DEF Spec

(* Every record, copy, request and callback keeps its type: the code addresses a request to an
   account and a host it knows, never to nothing. *)
THEOREM CallbackTypes == Spec => []TypeOK
<1>1. IInv => TypeOK
  BY DEF IInv
<1> QED
  BY <1>1, Invariant, PTL

(* Whoever a session takes for its minter has approved its first request, whatever account a
   callback names next to a recovered signature; or is named by a callback to sign, where the
   server does not recover signatures.  For any number of accounts, callbacks and handlers. *)
THEOREM MinterAlwaysApproved == Spec => []MinterApproved
<1>1. IInv => MinterApproved
  BY DEF IInv, RecordsOk, Sound, Vouched, Approved, NamedIn, MinterApproved, Approvers, Named
<1> QED
  BY <1>1, Invariant, PTL

(* A session that waits for a commit waits for its minter's, unless the callback that brought the
   hash named nobody. *)
THEOREM WatchedCommitAlwaysMinters == Spec => []WatchedCommitIsMinters
<1>1. IInv => WatchedCommitIsMinters
  BY DEF IInv, RecordsOk, Sound, SentUnnamed, WatchedCommitIsMinters, Unnamed
<1> QED
  BY <1>1, Invariant, PTL

(* All requests of a session come back to one host, the official one if it was opened there. *)
THEOREM ReturnsAlwaysOnOrigin == Spec => []ReturnsStayOnOrigin
<1>1. ASSUME IInv, NEW q \in requests
      PROVE  /\ Conn(sessions[q.session].openedAt) = {q.conn}
             /\ sessions[q.session].openedAt \in Official => q.conn = sessions[q.session].openedAt
  <2>1. /\ sessions[q.session] \in Records /\ env \in Settings
        /\ q.conn \in Conn(sessions[q.session].openedAt)
    BY <1>1 DEF IInv, TypeOK, RequestsOk
  <2>2. sessions[q.session].openedAt \in Hosts
    BY <2>1 DEF Records
  <2> QED
    BY <2>1, <2>2, ConnIsStable
<1>2. IInv => ReturnsStayOnOrigin
  <2> SUFFICES ASSUME IInv, NEW q \in requests
               PROVE  /\ sessions[q.session].openedAt \in Official => q.conn = sessions[q.session].openedAt
                      /\ \A r \in requests : r.session = q.session => r.conn = q.conn
    BY DEF ReturnsStayOnOrigin
  <2>1. \A r \in requests : Conn(sessions[r.session].openedAt) = {r.conn}
    BY <1>1
  <2>2. \A r \in requests : r.session = q.session => {r.conn} = {q.conn}
    BY <2>1
  <2> QED
    BY <1>1, <2>2
<1> QED
  BY <1>2, Invariant, PTL
=============================================================================
