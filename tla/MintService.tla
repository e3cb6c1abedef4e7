---------------------------- MODULE MintService -----------------------------
(***************************************************************************)
(* The web server and the mint backend as they are deployed and serve      *)
(* together: web/app/api routes, mint-backend-proxy.js and mint-surface.js *)
(* on one side, server.py on the other, a shared secret in between.        *)
(*                                                                         *)
(* An operator edits an environment and deploys it once the production     *)
(* check accepts it; the backend is stopped and started with other         *)
(* environments; requests run through their backend calls meanwhile, each  *)
(* on the deployment that accepted it.  One call of the backend is one     *)
(* step.  What the calls do to a session is the subject of MintSessions;   *)
(* here a session is only there or not, and has a finalize hash or not.    *)
(***************************************************************************)
EXTENDS WebEnv, Sequences, FiniteSets

CONSTANTS Requests, Templates, EnvValues, BackendEnvs,
          MaxEdits, MaxDeploys, MaxStarts     \* bounds

(* _normalize_backend_mode knows two modes and raises on every other name. *)
ASSUME BackendModes == \A env \in BackendEnvs : env.mode \in {"mint-active", "read-only"}

ASSUME TemplatesAreEnvironments == \A env \in Templates : "launch" \in DOMAIN env

ASSUME ServiceBounds == MaxEdits \in Nat /\ MaxDeploys \in Nat /\ MaxStarts \in Nat

B == INSTANCE BackendConfig

VARIABLES draft,    \* the environment the operator is editing; NoDraft after the first deployment
          edits, deploys, starts,             \* what the bounds count
          web,      \* the deployment in service
          backend,  \* the running backend's configuration, or Down
          calls,    \* Requests -> the state of a request
          books     \* what the backend has stored and sent
vars == <<draft, edits, deploys, starts, web, backend, calls, books>>

NoDraft == [none |-> TRUE]
NoWeb   == [none |-> TRUE]
Down    == [mode |-> "down"]
Unborn  == [route |-> "none"]

---------------------------------------------------------------------------
(* The web server *)

(* getMintBackendBaseUrl *)
BaseUrl(s) == IF s.backendMode # "proxy" THEN Unset ELSE Or(s.internalBackendBaseUrl, s.backendBaseUrl)

(* What of an environment its requests depend on. *)
Deployment(env) ==
    LET s == ServerEnv(env)
    IN  [readable |-> EnvIsReadable(env), open |-> MintSurfaceEnabled(s), ready |-> MintRuntimeReady(s),
         external |-> BaseUrl(s) # Unset, reaches |-> BaseUrl(s) \in {"backend", "loopback"},
         secret |-> s.backendSharedSecret]

(* The backend calls of a route, in order. *)
BackendCalls == [create   |-> <<"put">>,         read     |-> <<"get">>,
                 callback |-> <<"get", "put">>,  redirect |-> <<"get", "put">>,
                 sessionFinalize |-> <<"get", "finalize", "put">>,
                 authorize |-> <<"authorize">>,  finalize |-> <<"finalize">>,
                 owner     |-> <<"owner">>]
Routes  == DOMAIN BackendCalls
Proxied == {"authorize", "finalize", "owner"}

(* completeCorePassCallback answers 204 whatever happened and names the error in a header. *)
Answered(route, status) == IF route = "redirect" THEN "204" ELSE status

(* The status a route makes of the first thing that went wrong. *)
ErrorStatus(route, error) ==
    CASE route \in Proxied     -> IF error = "unreachable" THEN "500" ELSE error
      [] route = "create"      -> "500"
      [] route = "read"        -> IF error = "404" THEN "404" ELSE "500"
      [] route = "sessionFinalize" -> IF error \in {"404", "409", "501"} THEN error ELSE "500"
      [] route = "callback"    -> IF error = "404" THEN "404" ELSE "400"
      [] route = "redirect"    -> "204"

(* The answers a route gives before it calls the backend; "" when it goes on. *)
Refusal(route, w) ==
    IF ~w.readable THEN "500"
    ELSE IF route = "owner" THEN IF w.external THEN "" ELSE "503"
    ELSE IF ~w.open THEN Answered(route, "404")
    ELSE IF ~w.ready THEN Answered(route, "503")
    ELSE ""

---------------------------------------------------------------------------
(* The backend *)

PublicReads  == {"owner"}
RetiredPaths == {"get", "put", "authorize", "finalize"}

(* Mutant of NeedsSecret: the retired paths are exempt whatever the backend's mode. *)
RetiredAreExempt(b, op) == op \notin PublicReads \cup RetiredPaths

(* Mutant of NeedsSecret: read-only is looked at by the handlers alone. *)
SecretFirst(b, op) == op \notin PublicReads

(* _require_auth *)
NeedsSecret(b, op) == op \notin PublicReads /\ ~(b.mode = "read-only" /\ op \in RetiredPaths)

SessionKnown == \E r \in Requests : calls[r].route = "create" /\ r \in books.writers

(* What a mint-active backend's handlers answer.  Whether the chain takes a finalize, and  *)
(* whether the wallet may have an authorization, is not this module's business: 409 stands *)
(* for every refusal.                                                                      *)
HandlerReplies(b, op) ==
    CASE op = "get"       -> {IF SessionKnown THEN "ok" ELSE "404"}
      [] op = "put"       -> {"ok"}
      [] op = "authorize" -> IF b.issuer THEN {"ok", "409"} ELSE {"410"}
      [] op = "finalize"  -> IF b.signer = Unset THEN {"501"} ELSE {"ok", "409"}

(* The answers one call may get. *)
Replies(b, op, secret) ==
    IF b = Down THEN {"unreachable"}
    ELSE IF NeedsSecret(b, op) /\ b.secret = Unset THEN {"500"}
    ELSE IF NeedsSecret(b, op) /\ secret # b.secret THEN {"403"}
    ELSE IF op \in PublicReads THEN {"ok"}
    ELSE IF b.mode = "read-only" THEN {"410"}
    ELSE HandlerReplies(b, op)

(* Whether a call stores a session with a finalize hash.  A finalize callback brings one, and  *)
(* a session finalize was given one; so may have been one whose own save failed, when it then  *)
(* saves the error.                                                                            *)
HashesStored(call, reply) ==
    IF reply # "ok" \/ Head(call.todo) # "put" \/ call.route = "create" THEN {FALSE}
    ELSE IF call.route = "sessionFinalize" /\ call.error = "" THEN {TRUE}
    ELSE BOOLEAN

(* What a call leaves behind when it is answered so.  A finalize is put on record in any case. *)
Booked(r, op, reply, hash) ==
    LET Added(set, who, when) == IF when THEN set \cup {who} ELSE set
    IN  [writers  |-> Added(books.writers, r, op = "put" /\ reply = "ok"),
         grants   |-> Added(books.grants, r, op = "authorize" /\ reply = "ok"),
         attempts |-> Added(books.attempts, r, op = "finalize" /\ reply \in {"ok", "409", "501"}),
         hashed   |-> books.hashed \/ hash,
         relays   |-> Added(books.relays, backend, op = "finalize" /\ reply = "ok")]

---------------------------------------------------------------------------
(* Deployments *)

Edit == /\ draft # NoDraft /\ edits < MaxEdits
        /\ \E f \in DOMAIN EnvValues : \E v \in EnvValues[f] :
              /\ draft[f] # v
              /\ draft' = [draft EXCEPT ![f] = v]
        /\ edits' = edits + 1
        /\ UNCHANGED <<deploys, starts, web, backend, calls, books>>

Deploy == /\ draft # NoDraft /\ PassesCheck(draft)
          /\ web' = Deployment(draft) /\ draft' = NoDraft /\ edits' = 0
          /\ UNCHANGED <<deploys, starts, backend, calls, books>>

Redeploy == /\ web # NoWeb /\ deploys < MaxDeploys
            /\ \E env \in Templates : PassesCheck(env) /\ web' = Deployment(env)
            /\ deploys' = deploys + 1
            /\ UNCHANGED <<draft, edits, starts, backend, calls, books>>

StopBackend == /\ backend # Down
               /\ backend' = Down
               /\ UNCHANGED <<draft, edits, deploys, starts, web, calls, books>>

(* main: load_config raises on an invalid environment and nothing starts. *)
StartBackend == /\ web # NoWeb /\ backend = Down /\ starts < MaxStarts
                /\ \E env \in BackendEnvs : B!IsValid(env) /\ backend' = B!Config(env)
                /\ starts' = starts + 1
                /\ UNCHANGED <<draft, edits, deploys, web, calls, books>>

---------------------------------------------------------------------------
(* Requests *)

(* A request that would be served in the web process itself (no external backend) is not *)
(* followed: OpenMintIsTheRealOne says it only comes where the site is on the loopback.  *)
Accept(r, route) ==
    /\ web # NoWeb /\ calls[r] = Unborn
    /\ Refusal(route, web) = "" => web.external
    /\ calls' = [calls EXCEPT ![r] =
                    [route |-> route, dep |-> web, error |-> "", reply |-> "", answer |-> Refusal(route, web),
                     todo |-> IF Refusal(route, web) = "" THEN BackendCalls[route] ELSE <<>>]]
    /\ UNCHANGED <<draft, edits, deploys, starts, web, backend, books>>

(* attemptSessionFinalize saves what went wrong, or what a failed save left unsaved, *)
(* before it throws: one more put, whose own failure is then what the route sees.    *)
SavesTheError(call) == call.route = "sessionFinalize" /\ call.error = "" /\ Head(call.todo) # "get"

(* Mutant of AfterCall: a refused call counts as made, as fetch alone would have it. *)
AfterAnyCall(call, reply) ==
    LET rest == Tail(call.todo)
    IN  [call EXCEPT !.todo = rest, !.reply = reply,
                     !.answer = IF rest = <<>> THEN Answered(call.route, "200") ELSE ""]

AfterCall(call, reply) ==
    LET rest   == Tail(call.todo)
        status == ErrorStatus(call.route, IF reply # "ok" THEN reply ELSE call.error)
    IN  CASE reply = "ok" /\ rest # <<>> -> [call EXCEPT !.todo = rest, !.reply = reply]
          [] reply = "ok" /\ rest = <<>> /\ call.error = "" ->
                [call EXCEPT !.todo = rest, !.reply = reply, !.answer = Answered(call.route, "200")]
          [] reply # "ok" /\ SavesTheError(call) ->
                [call EXCEPT !.todo = <<"put">>, !.reply = reply, !.error = reply]
          [] OTHER -> [call EXCEPT !.todo = <<>>, !.reply = reply, !.answer = status]

(* What the session that was read may end a request with: a callback throws, after it saved    *)
(* what was wrong or without; a session finalize throws when nobody has identified or there is *)
(* no finalize request yet, and answers with the session when its finalize has a hash.         *)
EarlyAnswers(call, reply) ==
    {answer \in {"200", "204", "400", "500"} :
        /\ reply = "ok"
        /\ \/ call.route = "callback" /\ answer = "400"
           \/ call.route = "redirect" /\ answer = "204"
           \/ /\ call.route = "sessionFinalize" /\ Head(call.todo) = "get"
              /\ answer = "500" \/ (answer = "200" /\ books.hashed)}

(* The calls it then does not make stay on its list. *)
EndsEarly(call, reply, answer) == [call EXCEPT !.todo = Tail(@), !.reply = reply, !.answer = answer]

CallBackend(r) ==
    /\ calls[r] # Unborn /\ calls[r].answer = ""
    /\ LET call == calls[r]
           op   == Head(call.todo)
           to   == IF call.dep.reaches THEN backend ELSE Down
       IN  \E reply \in Replies(to, op, call.dep.secret) :
              /\ \/ calls' = [calls EXCEPT ![r] = AfterCall(call, reply)]
                 \/ \E answer \in EarlyAnswers(call, reply) :
                       calls' = [calls EXCEPT ![r] = EndsEarly(call, reply, answer)]
              /\ \E hash \in HashesStored(call, reply) : books' = Booked(r, op, reply, hash)
    /\ UNCHANGED <<draft, edits, deploys, starts, web, backend>>

(* FinalizeWorker, which main only starts where mint writes are enabled. *)
WorkerRelays == /\ backend # Down /\ backend.mode = "mint-active" /\ backend.signer # Unset /\ SessionKnown
                /\ \E hash \in BOOLEAN :
                      books' = [books EXCEPT !.relays = @ \cup {backend}, !.hashed = @ \/ hash]
                /\ UNCHANGED <<draft, edits, deploys, starts, web, backend, calls>>

---------------------------------------------------------------------------
Init == /\ draft \in Templates /\ edits = 0 /\ deploys = 0 /\ starts = 0
        /\ web = NoWeb /\ backend = Down
        /\ calls = [r \in Requests |-> Unborn]
        /\ books = [writers |-> {}, grants |-> {}, attempts |-> {}, hashed |-> FALSE, relays |-> {}]

Next == \/ Edit \/ Deploy \/ Redeploy \/ StopBackend \/ StartBackend \/ WorkerRelays
        \/ \E r \in Requests : CallBackend(r) \/ \E route \in Routes : Accept(r, route)

Spec == Init /\ [][Next]_vars

---------------------------------------------------------------------------
(* What a deployment may rely on *)

(* An environment an operator may well write: no blanks at the end of a value, only the names *)
(* the check reads, addresses and URLs that are ones, and the official host only with the     *)
(* surface it has anyway.                                                                     *)
Plain(env) ==
    /\ \A f \in {"launch", "surface", "mode"} : Trim(env[f]) = env[f]
    /\ env.launchFallback = Unset /\ env.surfaceFallback = Unset
    /\ env.site \in Official => env.launch = "public" /\ env.surface = "public-mint"
    /\ ~SiteUrlIsWrong(env.site) /\ (env.mintOnly => ~SiteUrlIsWrong(env.browse) /\ env.browse # env.site)
    /\ env.address \in {"real", "devin"}

(* What the production check accepts of a plain environment serves: no mint route of that      *)
(* deployment answers mint_runtime_misconfigured.  The check and the server compute this apart. *)
CheckedEnvServes ==
    draft # NoDraft /\ PassesCheck(draft) /\ Plain(draft) => MintRuntimeReady(ServerEnv(draft))

(* And its mint surface is open exactly when the check took it for open. *)
SurfaceAsChecked ==
    draft # NoDraft /\ PassesCheck(draft) /\ Plain(draft) =>
        (MintSurfaceEnabled(ServerEnv(draft)) <=> CheckedSurfaceEnabled(draft))

(* Whatever the check let pass, plain or not, and whatever the server then read into it:    *)
(* where mint requests are served, the contract is not the rehearsal's, and unless the site *)
(* names itself on the loopback they go to a backend, never to the memory of the web        *)
(* process, which other instances do not share.  The check takes https on the loopback for  *)
(* a site like any other; the server takes it for a developer's, which needs no backend.    *)
OpenMintIsTheRealOne ==
    draft # NoDraft /\ PassesCheck(draft) /\ MintSurfaceEnabled(ServerEnv(draft)) /\ MintRuntimeReady(ServerEnv(draft)) =>
        /\ ~Loopback(ServerEnv(draft).siteBaseUrl) => BaseUrl(ServerEnv(draft)) # Unset
        /\ ServerEnv(draft).coreCatsAddress \notin {"devin", "devin0x"}

(* The books only change while the backend is mint-active, by its own worker's relay or by *)
(* a request whose deployment holds the secret the backend has at that moment.             *)
BooksNeedTheSecret ==
    [][books' # books =>
         /\ backend # Down /\ backend' = backend /\ backend.mode = "mint-active"
         /\ \/ \E r \in Requests : /\ calls[r] # Unborn /\ calls'[r] # calls[r]
                                   /\ calls[r].dep.secret = backend.secret
            \/ calls' = calls /\ [books' EXCEPT !.relays = books.relays, !.hashed = books.hashed] = books]_vars

(* mint-backend/README.md:58: a read-only backend answers every mint and session call as   *)
(* retired, with or without a secret, however the call began under another backend.        *)
ReadOnlyAnswersRetired ==
    [][\A r \in Requests :
         /\ calls[r] # Unborn /\ calls'[r] # calls[r] /\ calls[r].route # "owner"
         /\ calls[r].dep.reaches /\ backend.mode = "read-only"
         => calls'[r].reply = "410"]_vars

(* What a client was told had succeeded is on the backend's disk, though the backend may have *)
(* been restarted, retired or given another secret between the calls of that one request.  A  *)
(* session finalize has put its attempt on record and saved the session, or has stopped when  *)
(* it read that another had: then a session with a finalize hash was stored before.           *)
AnsweredOkIsOnDisk ==
    \A r \in Requests :
        calls[r] # Unborn /\ calls[r].answer = "200" =>
            /\ calls[r].route \in {"create", "callback"} => r \in books.writers
            /\ calls[r].route = "finalize" => r \in books.attempts
            /\ calls[r].route = "sessionFinalize" =>
                  IF calls[r].todo = <<>> THEN r \in books.attempts /\ r \in books.writers ELSE books.hashed
            /\ calls[r].route = "authorize" => r \in books.grants

(* A finalize sent in production carries the account the operator named as the finalizer.   *)
(* Not so with a deployer's key beside a keystore: spark.py exports it, the script takes it. *)
RelaysComeFromTheFinalizer ==
    \A c \in books.relays : c.production /\ ~c.shadowed => c.signer \in c.named

(* The shapes of the state, and what the server reads out of any environment at all. *)
TypeOK ==
    /\ edits \in 0..MaxEdits /\ deploys \in 0..MaxDeploys /\ starts \in 0..MaxStarts
    /\ draft = NoDraft <=> web # NoWeb
    /\ draft # NoDraft =>
          LET s == ServerEnv(draft)
          IN  /\ s.launchState \in {"closed", "canary", "public"}
              /\ s.siteSurface \in {"public-teaser", "private-canary", "public-mint"}
              /\ s.backendMode \in {"proxy", "local"}
    /\ backend.mode \in {"down", "mint-active", "read-only"}
    /\ books.grants \cup books.attempts \cup books.writers \subseteq {r \in Requests : calls[r] # Unborn}

=============================================================================
