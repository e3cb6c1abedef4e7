-------------------------- MODULE MintServiceProofs --------------------------
(***************************************************************************)
(* What a client was told is stored is stored, the books only open to the  *)
(* secret, and a retired backend retires every call: for any number of     *)
(* requests and any environments.                                          *)
(*                                                                         *)
(* The inductive invariant follows a request through its calls: what it    *)
(* has left to do says what it must have done.                             *)
(***************************************************************************)
EXTENDS MintService, TLAPS

ErrorNames == {"", "unreachable", "500", "403", "410", "404", "409", "501"}

(* The calls a request may have left, by its route. *)
Pending(c) ==
    \/ c.route \in {"create", "callback", "redirect", "sessionFinalize"} /\ c.todo = <<"put">>
    \/ c.route = "read" /\ c.todo = <<"get">>
    \/ c.route \in {"callback", "redirect"} /\ c.todo = <<"get", "put">>
    \/ c.route = "sessionFinalize" /\ c.todo = <<"get", "finalize", "put">>
    \/ c.route = "sessionFinalize" /\ c.todo = <<"finalize", "put">>
    \/ c.route = "authorize" /\ c.todo = <<"authorize">>
    \/ c.route = "finalize" /\ c.todo = <<"finalize">>
    \/ c.route = "owner" /\ c.todo = <<"owner">>

CallRecord(c) == c = [route |-> c.route, dep |-> c.dep, error |-> c.error, reply |-> c.reply,
                      answer |-> c.answer, todo |-> c.todo]

OnDisk(r, c, b) ==
    /\ c.route \in {"create", "callback"} => r \in b.writers
    /\ c.route = "finalize" => r \in b.attempts
    /\ c.route = "sessionFinalize" =>
          IF c.todo = <<>> THEN r \in b.attempts /\ r \in b.writers ELSE b.hashed
    /\ c.route = "authorize" => r \in b.grants

CallInv(r, c, b) ==
    c # Unborn =>
        /\ CallRecord(c) /\ c.route \in Routes /\ c.error \in ErrorNames
        /\ c.answer = "" => Pending(c)
        /\ c.answer = "" /\ c.error # "" => c.route = "sessionFinalize" /\ c.todo = <<"put">>
        /\ c.answer = "" /\ c.error = "" /\ c.route = "sessionFinalize" /\ c.todo = <<"put">> => r \in b.attempts
        /\ c.answer = "200" => OnDisk(r, c, b)

BooksRecord(b) == /\ b = [writers |-> b.writers, grants |-> b.grants, attempts |-> b.attempts,
                           hashed |-> b.hashed, relays |-> b.relays]
                  /\ b.hashed \in BOOLEAN

ServiceInv ==
    /\ calls = [r \in Requests |-> calls[r]]
    /\ BooksRecord(books)
    /\ backend # Down => backend.mode \in {"mint-active", "read-only"}
    /\ \A r \in Requests : CallInv(r, calls[r], books)

-----------------------------------------------------------------------------
(* The sequences of calls, taken apart. *)
LEMMA CallSequences ==
    /\ Head(<<"put">>) = "put" /\ Tail(<<"put">>) = <<>>
    /\ Head(<<"get">>) = "get" /\ Tail(<<"get">>) = <<>>
    /\ Head(<<"get", "put">>) = "get" /\ Tail(<<"get", "put">>) = <<"put">>
    /\ Head(<<"get", "finalize", "put">>) = "get"
    /\ Tail(<<"get", "finalize", "put">>) = <<"finalize", "put">>
    /\ Head(<<"finalize", "put">>) = "finalize" /\ Tail(<<"finalize", "put">>) = <<"put">>
    /\ Head(<<"authorize">>) = "authorize" /\ Tail(<<"authorize">>) = <<>>
    /\ Head(<<"finalize">>) = "finalize" /\ Tail(<<"finalize">>) = <<>>
    /\ Head(<<"owner">>) = "owner" /\ Tail(<<"owner">>) = <<>>
OBVIOUS

LEMMA SequencesDiffer ==
    /\ <<"put">> # <<>> /\ <<"finalize", "put">> # <<>>
    /\ <<"put">> # <<"get">> /\ <<"put">> # <<"get", "put">> /\ <<"put">> # <<"finalize", "put">>
    /\ <<"put">> # <<"get", "finalize", "put">> /\ <<"get", "finalize", "put">> # <<"finalize", "put">>
    /\ <<"put">> # <<"finalize">> /\ <<"put">> # <<"authorize">> /\ <<"put">> # <<"owner">>
OBVIOUS

LEMMA RouteNames ==
    Routes = {"create", "read", "callback", "redirect", "sessionFinalize", "authorize", "finalize", "owner"}
BY DEF Routes, BackendCalls

(* What a new request has to do. *)
LEMMA NewRequest ==
    ASSUME NEW c, NEW route \in Routes, c.route = route, c.todo = BackendCalls[route]
    PROVE  Pending(c) /\ (route = "sessionFinalize" => c.todo # <<"put">>)
BY RouteNames, SequencesDiffer DEF Pending, BackendCalls

(* The status a route makes of an error is never that of a success. *)
LEMMA ErrorsAreNoSuccess ==
    ASSUME NEW route \in Routes, NEW error \in ErrorNames \ {""}
    PROVE  /\ ErrorStatus(route, error) # "200"
           /\ ErrorStatus(route, error) # ""
BY RouteNames DEF ErrorStatus, ErrorNames, Proxied

LEMMA RepliesAreKnown ==
    ASSUME NEW b, NEW op, NEW secret, NEW reply \in Replies(b, op, secret),
           op \in {"get", "put", "authorize", "finalize", "owner"}
    PROVE  reply = "ok" \/ reply \in ErrorNames \ {""}
BY DEF Replies, HandlerReplies, PublicReads, ErrorNames

(* A call that changes the books was answered by a mint-active backend that was shown its secret. *)
LEMMA BookedCallsAreAllowed ==
    ASSUME NEW b, NEW op \in {"put", "authorize", "finalize"}, NEW secret,
           b # Down => b.mode \in {"mint-active", "read-only"},
           NEW reply \in Replies(b, op, secret), reply \in {"ok", "409", "501"}
    PROVE  b # Down /\ b.mode = "mint-active" /\ secret = b.secret
BY DEF Replies, HandlerReplies, NeedsSecret, PublicReads, RetiredPaths, Unset, Down

LEMMA RetiredCallsAnswer ==
    ASSUME NEW b, NEW op \in {"get", "put", "authorize", "finalize"}, NEW secret,
           b # Down, b.mode = "read-only", NEW reply \in Replies(b, op, secret)
    PROVE  reply = "410"
BY DEF Replies, HandlerReplies, NeedsSecret, PublicReads, RetiredPaths, Unset, Down

(* Nothing that is booked is ever taken out. *)
LEMMA BooksGrow ==
    ASSUME BooksRecord(books), NEW r \in Requests, NEW op, NEW reply, NEW hash \in BOOLEAN
    PROVE  LET b == Booked(r, op, reply, hash)
           IN  /\ BooksRecord(b) /\ (books.hashed => b.hashed)
               /\ books.writers \subseteq b.writers /\ books.grants \subseteq b.grants
               /\ books.attempts \subseteq b.attempts
               /\ op = "put" /\ reply = "ok" => r \in b.writers
               /\ op = "authorize" /\ reply = "ok" => r \in b.grants
               /\ op = "finalize" /\ reply \in {"ok", "409", "501"} => r \in b.attempts
BY DEF Booked, BooksRecord

(* Books that only grew keep what the invariant says of a request that did not move. *)
LEMMA OthersKeepTheirs ==
    ASSUME NEW r, NEW c, NEW b1, NEW b2, CallInv(r, c, b1),
           b1.writers \subseteq b2.writers, b1.grants \subseteq b2.grants, b1.attempts \subseteq b2.attempts,
           b1.hashed => b2.hashed
    PROVE  CallInv(r, c, b2)
BY DEF CallInv, OnDisk

(* The four ways a call of the backend can leave a request. *)
LEMMA WaysOn ==
    ASSUME NEW c, NEW reply, CallRecord(c)
    PROVE  LET rest == Tail(c.todo)
               n    == AfterCall(c, reply)
           IN  /\ CallRecord(n) /\ n.route = c.route /\ n.dep = c.dep /\ n.reply = reply
               /\ reply = "ok" /\ rest # <<>> => n.todo = rest /\ n.error = c.error /\ n.answer = c.answer
               /\ reply = "ok" /\ rest = <<>> /\ c.error = "" =>
                     n.todo = rest /\ n.error = c.error /\ n.answer = Answered(c.route, "200")
               /\ reply # "ok" /\ SavesTheError(c) =>
                     n.todo = <<"put">> /\ n.error = reply /\ n.answer = c.answer
               /\ reply = "ok" /\ rest = <<>> /\ c.error # "" =>
                     n.error = c.error /\ n.answer = ErrorStatus(c.route, c.error)
               /\ reply # "ok" /\ ~SavesTheError(c) =>
                     n.error = c.error /\ n.answer = ErrorStatus(c.route, reply)
<1> DEFINE rest == Tail(c.todo)
           n    == AfterCall(c, reply)
<1> HIDE DEF rest
<1>1. CASE reply = "ok" /\ rest # <<>>
  BY <1>1 DEF AfterCall, CallRecord, rest
<1>2. CASE reply = "ok" /\ rest = <<>> /\ c.error = ""
  BY <1>2 DEF AfterCall, CallRecord, rest
<1>3. CASE reply # "ok" /\ SavesTheError(c)
  BY <1>3 DEF AfterCall, CallRecord, rest
<1>4. CASE reply = "ok" /\ rest = <<>> /\ c.error # ""
  BY <1>4 DEF AfterCall, CallRecord, rest
<1>5. CASE reply # "ok" /\ ~SavesTheError(c)
  BY <1>5 DEF AfterCall, CallRecord, rest
<1> QED
  BY <1>1, <1>2, <1>3, <1>4, <1>5 DEF rest

(* What a call tells the books about hashes is yes or no. *)
LEMMA HashesAreTold ==
    ASSUME NEW c, NEW reply
    PROVE  HashesStored(c, reply) \subseteq BOOLEAN /\ (reply # "ok" => HashesStored(c, reply) = {FALSE})
           /\ (Head(c.todo) # "put" => HashesStored(c, reply) = {FALSE})
BY DEF HashesStored

(* n is what request c is when it ends early. *)
EndedEarly(n, c, reply, answer, rest) ==
    /\ CallRecord(n) /\ n.route = c.route /\ n.dep = c.dep /\ n.error = c.error
    /\ n.reply = reply /\ n.answer = answer /\ n.todo = rest

(* A request that ends early is otherwise as it was. *)
LEMMA EarlyFields ==
    ASSUME NEW c, NEW reply, NEW answer, NEW rest, CallRecord(c),
           NEW n, n = [c EXCEPT !.todo = rest, !.reply = reply, !.answer = answer]
    PROVE  EndedEarly(n, c, reply, answer, rest)
BY DEF CallRecord, EndedEarly

LEMMA EarlyWays ==
    ASSUME NEW c, NEW reply, NEW answer, CallRecord(c)
    PROVE  EndedEarly(EndsEarly(c, reply, answer), c, reply, answer, Tail(c.todo))
BY EarlyFields, Zenon DEF EndsEarly

(* Ending it on what it read keeps its invariant. *)
LEMMA EarlyKeeps ==
    ASSUME BooksRecord(books), NEW r \in Requests, NEW c, CallInv(r, c, books), c # Unborn, c.answer = "",
           NEW reply, NEW answer \in EarlyAnswers(c, reply), NEW hash \in BOOLEAN,
           NEW n, NEW rest, rest = Tail(c.todo), EndedEarly(n, c, reply, answer, rest)
    PROVE  CallInv(r, n, Booked(r, Head(c.todo), reply, hash)) /\ n # c /\ CallRecord(n)
<1> DEFINE b == Booked(r, Head(c.todo), reply, hash)
<1> HIDE DEF b
<1>1. CallRecord(c) /\ c.route \in Routes /\ c.error \in ErrorNames /\ Pending(c)
  BY DEF CallInv
<1>2. /\ CallRecord(n) /\ n.route = c.route /\ n.dep = c.dep /\ n.error = c.error
      /\ n.reply = reply /\ n.answer = answer /\ n.todo = rest
  BY DEF EndedEarly
<1>3. /\ reply = "ok" /\ answer \in {"400", "204", "500", "200"}
      /\ answer = "200" => c.route = "sessionFinalize" /\ Head(c.todo) = "get" /\ books.hashed
  BY DEF EarlyAnswers
<1>4. books.hashed => b.hashed
  BY BooksGrow DEF b
<1>5. answer = "200" => n.todo # <<>>
  <2>1. c.route = "sessionFinalize" /\ Head(c.todo) = "get" => c.todo = <<"get", "finalize", "put">>
    BY <1>1, CallSequences DEF Pending
  <2>2. answer = "200" => rest = <<"finalize", "put">>
    BY <1>3, <2>1, CallSequences
  <2> QED
    BY <1>2, <2>2, SequencesDiffer
<1>6. answer = "200" => OnDisk(r, n, b)
  BY <1>2, <1>3, <1>4, <1>5 DEF OnDisk
<1>7. CallInv(r, n, b)
  BY <1>1, <1>2, <1>3, <1>6 DEF CallInv
<1>8. n # c
  BY <1>2, <1>3
<1> QED
  BY <1>2, <1>7, <1>8 DEF b

LEMMA EarlyEnds ==
    ASSUME BooksRecord(books), NEW r \in Requests, NEW c, CallInv(r, c, books), c # Unborn, c.answer = "",
           NEW reply, NEW answer \in EarlyAnswers(c, reply), NEW hash \in BOOLEAN
    PROVE  /\ CallInv(r, EndsEarly(c, reply, answer), Booked(r, Head(c.todo), reply, hash))
           /\ EndsEarly(c, reply, answer) # c /\ CallRecord(EndsEarly(c, reply, answer))
<1>1. CallRecord(c)
  BY ONLY CallInv(r, c, books), c # Unborn DEF CallInv
<1>2. EndedEarly(EndsEarly(c, reply, answer), c, reply, answer, Tail(c.todo))
  BY ONLY <1>1, EarlyWays
<1> QED
  BY <1>2, EarlyKeeps, Zenon

(* A request keeps its invariant through each of its calls, on the books that call leaves. *)
LEMMA CallKeepsIts ==
    ASSUME BooksRecord(books), NEW r \in Requests, NEW c, CallInv(r, c, books), c # Unborn, c.answer = "",
           NEW reply, reply = "ok" \/ reply \in ErrorNames \ {""}, NEW hash \in BOOLEAN
    PROVE  CallInv(r, AfterCall(c, reply), Booked(r, Head(c.todo), reply, hash))
<1> DEFINE op   == Head(c.todo)
           rest == Tail(c.todo)
           n    == AfterCall(c, reply)
           b    == Booked(r, op, reply, hash)
<1>1. CallRecord(c) /\ c.route \in Routes /\ c.error \in ErrorNames /\ Pending(c)
  BY DEF CallInv
<1>2. /\ c.error # "" => c.route = "sessionFinalize" /\ c.todo = <<"put">>
      /\ c.error = "" /\ c.route = "sessionFinalize" /\ c.todo = <<"put">> => r \in books.attempts
  BY DEF CallInv
<1>3. /\ BooksRecord(b) /\ books.attempts \subseteq b.attempts
      /\ op = "put" /\ reply = "ok" => r \in b.writers
      /\ op = "authorize" /\ reply = "ok" => r \in b.grants
      /\ op = "finalize" /\ reply \in {"ok", "409", "501"} => r \in b.attempts
  BY BooksGrow
<1>4. CallRecord(n) /\ n.route = c.route
  BY <1>1, WaysOn
<1>5. SavesTheError(c) <=> c.route = "sessionFinalize" /\ c.error = "" /\ op # "get"
  BY DEF SavesTheError
<1>6. ASSUME n.error \in ErrorNames, n.answer # "", n.answer # "200"
      PROVE  CallInv(r, n, b)
  BY <1>1, <1>4, <1>6 DEF CallInv
<1>7. CASE reply = "ok" /\ rest # <<>>
  <2>1. n.todo = rest /\ n.error = c.error /\ n.answer = ""
    BY <1>1, <1>7, WaysOn
  <2>2. \/ c.route \in {"callback", "redirect"} /\ n.todo = <<"put">>
        \/ c.route = "sessionFinalize" /\ n.todo = <<"finalize", "put">>
        \/ c.route = "sessionFinalize" /\ op = "finalize" /\ n.todo = <<"put">>
    BY <1>1, <1>7, <2>1, CallSequences DEF Pending
  <2>3. c.error = ""
    BY <1>2, <1>7, CallSequences
  <2>4. Pending(n)
    BY <1>4, <2>2 DEF Pending
  <2>5. n.route = "sessionFinalize" /\ n.todo = <<"put">> => r \in b.attempts
    BY <1>3, <1>4, <1>7, <2>2, SequencesDiffer
  <2> QED
    BY <1>1, <1>4, <2>1, <2>3, <2>4, <2>5 DEF CallInv
<1>8. CASE reply = "ok" /\ rest = <<>> /\ c.error = ""
  <2>1. n.todo = rest /\ n.error = "" /\ n.answer = Answered(c.route, "200")
    BY <1>1, <1>8, WaysOn
  <2>2. n.answer # ""
    BY <2>1 DEF Answered
  <2>3. n.answer = "200" => OnDisk(r, n, b)
    <3>1. \/ c.route \in {"create", "callback", "redirect"} /\ op = "put"
          \/ c.route = "sessionFinalize" /\ op = "put" /\ c.todo = <<"put">>
          \/ c.route = "authorize" /\ op = "authorize"
          \/ c.route = "finalize" /\ op = "finalize"
          \/ c.route \in {"read", "owner"}
      BY <1>1, <1>8, CallSequences, SequencesDiffer DEF Pending
    <3>2. n.route = "sessionFinalize" => n.todo = <<>>
      BY <1>8, <2>1
    <3> QED
      BY <1>2, <1>3, <1>4, <1>8, <3>1, <3>2 DEF OnDisk
  <2> QED
    BY <1>1, <1>4, <2>1, <2>2, <2>3 DEF CallInv, ErrorNames
<1>9. CASE reply # "ok" /\ SavesTheError(c)
  <2>1. n.todo = <<"put">> /\ n.error = reply /\ n.answer = ""
    BY <1>1, <1>9, WaysOn
  <2>2. Pending(n) /\ n.route = "sessionFinalize" /\ reply \in ErrorNames \ {""}
    BY <1>4, <1>5, <1>9, <2>1 DEF Pending
  <2> QED
    BY <1>1, <1>4, <2>1, <2>2 DEF CallInv
<1>10. CASE reply = "ok" /\ rest = <<>> /\ c.error # ""
  <2>1. n.error = c.error /\ n.answer = ErrorStatus(c.route, c.error)
    <3> HIDE DEF n, rest, op, b
    <3>1. CallRecord(c) => (reply = "ok" /\ rest = <<>> /\ c.error # "" =>
                              n.error = c.error /\ n.answer = ErrorStatus(c.route, c.error))
      BY WaysOn DEF n, rest
    <3> QED
      BY <1>1, <1>10, <3>1
  <2>2. c.error \in ErrorNames \ {""}
    BY <1>1, <1>10
  <2>3. n.answer # "" /\ n.answer # "200"
    BY <1>1, <2>1, <2>2, ErrorsAreNoSuccess
  <2> QED
    BY <1>1, <1>6, <2>1, <2>3
<1>11. CASE reply # "ok" /\ ~SavesTheError(c)
  <2>1. n.error = c.error /\ n.answer = ErrorStatus(c.route, reply)
    BY <1>1, <1>11, WaysOn
  <2>2. reply \in ErrorNames \ {""}
    BY <1>11
  <2>3. n.answer # "" /\ n.answer # "200"
    BY <1>1, <2>1, <2>2, ErrorsAreNoSuccess
  <2> QED
    BY <1>1, <1>6, <2>1, <2>3
<1> QED
  BY <1>7, <1>8, <1>9, <1>10, <1>11

-----------------------------------------------------------------------------
(* The operations any call of the backend can be. *)
LEMMA CallsAreKnown ==
    ASSUME NEW c, Pending(c)
    PROVE  /\ Head(c.todo) \in {"get", "put", "authorize", "finalize", "owner"}
           /\ Head(c.todo) = "owner" <=> c.route = "owner"
BY CallSequences DEF Pending

LEMMA InitService == Init => ServiceInv
BY DEF Init, ServiceInv, CallInv, BooksRecord, Unborn, Down

(* A request that is accepted has everything still to do, or its answer already. *)
LEMMA AcceptKeeps ==
    ASSUME ServiceInv, NEW r \in Requests, NEW route \in Routes, Accept(r, route)
    PROVE  ServiceInv'
<1>1. /\ books' = books /\ backend' = backend
      /\ calls' = [calls EXCEPT ![r] =
                      [route |-> route, dep |-> web, error |-> "", reply |-> "", answer |-> Refusal(route, web),
                       todo |-> IF Refusal(route, web) = "" THEN BackendCalls[route] ELSE <<>>]]
  BY DEF Accept
<1>2. calls' = [q \in Requests |-> calls'[q]] /\ \A q \in Requests \ {r} : calls'[q] = calls[q]
  BY <1>1 DEF ServiceInv
<1>3. CallInv(r, calls'[r], books)
  <2>1. /\ calls'[r].route = route /\ calls'[r].error = "" /\ calls'[r].answer = Refusal(route, web)
        /\ calls'[r].answer = "" => calls'[r].todo = BackendCalls[route]
        /\ CallRecord(calls'[r])
    BY <1>1 DEF ServiceInv, CallRecord
  <2>2. calls'[r].answer # "200"
    BY <2>1 DEF Refusal, Answered
  <2>3. calls'[r].answer = "" => Pending(calls'[r]) /\ (route = "sessionFinalize" => calls'[r].todo # <<"put">>)
    BY <2>1, NewRequest
  <2> QED
    BY <2>1, <2>2, <2>3 DEF CallInv, ErrorNames
<1> QED
  BY <1>1, <1>2, <1>3 DEF ServiceInv

(* How a call that was answered leaves its request and the books. *)
CallEnds(r, reply) ==
    LET c == calls[r]
    IN  /\ \/ calls'[r] = AfterCall(c, reply)
           \/ \E answer \in EarlyAnswers(c, reply) : calls'[r] = EndsEarly(c, reply, answer)
        /\ calls' = [calls EXCEPT ![r] = calls'[r]]
        /\ \E hash \in HashesStored(c, reply) : books' = Booked(r, Head(c.todo), reply, hash)

LEMMA CallsEnd ==
    ASSUME ServiceInv, NEW r \in Requests, CallBackend(r)
    PROVE  \E reply \in Replies(IF calls[r].dep.reaches THEN backend ELSE Down, Head(calls[r].todo),
                                calls[r].dep.secret) : CallEnds(r, reply)
<1> DEFINE c  == calls[r]
           to == IF c.dep.reaches THEN backend ELSE Down
<1>1. PICK reply \in Replies(to, Head(c.todo), c.dep.secret) :
         /\ \/ calls' = [calls EXCEPT ![r] = AfterCall(c, reply)]
            \/ \E answer \in EarlyAnswers(c, reply) :
                  calls' = [calls EXCEPT ![r] = EndsEarly(c, reply, answer)]
         /\ \E hash \in HashesStored(c, reply) : books' = Booked(r, Head(c.todo), reply, hash)
  BY DEF CallBackend
<1>2. CallEnds(r, reply)
  <2>1. CASE calls' = [calls EXCEPT ![r] = AfterCall(c, reply)]
    <3>1. calls'[r] = AfterCall(c, reply)
      BY <2>1 DEF ServiceInv
    <3> QED
      BY <1>1, <2>1, <3>1 DEF CallEnds
  <2>2. ASSUME NEW answer \in EarlyAnswers(c, reply), calls' = [calls EXCEPT ![r] = EndsEarly(c, reply, answer)]
        PROVE  CallEnds(r, reply)
    <3>1. calls'[r] = EndsEarly(c, reply, answer)
      BY <2>2 DEF ServiceInv
    <3> QED
      BY <1>1, <2>2, <3>1 DEF CallEnds
  <2> QED
    BY <1>1, <2>1, <2>2
<1> QED
  BY <1>1, <1>2

LEMMA CallKeeps ==
    ASSUME ServiceInv, NEW r \in Requests, CallBackend(r)
    PROVE  ServiceInv'
<1> DEFINE c  == calls[r]
           op == Head(c.todo)
           to == IF c.dep.reaches THEN backend ELSE Down
<1>1. c # Unborn /\ c.answer = "" /\ backend' = backend
  BY DEF CallBackend
<1>2. PICK reply \in Replies(to, op, c.dep.secret) : CallEnds(r, reply)
  BY CallsEnd
<1>3. CallInv(r, c, books) /\ BooksRecord(books) /\ Pending(c)
  BY <1>1 DEF ServiceInv, CallInv
<1>4. reply = "ok" \/ reply \in ErrorNames \ {""}
  BY <1>2, <1>3, CallsAreKnown, RepliesAreKnown
<1>5. PICK hash \in BOOLEAN : books' = Booked(r, op, reply, hash)
  BY <1>2, HashesAreTold DEF CallEnds
<1>6. calls' = [q \in Requests |-> calls'[q]] /\ \A q \in Requests \ {r} : calls'[q] = calls[q]
  BY <1>2 DEF ServiceInv, CallEnds
<1>7. CallInv(r, calls'[r], books')
  <2>1. CASE calls'[r] = AfterCall(c, reply)
    BY <1>1, <1>3, <1>4, <1>5, <2>1, CallKeepsIts
  <2>2. ASSUME NEW answer \in EarlyAnswers(c, reply), calls'[r] = EndsEarly(c, reply, answer)
        PROVE  CallInv(r, calls'[r], books')
    <3> HIDE DEF c
    <3>1. CallInv(r, EndsEarly(c, reply, answer), Booked(r, Head(c.todo), reply, hash))
      BY <1>1, <1>3, EarlyEnds
    <3> QED
      BY <1>5, <2>2, <3>1
  <2> QED
    BY <1>2, <2>1, <2>2 DEF CallEnds
<1>8. /\ BooksRecord(books') /\ (books.hashed => books'.hashed)
      /\ books.writers \subseteq books'.writers /\ books.grants \subseteq books'.grants
      /\ books.attempts \subseteq books'.attempts
  BY <1>3, <1>5, BooksGrow
<1>9. \A q \in Requests \ {r} : CallInv(q, calls'[q], books')
  BY <1>6, <1>8, OthersKeepTheirs DEF ServiceInv
<1> QED
  BY <1>1, <1>6, <1>7, <1>8, <1>9 DEF ServiceInv

(* The worker's relay leaves the requests and what they wrote alone. *)
LEMMA WorkerKeeps ==
    ASSUME ServiceInv, WorkerRelays
    PROVE  ServiceInv'
<1>1. calls' = calls /\ backend' = backend /\ BooksRecord(books)
  BY DEF WorkerRelays, ServiceInv
<1>2. /\ books'.writers = books.writers /\ books'.grants = books.grants
      /\ books'.attempts = books.attempts /\ BooksRecord(books') /\ (books.hashed => books'.hashed)
  BY <1>1 DEF WorkerRelays, BooksRecord
<1>3. \A q \in Requests : CallInv(q, calls'[q], books')
  BY <1>1, <1>2, OthersKeepTheirs DEF ServiceInv
<1> QED
  BY <1>1, <1>2, <1>3 DEF ServiceInv

LEMMA StartKeeps ==
    ASSUME ServiceInv, StartBackend
    PROVE  ServiceInv'
<1>1. backend'.mode \in {"mint-active", "read-only"}
  BY BackendModes DEF StartBackend, B!Config
<1>2. calls' = calls /\ books' = books
  BY DEF StartBackend
<1> QED
  BY <1>1, <1>2 DEF ServiceInv

LEMMA StepKeepsService ==
    ASSUME ServiceInv, [Next]_vars
    PROVE  ServiceInv'
<1> DEFINE Kept == calls' = calls /\ books' = books /\ (backend' = backend \/ backend' = Down)
<1>1. ASSUME Kept PROVE ServiceInv'
  BY <1>1 DEF ServiceInv
<1>2. CASE Edit
  BY <1>1, <1>2 DEF Edit
<1>3. CASE Deploy
  BY <1>1, <1>3 DEF Deploy
<1>4. CASE Redeploy
  BY <1>1, <1>4 DEF Redeploy
<1>5. CASE StopBackend
  BY <1>1, <1>5 DEF StopBackend
<1>6. CASE StartBackend
  BY <1>6, StartKeeps
<1>7. CASE WorkerRelays
  BY <1>7, WorkerKeeps
<1>8. CASE \E r \in Requests : CallBackend(r) \/ \E route \in Routes : Accept(r, route)
  BY <1>8, CallKeeps, AcceptKeeps
<1>9. CASE UNCHANGED vars
  BY <1>1, <1>9 DEF vars
<1> QED
  BY <1>2, <1>3, <1>4, <1>5, <1>6, <1>7, <1>8, <1>9 DEF Next

(* A call always moves its request: on to the next call, to its answer, or to saving an error. *)
LEMMA CallMoves ==
    ASSUME NEW r, NEW c, CallInv(r, c, books), c # Unborn, c.answer = "",
           NEW reply, reply = "ok" \/ reply \in ErrorNames \ {""}
    PROVE  AfterCall(c, reply) # c
<1> DEFINE rest == Tail(c.todo)
           n    == AfterCall(c, reply)
<1>1. CallRecord(c) /\ c.route \in Routes /\ c.error \in ErrorNames /\ Pending(c)
  BY DEF CallInv
<1>2. CASE reply = "ok" /\ rest # <<>>
  <2>1. n.todo = rest
    BY <1>1, <1>2, WaysOn
  <2>2. rest # c.todo
    BY <1>1, <1>2, CallSequences, SequencesDiffer DEF Pending
  <2> QED
    BY <2>1, <2>2
<1>3. CASE reply = "ok" /\ rest = <<>> /\ c.error = ""
  <2>1. n.answer = Answered(c.route, "200")
    BY <1>1, <1>3, WaysOn
  <2> QED
    BY <2>1 DEF Answered
<1>4. CASE reply # "ok" /\ SavesTheError(c)
  <2>1. n.error = reply
    BY <1>1, <1>4, WaysOn
  <2> QED
    BY <1>4, <2>1 DEF SavesTheError
<1>5. CASE reply = "ok" /\ rest = <<>> /\ c.error # ""
  <2>1. c.error \in ErrorNames \ {""}
    BY <1>1, <1>5
  <2>2. ErrorStatus(c.route, c.error) # ""
    BY <1>1, <2>1, ErrorsAreNoSuccess
  <2>3. CallRecord(c) => (reply = "ok" /\ rest = <<>> /\ c.error # "" => n.answer = ErrorStatus(c.route, c.error))
    <3> HIDE DEF n, rest
    <3> QED
      BY WaysOn DEF n, rest
  <2> HIDE DEF n, rest
  <2> QED
    BY <1>1, <1>5, <2>2, <2>3 DEF n
<1>6. CASE reply # "ok" /\ ~SavesTheError(c)
  <2>1. ErrorStatus(c.route, reply) # ""
    BY <1>1, <1>6, ErrorsAreNoSuccess
  <2>2. n.answer = ErrorStatus(c.route, reply)
    BY <1>1, <1>6, WaysOn
  <2> QED
    BY <2>1, <2>2
<1> QED
  BY <1>2, <1>3, <1>4, <1>5, <1>6

(* Only these three calls leave anything in the books. *)
LEMMA OnlyBookedCallsWrite ==
    ASSUME BooksRecord(books), NEW r, NEW c, NEW op, op = Head(c.todo), NEW reply,
           NEW hash \in HashesStored(c, reply), Booked(r, op, reply, hash) # books
    PROVE  op \in {"put", "authorize", "finalize"} /\ reply \in {"ok", "409", "501"}
<1>1. op # "put" \/ reply # "ok" => hash = FALSE
  BY DEF HashesStored
<1> QED
  BY <1>1 DEF Booked, BooksRecord

-----------------------------------------------------------------------------
(* A request's calls and what they left behind agree in every state. *)
THEOREM ServiceInvariant == Spec => []ServiceInv
<1>1. Init => ServiceInv
  BY InitService
<1>2. ServiceInv /\ [Next]_vars => ServiceInv'
  BY StepKeepsService
<1> QED
  BY <1>1, <1>2, PTL DEF Spec

(* completeCorePassCallback, the API routes: what a client was told had succeeded is stored, *)
(* whatever happened to the backend between the calls of the request.                        *)
THEOREM AnsweredOkIsOnDiskAlways == Spec => []AnsweredOkIsOnDisk
<1>1. ServiceInv => AnsweredOkIsOnDisk
  BY DEF ServiceInv, AnsweredOkIsOnDisk, CallInv, OnDisk
<1> QED
  BY <1>1, ServiceInvariant, PTL

LEMMA BooksStep ==
    ASSUME ServiceInv, [Next]_vars, books' # books
    PROVE  /\ backend # Down /\ backend' = backend /\ backend.mode = "mint-active"
           /\ \/ \E r \in Requests : /\ calls[r] # Unborn /\ calls'[r] # calls[r]
                                     /\ calls[r].dep.secret = backend.secret
              \/ calls' = calls /\ [books' EXCEPT !.relays = books.relays, !.hashed = books.hashed] = books
<1>1. CASE WorkerRelays
  BY <1>1 DEF WorkerRelays, ServiceInv, BooksRecord
<1>2. ASSUME NEW r \in Requests, CallBackend(r)
      PROVE  /\ backend # Down /\ backend' = backend /\ backend.mode = "mint-active"
             /\ calls[r] # Unborn /\ calls'[r] # calls[r] /\ calls[r].dep.secret = backend.secret
  <2> DEFINE c  == calls[r]
             op == Head(c.todo)
             to == IF c.dep.reaches THEN backend ELSE Down
  <2>1. c # Unborn /\ c.answer = "" /\ backend' = backend
    BY <1>2 DEF CallBackend
  <2>2. PICK reply \in Replies(to, op, c.dep.secret) : CallEnds(r, reply)
    BY <1>2, CallsEnd
  <2>3. CallInv(r, c, books) /\ BooksRecord(books) /\ Pending(c)
    BY <2>1 DEF ServiceInv, CallInv
  <2>4. PICK hash \in HashesStored(c, reply) : books' = Booked(r, op, reply, hash)
    BY <2>2 DEF CallEnds
  <2>5. op \in {"put", "authorize", "finalize"} /\ reply \in {"ok", "409", "501"}
    BY <2>3, <2>4, OnlyBookedCallsWrite
  <2>6. to # Down => to.mode \in {"mint-active", "read-only"}
    BY DEF ServiceInv
  <2>7. to # Down /\ to.mode = "mint-active" /\ c.dep.secret = to.secret
    BY <2>2, <2>5, <2>6, BookedCallsAreAllowed
  <2>8. calls'[r] # c
    <3>1. AfterCall(c, reply) # c
      BY <2>1, <2>3, <2>5, CallMoves DEF ErrorNames
    <3>2. \A answer \in EarlyAnswers(c, reply) : EndsEarly(c, reply, answer) # c
      BY <2>1, <2>3, EarlyEnds
    <3> QED
      BY <2>2, <3>1, <3>2 DEF CallEnds
  <2> QED
    BY <2>1, <2>7, <2>8
<1> QED
  BY <1>1, <1>2 DEF Next, vars, Edit, Deploy, Redeploy, StopBackend, StartBackend, Accept

(* _require_auth: nothing changes the books but the backend's own worker and requests that hold *)
(* the secret of the backend in service, which is mint-active at that moment.                   *)
THEOREM BooksNeedTheSecretAlways == Spec => BooksNeedTheSecret
<1>1. ServiceInv /\ [Next]_vars =>
        [books' # books =>
           /\ backend # Down /\ backend' = backend /\ backend.mode = "mint-active"
           /\ \/ \E r \in Requests : /\ calls[r] # Unborn /\ calls'[r] # calls[r]
                                     /\ calls[r].dep.secret = backend.secret
              \/ calls' = calls /\ [books' EXCEPT !.relays = books.relays, !.hashed = books.hashed] = books]_vars
  BY BooksStep
<1> QED
  BY <1>1, ServiceInvariant, PTL DEF Spec, BooksNeedTheSecret

LEMMA RetiredStep ==
    ASSUME ServiceInv, [Next]_vars, NEW r \in Requests, calls[r] # Unborn, calls'[r] # calls[r],
           calls[r].route # "owner", calls[r].dep.reaches, backend.mode = "read-only"
    PROVE  calls'[r].reply = "410"
<1>1. CallBackend(r)
  <2>1. \A q \in Requests : CallBackend(q) => q = r
    BY DEF CallBackend, ServiceInv
  <2>2. \A q \in Requests : \A route \in Routes : ~Accept(q, route)
    BY DEF Accept, ServiceInv
  <2> QED
    BY <2>1, <2>2 DEF Next, vars, Edit, Deploy, Redeploy, StopBackend, StartBackend, WorkerRelays
<1> DEFINE c  == calls[r]
           op == Head(c.todo)
<1>2. c.answer = "" /\ CallInv(r, c, books) /\ Pending(c) /\ CallRecord(c)
  BY <1>1 DEF CallBackend, ServiceInv, CallInv
<1>3. PICK reply \in Replies(backend, op, c.dep.secret) : CallEnds(r, reply)
  BY <1>1, CallsEnd
<1>4. op \in {"get", "put", "authorize", "finalize"}
  BY <1>2, CallsAreKnown
<1>5. backend # Down
  BY DEF Down
<1>6. reply = "410"
  BY <1>3, <1>4, <1>5, RetiredCallsAnswer
<1>7. calls'[r] = AfterCall(c, reply)
  BY <1>3, <1>6 DEF CallEnds, EarlyAnswers
<1>8. AfterCall(c, reply).reply = reply
  <2> HIDE DEF c
  <2> QED
    BY <1>2, WaysOn
<1> QED
  BY <1>6, <1>7, <1>8

(* _handle_read_only_write_endpoint: a read-only backend answers every mint and session call 410, *)
(* also one whose request began under another backend.                                            *)
THEOREM ReadOnlyAnswersRetiredAlways == Spec => ReadOnlyAnswersRetired
<1>1. ServiceInv /\ [Next]_vars =>
        [\A r \in Requests :
           /\ calls[r] # Unborn /\ calls'[r] # calls[r] /\ calls[r].route # "owner"
           /\ calls[r].dep.reaches /\ backend.mode = "read-only"
           => calls'[r].reply = "410"]_vars
  BY RetiredStep
<1> QED
  BY <1>1, ServiceInvariant, PTL DEF Spec, ReadOnlyAnswersRetired

-----------------------------------------------------------------------------
LEMMA OpenEnvIsTheRealOne ==
    ASSUME NEW env, PassesCheck(env), MintSurfaceEnabled(ServerEnv(env)), MintRuntimeReady(ServerEnv(env))
    PROVE  /\ ~Loopback(ServerEnv(env).siteBaseUrl) => BaseUrl(ServerEnv(env)) # Unset
           /\ ServerEnv(env).coreCatsAddress \notin {"devin", "devin0x"}
<1> DEFINE s == ServerEnv(env)
<1> HIDE DEF s
<1>3. ~Loopback(s.siteBaseUrl) => s.backendMode = "proxy"
  BY DEF MintRuntimeReady, s
<1>4. ~Loopback(s.siteBaseUrl) => BaseUrl(s) # Unset
  BY <1>3 DEF BaseUrl, MintRuntimeReady, Or, s
<1>5. AddressKeys[s.coreCatsAddress] # AddressKeys["devin"]
  BY DEF MintRuntimeReady, s
<1>6. s.coreCatsAddress \notin {"devin", "devin0x"}
  BY <1>5 DEF AddressKeys
<1> QED
  BY <1>4, <1>6 DEF s

(* check-production-env-lib.mjs with core-env.js: an open mint that was checked is served for  *)
(* the real contract and, unless its site is on the loopback, by a backend of its own, for     *)
(* every environment, also those an operator would not write.                                  *)
THEOREM OpenMintIsTheRealOneAlways == Spec => []OpenMintIsTheRealOne
<1>1. OpenMintIsTheRealOne
  BY OpenEnvIsTheRealOne DEF OpenMintIsTheRealOne
<1> QED
  BY <1>1, PTL

-----------------------------------------------------------------------------
(* A backend whose mint-active finalizes are the named account's. *)
RightSigner(b) ==
    b.mode = "mint-active" /\ b.production /\ ~b.shadowed /\ b.signer # Unset => b.signer \in b.named

SignerInv ==
    /\ backend # Down => RightSigner(backend)
    /\ RelaysComeFromTheFinalizer

(* validate_config: a production backend that starts has its finalizer named. *)
LEMMA ValidConfigsSignRight ==
    ASSUME NEW env, B!IsValid(env)
    PROVE  RightSigner(B!Config(env))
<1> DEFINE b == B!Config(env)
<1>1. /\ b.mode = env.mode /\ b.production = env.production /\ b.signer = B!FinalizeSigner(env)
      /\ b.named = {env.finalizerKey, env.keystore} \ {""}
      /\ b.shadowed = (env.keystore # "" /\ env.finalizerKey = "" /\ env.deployerKey # "")
  BY DEF B!Config, B!NamedFinalizers, B!Empty
<1>2. env.production /\ env.mode = "mint-active" => env.finalizerKey # "" \/ env.keystore # ""
  BY DEF B!IsValid, B!ProductionErrors, B!Empty
<1>3. CASE env.finalizerKey # ""
  BY <1>1, <1>3 DEF RightSigner, B!FinalizeSigner, B!FinalizerKey, B!Empty
<1>4. CASE env.finalizerKey = "" /\ env.keystore # "" /\ env.deployerKey = ""
  BY <1>1, <1>4 DEF RightSigner, B!FinalizeSigner, B!FinalizerKey, B!Empty
<1>5. CASE env.finalizerKey = "" /\ env.keystore # "" /\ env.deployerKey # ""
  BY <1>1, <1>5 DEF RightSigner
<1>6. CASE env.finalizerKey = "" /\ env.keystore = ""
  BY <1>1, <1>2, <1>6 DEF RightSigner
<1> QED
  BY <1>3, <1>4, <1>5, <1>6

LEMMA FinalizesNeedASigner ==
    ASSUME NEW b, NEW secret, b # Down, b.mode \in {"mint-active", "read-only"},
           "ok" \in Replies(b, "finalize", secret)
    PROVE  b.mode = "mint-active" /\ b.signer # Unset
BY DEF Replies, HandlerReplies, NeedsSecret, PublicReads, RetiredPaths

LEMMA CallsSignRight ==
    ASSUME ServiceInv, SignerInv, NEW r \in Requests, CallBackend(r)
    PROVE  SignerInv'
<1> DEFINE c  == calls[r]
           op == Head(c.todo)
           to == IF c.dep.reaches THEN backend ELSE Down
<1>1. backend' = backend
  BY DEF CallBackend
<1>2. PICK reply \in Replies(to, op, c.dep.secret) :
         \E hash \in HashesStored(c, reply) : books' = Booked(r, op, reply, hash)
  BY DEF CallBackend
<1>3. CASE op = "finalize" /\ reply = "ok"
  <2>1. backend # Down /\ to = backend
    BY <1>2, <1>3 DEF Replies
  <2>2. backend.mode = "mint-active" /\ backend.signer # Unset
    BY <1>2, <1>3, <2>1, FinalizesNeedASigner DEF ServiceInv
  <2>3. books'.relays = books.relays \cup {backend}
    BY <1>2, <1>3 DEF Booked
  <2> QED
    BY <1>1, <2>1, <2>2, <2>3 DEF SignerInv, RightSigner, RelaysComeFromTheFinalizer
<1>4. CASE ~(op = "finalize" /\ reply = "ok")
  <2>1. books'.relays = books.relays
    BY <1>2, <1>4 DEF Booked
  <2> QED
    BY <1>1, <2>1 DEF SignerInv, RightSigner, RelaysComeFromTheFinalizer
<1> QED
  BY <1>3, <1>4

LEMMA StepSignsRight ==
    ASSUME ServiceInv, SignerInv, [Next]_vars
    PROVE  SignerInv'
<1>1. CASE StartBackend
  <2>1. PICK env \in BackendEnvs : B!IsValid(env) /\ backend' = B!Config(env)
    BY <1>1 DEF StartBackend
  <2>2. RightSigner(backend') /\ books' = books
    BY <1>1, <2>1, ValidConfigsSignRight DEF StartBackend
  <2> QED
    BY <2>2 DEF SignerInv, RelaysComeFromTheFinalizer
<1>2. CASE WorkerRelays
  <2>1. backend' = backend /\ books'.relays = books.relays \cup {backend}
    BY <1>2 DEF WorkerRelays, ServiceInv, BooksRecord
  <2> QED
    BY <1>2, <2>1 DEF WorkerRelays, SignerInv, RightSigner, RelaysComeFromTheFinalizer
<1>3. CASE \E r \in Requests : CallBackend(r)
  BY <1>3, CallsSignRight
<1>4. CASE books' = books /\ (backend' = backend \/ backend' = Down)
  BY <1>4 DEF SignerInv, RightSigner, RelaysComeFromTheFinalizer
<1> QED
  BY <1>1, <1>2, <1>3, <1>4 DEF Next, vars, Edit, Deploy, Redeploy, StopBackend, Accept

(* relay_finalize_mint, validate_config: in production a finalize is sent with the account the  *)
(* operator named, unless a deployer's key lies beside a keystore; for every environment.      *)
THEOREM RelaysComeFromTheFinalizerAlways == Spec => []RelaysComeFromTheFinalizer
<1>1. Init => SignerInv
  BY DEF Init, SignerInv, RelaysComeFromTheFinalizer, Down
<1>2. ServiceInv /\ SignerInv /\ [Next]_vars => SignerInv'
  BY StepSignsRight
<1>3. SignerInv => RelaysComeFromTheFinalizer
  BY DEF SignerInv
<1> QED
  BY <1>1, <1>2, <1>3, ServiceInvariant, PTL DEF Spec

-----------------------------------------------------------------------------
(* What the server reads out of a plain environment the check let pass. *)
LEMMA PlainEnvIsReadAsWritten ==
    ASSUME NEW env, PassesCheck(env), Plain(env)
    PROVE  LET s == ServerEnv(env)
           IN  /\ s.launchState = env.launch /\ s.launchState \in {"closed", "canary", "public"}
               /\ env.surface = Unset => s.siteSurface = "public-teaser"
               /\ env.surface # Unset => s.siteSurface = env.surface
               /\ Trim(env.launch) = env.launch /\ Trim(env.surface) = env.surface /\ Trim(env.mode) = env.mode
               /\ s.siteBaseUrl = env.site /\ s.backendBaseUrl = env.backend
               /\ s.internalBackendBaseUrl = env.internal /\ s.backendSharedSecret = env.secret
<1> DEFINE s == ServerEnv(env)
<1>1. /\ Trim(env.launch) = env.launch /\ Trim(env.surface) = env.surface /\ Trim(env.mode) = env.mode
      /\ env.launchFallback = Unset /\ env.surfaceFallback = Unset
      /\ env.site \in Official => env.launch = "public" /\ env.surface = "public-mint"
  BY DEF Plain
<1>2. /\ env.launch \in {"closed", "canary", "public"}
      /\ env.surface \in {Unset, "public-teaser", "private-canary", "public-mint"}
  BY <1>1 DEF PassesCheck
<1>3. Or(env.launch, Or(env.launchFallback, "closed")) = env.launch
  BY <1>2 DEF Or, Unset
<1>4. LaunchState(env.launch) = env.launch
  BY <1>2 DEF LaunchState
<1>5. Or(env.surface, Or(env.surfaceFallback, "public-teaser")) = IF env.surface = Unset THEN "public-teaser" ELSE env.surface
  BY <1>1 DEF Or
<1>6. \A launch : SiteSurface(IF env.surface = Unset THEN "public-teaser" ELSE env.surface, launch)
                    = IF env.surface = Unset THEN "public-teaser" ELSE env.surface
  BY <1>2 DEF SiteSurface
<1>7. s.launchState = IF env.site \in Official /\ env.launch = "canary" THEN "public" ELSE env.launch
  BY <1>3, <1>4 DEF ServerEnv
<1>8. s.siteSurface = IF env.site \in Official THEN "public-mint"
                      ELSE IF env.surface = Unset THEN "public-teaser" ELSE env.surface
  BY <1>5, <1>6 DEF ServerEnv
<1>9. /\ s.siteBaseUrl = env.site /\ s.backendBaseUrl = env.backend
      /\ s.internalBackendBaseUrl = env.internal /\ s.backendSharedSecret = env.secret
  BY DEF ServerEnv
<1> HIDE DEF s
<1>10. s.launchState = env.launch
  BY <1>1, <1>7
<1>11. /\ env.surface = Unset => s.siteSurface = "public-teaser"
       /\ env.surface # Unset => s.siteSurface = env.surface
  BY <1>1, <1>8 DEF Unset
<1> QED
  BY <1>1, <1>2, <1>9, <1>10, <1>11 DEF s

(* The rest of it is overruled on an official host and as written elsewhere. *)
LEMMA PlainEnvElsewhere ==
    ASSUME NEW env
    PROVE  LET s == ServerEnv(env)
               official == env.site \in Official
           IN  /\ s.browseBaseUrl = IF official THEN "browse" ELSE env.browse
               /\ s.mintOnlyHost = (official \/ env.mintOnly)
               /\ s.coreCatsAddress = IF official THEN "real" ELSE Or(env.address, "devin")
               /\ s.backendMode = BackendMode(Or(env.mode, "local"))
BY DEF ServerEnv

LEMMA PlainSurfaceAsChecked ==
    ASSUME NEW env, PassesCheck(env), Plain(env)
    PROVE  MintSurfaceEnabled(ServerEnv(env)) <=> CheckedSurfaceEnabled(env)
<1> DEFINE s == ServerEnv(env)
<1> HIDE DEF s
<1>1. /\ s.launchState = env.launch
      /\ env.surface = Unset => s.siteSurface = "public-teaser"
      /\ env.surface # Unset => s.siteSurface = env.surface
      /\ Trim(env.launch) = env.launch /\ Trim(env.surface) = env.surface
  BY PlainEnvIsReadAsWritten DEF s
<1> QED
  BY <1>1 DEF MintSurfaceEnabled, CheckedSurfaceEnabled, Unset, s

LEMMA PlainEnvIsReady ==
    ASSUME NEW env, PassesCheck(env), Plain(env)
    PROVE  MintRuntimeReady(ServerEnv(env))
<1> DEFINE s == ServerEnv(env)
<1> SUFFICES ASSUME MintSurfaceEnabled(s)
             PROVE  MintRuntimeReady(s)
  BY DEF MintRuntimeReady
<1> HIDE DEF s
<1>1. CheckedSurfaceEnabled(env) /\ ~MintSurfaceRefused(env)
  BY PlainSurfaceAsChecked DEF s, PassesCheck
<1>2. /\ s.launchState = env.launch
      /\ env.surface = Unset => s.siteSurface = "public-teaser"
      /\ env.surface # Unset => s.siteSurface = env.surface
      /\ Trim(env.launch) = env.launch /\ Trim(env.surface) = env.surface /\ Trim(env.mode) = env.mode
      /\ s.siteBaseUrl = env.site /\ s.backendBaseUrl = env.backend
      /\ s.internalBackendBaseUrl = env.internal /\ s.backendSharedSecret = env.secret
  BY PlainEnvIsReadAsWritten DEF s
<1>3. env.mode = "proxy" /\ s.backendMode = "proxy"
  BY <1>1, <1>2, PlainEnvElsewhere DEF s, MintSurfaceRefused, BackendMode, Or, Unset
<1>4. ~SiteUrlIsWrong(s.siteBaseUrl)
  BY <1>2 DEF Plain
<1>5. s.mintOnlyHost => ~SiteUrlIsWrong(s.browseBaseUrl) /\ s.siteBaseUrl # s.browseBaseUrl
  <2>1. CASE env.site \in Official
    <3>1. s.browseBaseUrl = "browse"
      BY <2>1, PlainEnvElsewhere DEF s
    <3> QED
      BY <1>2, <2>1, <3>1 DEF Official, SiteUrlIsWrong, IsPlaceholder, Parses, Loopback, IsHttps, Https, Unset
  <2>2. CASE env.site \notin Official
    <3>1. s.browseBaseUrl = env.browse /\ s.mintOnlyHost = (env.site \in Official \/ env.mintOnly)
      BY <2>2, PlainEnvElsewhere DEF s
    <3> QED
      BY <1>2, <2>2, <3>1 DEF Plain
  <2> QED
    BY <2>1, <2>2
<1>6. s.coreCatsAddress = "real"
  <2>1. env.address = "real"
    BY DEF Plain, PassesCheck, AddressRefused
  <2> QED
    BY <2>1, PlainEnvElsewhere DEF s, Or, Unset
<1>7. IsCoreAddress(s.coreCatsAddress) /\ AddressKeys[s.coreCatsAddress] # AddressKeys["devin"]
  BY <1>6 DEF IsCoreAddress, AddressKeys
<1>8. IF s.backendBaseUrl = Unset THEN s.internalBackendBaseUrl # Unset
      ELSE ~IsPlaceholder(s.backendBaseUrl) /\ IsHttps(s.backendBaseUrl)
  BY <1>1, <1>2 DEF MintSurfaceRefused, BackendRefused
<1>9. s.internalBackendBaseUrl # Unset => Loopback(s.internalBackendBaseUrl)
  BY <1>1, <1>2 DEF MintSurfaceRefused, BackendRefused
<1>10. ~SoldOutHost(s.launchState, s.siteSurface) =>
          s.backendSharedSecret \notin {Unset, "placeholder", "dev-only-secret"}
  <2>1. SoldOutHost(env.launch, env.surface) => SoldOutHost(s.launchState, s.siteSurface)
    BY <1>2 DEF SoldOutHost, Unset
  <2> QED
    BY <1>1, <1>2, <1>3, <2>1 DEF MintSurfaceRefused, SecretRefused
<1> QED
  BY <1>3, <1>4, <1>5, <1>7, <1>8, <1>9, <1>10 DEF MintRuntimeReady

(* check-production-env-lib.mjs with core-env.js: a plain environment that was checked serves. *)
THEOREM CheckedEnvServesAlways == Spec => []CheckedEnvServes
<1>1. CheckedEnvServes
  BY PlainEnvIsReady DEF CheckedEnvServes
<1> QED
  BY <1>1, PTL

(* And the two programs agree on whether it mints. *)
THEOREM SurfaceAsCheckedAlways == Spec => []SurfaceAsChecked
<1>1. SurfaceAsChecked
  BY PlainSurfaceAsChecked DEF SurfaceAsChecked
<1> QED
  BY <1>1, PTL

-----------------------------------------------------------------------------
(* The shapes of the state. *)

(* Only requests that were accepted are on record. *)
Bookkept == books.grants \cup books.attempts \cup books.writers \subseteq {r \in Requests : calls[r] # Unborn}

Counted ==
    /\ edits \in 0..MaxEdits /\ deploys \in 0..MaxDeploys /\ starts \in 0..MaxStarts
    /\ draft = NoDraft <=> web # NoWeb
    /\ draft # NoDraft => "launch" \in DOMAIN draft
    /\ backend.mode \in {"down", "mint-active", "read-only"}

(* A record of a request, a deployment and an edited environment each have a field that the
   value standing for none of them lacks. *)
LEMMA CallsAreNotUnborn == ASSUME NEW c, CallRecord(c) PROVE c # Unborn
<1>1. "todo" \in DOMAIN c
  BY DEF CallRecord
<1>2. "todo" \notin DOMAIN Unborn
  BY DEF Unborn
<1> QED
  BY <1>1, <1>2

LEMMA DeploymentsAreSome == ASSUME NEW env PROVE Deployment(env) # NoWeb
<1>1. "readable" \in DOMAIN Deployment(env)
  BY DEF Deployment
<1>2. "readable" \notin DOMAIN NoWeb
  BY DEF NoWeb
<1> QED
  BY <1>1, <1>2

LEMMA EnvironmentsAreSome == ASSUME NEW env, "launch" \in DOMAIN env PROVE env # NoDraft
<1>1. "launch" \notin DOMAIN NoDraft
  BY DEF NoDraft
<1> QED
  BY <1>1

LEMMA CountedAtFirst == Init => Counted /\ Bookkept
BY TemplatesAreEnvironments, ServiceBounds, EnvironmentsAreSome DEF Init, Counted, Bookkept, Down, NoWeb

LEMMA StepCounts ==
    ASSUME Counted, [Next]_vars
    PROVE  Counted'
<1> USE ServiceBounds DEF Counted
<1>1. CASE Edit
  <2>1. PICK f \in DOMAIN EnvValues : \E v \in EnvValues[f] : draft' = [draft EXCEPT ![f] = v]
    BY <1>1 DEF Edit
  <2>2. "launch" \in DOMAIN draft'
    BY <1>1, <2>1 DEF Edit
  <2>3. edits' \in 0..MaxEdits
    BY <1>1 DEF Edit
  <2> QED
    BY <1>1, <2>2, <2>3, EnvironmentsAreSome DEF Edit
<1>2. CASE Deploy
  BY <1>2, DeploymentsAreSome DEF Deploy
<1>3. CASE Redeploy
  BY <1>3, DeploymentsAreSome DEF Redeploy
<1>4. CASE StopBackend
  BY <1>4 DEF StopBackend, Down
<1>5. CASE StartBackend
  <2>1. backend'.mode \in {"mint-active", "read-only"}
    BY <1>5, BackendModes DEF StartBackend, B!Config
  <2> QED
    BY <1>5, <2>1 DEF StartBackend
<1>6. CASE WorkerRelays
  BY <1>6 DEF WorkerRelays
<1>7. ASSUME NEW r \in Requests, CallBackend(r) PROVE Counted'
  BY <1>7 DEF CallBackend
<1>8. ASSUME NEW r \in Requests, NEW route \in Routes, Accept(r, route) PROVE Counted'
  BY <1>8 DEF Accept
<1>9. CASE UNCHANGED vars
  BY <1>9 DEF vars
<1> QED
  BY <1>1, <1>2, <1>3, <1>4, <1>5, <1>6, <1>7, <1>8, <1>9 DEF Next

LEMMA StepKeepsBooks ==
    ASSUME ServiceInv, Bookkept, [Next]_vars
    PROVE  Bookkept'
<1> DEFINE Quiet == calls' = calls /\ books'.grants = books.grants
                    /\ books'.attempts = books.attempts /\ books'.writers = books.writers
<1>0. ASSUME Quiet PROVE Bookkept'
  BY <1>0 DEF Bookkept
<1>1. CASE Edit \/ Deploy \/ Redeploy \/ StopBackend \/ StartBackend \/ UNCHANGED vars
  <2>1. Quiet
    BY <1>1 DEF Edit, Deploy, Redeploy, StopBackend, StartBackend, vars
  <2> QED
    BY <1>0, <2>1
<1>2. CASE WorkerRelays
  <2>1. Quiet
    BY <1>2 DEF WorkerRelays, ServiceInv, BooksRecord
  <2> QED
    BY <1>0, <2>1
<1>3. ASSUME NEW r \in Requests, CallBackend(r) PROVE Bookkept'
  <2> DEFINE c  == calls[r]
             op == Head(c.todo)
             to == IF c.dep.reaches THEN backend ELSE Down
  <2>1. PICK reply \in Replies(to, op, c.dep.secret) : CallEnds(r, reply)
    BY <1>3, CallsEnd
  <2>2. CallRecord(c)
    BY <1>3 DEF CallBackend, ServiceInv, CallInv
  <2>3. calls'[r] # Unborn /\ \A q \in Requests \ {r} : calls'[q] = calls[q]
    <3>1. CallRecord(AfterCall(c, reply))
      BY <2>2, WaysOn
    <3>2. ASSUME NEW answer PROVE CallRecord(EndsEarly(c, reply, answer))
      BY <2>2, EarlyWays DEF EndedEarly
    <3> QED
      BY <2>1, <3>1, <3>2, CallsAreNotUnborn DEF ServiceInv, CallEnds
  <2>4. /\ books'.grants \subseteq books.grants \cup {r} /\ books'.attempts \subseteq books.attempts \cup {r}
        /\ books'.writers \subseteq books.writers \cup {r}
    BY <2>1 DEF Booked, CallEnds
  <2> QED
    BY <2>3, <2>4 DEF Bookkept
<1>4. ASSUME NEW r \in Requests, NEW route \in Routes, Accept(r, route) PROVE Bookkept'
  <2>1. \A q \in Requests : calls[q] # Unborn => calls'[q] = calls[q]
    BY <1>4 DEF Accept, ServiceInv
  <2>2. books' = books
    BY <1>4 DEF Accept
  <2> QED
    BY <2>1, <2>2 DEF Bookkept
<1> QED
  BY <1>1, <1>2, <1>3, <1>4 DEF Next

(* The three ways the server reads its environment are ways it knows, whatever it was given. *)
LEMMA ServerReadsWhatItKnows ==
    ASSUME NEW env
    PROVE  LET s == ServerEnv(env)
           IN  /\ s.launchState \in {"closed", "canary", "public"}
               /\ s.siteSurface \in {"public-teaser", "private-canary", "public-mint"}
               /\ s.backendMode \in {"proxy", "local"}
<1> DEFINE launch  == LaunchState(Or(env.launch, Or(env.launchFallback, "closed")))
           surface == SiteSurface(Or(env.surface, Or(env.surfaceFallback, "public-teaser")), launch)
           official == env.site \in Official
           s == ServerEnv(env)
<1>1. launch \in {"closed", "canary", "public"}
  BY DEF LaunchState
<1>2. surface \in {"public-teaser", "private-canary", "public-mint"}
  BY DEF SiteSurface
<1>3. s.launchState = IF official /\ launch = "canary" THEN "public" ELSE launch
  BY DEF ServerEnv
<1>4. s.siteSurface = IF official THEN "public-mint" ELSE surface
  BY DEF ServerEnv
<1>5. s.backendMode = BackendMode(Or(env.mode, "local"))
  BY DEF ServerEnv
<1> QED
  BY <1>1, <1>2, <1>3, <1>4, <1>5 DEF BackendMode

(* The shapes of the state: there is a deployment exactly when the first draft was deployed, the
   books name accepted requests only, and the server makes a known mode of any environment. *)
THEOREM ServiceTypeCorrect == Spec => []TypeOK
<1> DEFINE Inv == ServiceInv /\ Counted /\ Bookkept
<1>1. Init => Inv
  BY InitService, CountedAtFirst
<1>2. Inv /\ [Next]_vars => Inv'
  BY StepKeepsService, StepCounts, StepKeepsBooks
<1>3. Inv => TypeOK
  BY ServerReadsWhatItKnows DEF TypeOK, Counted, Bookkept
<1> QED
  BY <1>1, <1>2, <1>3, PTL DEF Spec
=============================================================================
