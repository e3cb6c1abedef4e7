--------------------------- MODULE OwnershipCache ---------------------------
(***************************************************************************)
(* mint-backend ownership_snapshot.py: what the public site is told about  *)
(* owners comes from a block explorer through caches with a time to live.  *)
(* The lock is held to look into a cache and to fill it, never during the  *)
(* fetch, so several requests may fetch the same entry and fill it in      *)
(* another order than they asked.                                          *)
(*                                                                         *)
(* What an answer says does not matter here, only the moment it is true of *)
(* (`asOf`): the oldest page that a fetch has put together.  time.time()   *)
(* is taken to be monotonic.                                               *)
(***************************************************************************)
EXTENDS Integers

CONSTANTS
    Requests,       \* requests served at the same time
    Lookups,        \* owners and token ids asked for
    TTL,            \* seconds an entry lives
    MaxTime,        \* bound: the clock of the model stops here
    None

ASSUME OwnershipCacheAssumption ==
    /\ TTL \in Nat
    /\ MaxTime \in Nat
    /\ None \notin Nat
    /\ "snapshot" \notin Lookups

VARIABLES
    now,
    cache,          \* _snapshot, _owner_cache, _token_owner_cache
    request,        \* a request being served: the entry it fetches, its `now`
    answer          \* what each request was told last

vars == <<now, cache, request, answer>>

Entries == {"snapshot"} \cup Lookups
NoEntry == [asOf |-> None, expiresAt |-> 0]
NoRequest == [entry |-> None, now |-> 0]
NoAnswer == [asOf |-> None, asked |-> 0, error |-> FALSE]

Init ==
    /\ now = 0
    /\ cache = [e \in Entries |-> NoEntry]
    /\ request = [r \in Requests |-> NoRequest]
    /\ answer = [r \in Requests |-> NoAnswer]

Fresh(e) == cache[e].asOf # None /\ cache[e].expiresAt > now

Tell(r, asOf, asked, error) ==
    answer' = [answer EXCEPT ![r] = [asOf |-> asOf, asked |-> asked, error |-> error]]

-----------------------------------------------------------------------------
(* The first part of snapshot, owner_lookup and token_owner_lookup. *)
Hit(r, e) ==
    /\ request[r] = NoRequest
    /\ Fresh(e)
    /\ Tell(r, cache[e].asOf, now, FALSE)
    /\ UNCHANGED <<now, cache, request>>

Miss(r, e) ==
    /\ request[r] = NoRequest
    /\ ~Fresh(e)
    /\ request' = [request EXCEPT ![r] = [entry |-> e, now |-> now]]
    /\ UNCHANGED <<now, cache, answer>>

(* Fault: the life of an entry begins when its fetch has ended. *)
ExpiryFromFill(r) == now + TTL

(* The life of an entry begins before its fetch. *)
Expiry(r) == request[r].now + TTL

Fetched(r, asOf) ==
    LET e == request[r].entry IN
    /\ e # None
    /\ asOf \in request[r].now..now
    /\ cache' = [cache EXCEPT ![e] = [asOf |-> asOf, expiresAt |-> Expiry(r)]]
    /\ Tell(r, asOf, request[r].now, FALSE)
    /\ request' = [request EXCEPT ![r] = NoRequest]
    /\ UNCHANGED now

(* A lookup fails as a whole.  The snapshot falls back on the last one,    *)
(* however old, or on an empty one, and says so in errorMessage.           *)
FetchFails(r) ==
    LET e == request[r].entry IN
    /\ e # None
    /\ Tell(r, IF e = "snapshot" THEN cache[e].asOf ELSE None, request[r].now, TRUE)
    /\ request' = [request EXCEPT ![r] = NoRequest]
    /\ UNCHANGED <<now, cache>>

TimePasses ==
    /\ now < MaxTime
    /\ now' = now + 1
    /\ UNCHANGED <<cache, request, answer>>

Next ==
    \/ TimePasses
    \/ \E r \in Requests :
        \/ \E e \in Entries : Hit(r, e) \/ Miss(r, e)
        \/ \E asOf \in 0..now : Fetched(r, asOf)
        \/ FetchFails(r)

Spec == Init /\ [][Next]_vars

-----------------------------------------------------------------------------
TypeOK ==
    /\ now \in Nat
    /\ cache \in [Entries -> [asOf : Nat \cup {None}, expiresAt : Nat]]
    /\ request \in [Requests -> [entry : Entries \cup {None}, now : Nat]]
    /\ answer \in [Requests -> [asOf : Nat \cup {None}, asked : Nat, error : BOOLEAN]]

(* An answer without errorMessage is at most TTL seconds older than the    *)
(* question, however long fetches take and in whatever order they fill the *)
(* cache: a slow fetch may replace a newer entry, but not prolong its life. *)
AnswersAreFresh ==
    \A r \in Requests :
        ~answer[r].error /\ answer[r].asOf # None => answer[r].asOf + TTL >= answer[r].asked

(* What makes it so: no entry outlives the oldest page it was made of.     *)
EntriesAreHonest ==
    \A e \in Entries :
        cache[e].asOf # None => cache[e].expiresAt <= cache[e].asOf + TTL
=============================================================================
