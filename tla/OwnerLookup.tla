----------------------------- MODULE OwnerLookup ----------------------------
(***************************************************************************)
(* My Cats: a visitor searches the cats of an address.  The answer comes   *)
(* through three memories with lives of their own: the page's              *)
(* (public-status-client.js), the edge function's (functions/api/public/   *)
(* owner.js) and the backend's (OwnershipCache).  A search does not cancel *)
(* the one before it, so answers reach the page in any order.  The page's  *)
(* memory outlives the page: one that is opened again within the site      *)
(* begins with what it remembers, expired or not.                          *)
(***************************************************************************)
EXTENDS OwnershipCache

CONSTANTS
    EdgeTTL,      \* seconds the edge keeps an answer: what it names, at least 30 and at most 300
    ErrorTTL,     \* seconds it keeps a failure: 30
    PageTTL       \* seconds the page keeps an answer: what it names, or 120

ASSUME OwnerLookupAssumption ==
    EdgeTTL \in Nat /\ ErrorTTL \in Nat /\ PageTTL \in Nat \ {0} /\ None \notin Lookups

VARIABLES
    searched,     \* the address searched for, None for none or an invalid one
    shown,        \* the address whose results are on the page, None without results
    display,      \* history: what those results are, when they were asked for or taken from memory
    loading, error,
    pageCache,    \* snapshotCache of the page
    edgeCache,    \* caches.default of the edge function
    fetch         \* fetches of the page under way

pageVars   == <<searched, shown, display, loading, error, pageCache>>
lookupVars == <<vars, pageVars, edgeCache, fetch>>

(* Found: what an answer says, and how long the edge waited for it. *)
Failure  == [asOf |-> None, took |-> 0]
Unused   == [found |-> Failure, expiresAt |-> 0]
Nothing  == [found |-> Failure, since |-> 0]
NoFetch  == [owner |-> None, now |-> 0, at |-> "nowhere", sent |-> 0, found |-> Failure,
             mounted |-> FALSE]      \* does the page that asked still stand?

LookupInit ==
    /\ Init
    /\ searched = None /\ shown = None /\ display = Nothing /\ loading = FALSE /\ error = FALSE
    /\ pageCache = [o \in Lookups |-> Unused]
    /\ edgeCache = [o \in Lookups |-> Unused]
    /\ fetch = [r \in Requests |-> NoFetch]

-----------------------------------------------------------------------------
(* The page *)

(* A fetch joins those under way. *)
Ask(r, o, underWay) ==
    /\ fetch[r] = NoFetch /\ request[r] = NoRequest
    /\ fetch' = [underWay EXCEPT ![r] =
                     [NoFetch EXCEPT !.owner = o, !.now = now, !.at = "edge", !.mounted = TRUE]]
    /\ loading' = TRUE

Known(o)      == pageCache[o].found.asOf # None
Remembered(o) == Known(o) /\ pageCache[o].expiresAt > now

(* What memory has of an address, without a look at its life. *)
Recall(o) ==
    /\ shown' = o
    /\ display' = [found |-> pageCache[o].found, since |-> now]

Blank == shown' = None /\ display' = Nothing

(* A submitted address becomes the one searched for; the results stay until others come. *)
Search(o) ==
    /\ o # searched
    /\ searched' = o
    /\ \/ /\ Remembered(o)
          /\ Recall(o)
          /\ loading' = FALSE /\ error' = FALSE
          /\ UNCHANGED fetch
       \/ /\ ~Remembered(o)
          /\ \E r \in Requests : Ask(r, o, fetch)
          /\ UNCHANGED <<shown, display, error>>
    /\ UNCHANGED <<vars, pageCache, edgeCache>>

(* An empty or invalid address asks nothing. *)
Clear ==
    /\ searched # None
    /\ searched' = None /\ Blank /\ loading' = FALSE /\ error' = FALSE
    /\ UNCHANGED <<vars, pageCache, edgeCache, fetch>>

Refresh ==
    /\ searched # None /\ shown # None
    /\ \E r \in Requests : Ask(r, searched, fetch)
    /\ UNCHANGED <<vars, searched, shown, display, error, pageCache, edgeCache>>

LeftBehind == [r \in Requests |-> [fetch[r] EXCEPT !.mounted = FALSE]]

(* The visitor leaves for another page of the site and opens My Cats again, with an address in *)
(* the link or without.  What memory has of it is shown at once; when that has expired, or     *)
(* there is nothing, the page asks.  Fetches of the page that was left go on without it.       *)
Visit(o) ==
    /\ searched' = o /\ error' = FALSE
    /\ \/ /\ o = None
          /\ Blank /\ loading' = FALSE /\ fetch' = LeftBehind
       \/ /\ o # None /\ Remembered(o)
          /\ Recall(o) /\ loading' = FALSE /\ fetch' = LeftBehind
       \/ /\ o # None /\ ~Remembered(o)
          /\ IF Known(o) THEN Recall(o) ELSE Blank
          /\ \E r \in Requests : Ask(r, o, LeftBehind)
    /\ UNCHANGED <<vars, pageCache, edgeCache>>

(* Mutant of PageExpiry: an answer's life on the page begins when it arrives. *)
ExpiryFromArrival(r) == now + PageTTL

PageExpiry(r) == fetch[r].now + PageTTL

Remembers(r) ==
    pageCache' = IF fetch[r].found = Failure THEN pageCache
                 ELSE [pageCache EXCEPT ![fetch[r].owner] =
                           [found |-> fetch[r].found, expiresAt |-> PageExpiry(r)]]

(* An answer is shown, whoever is searched for by now. *)
Shows(r) ==
    /\ fetch[r].found # Failure
    /\ shown' = fetch[r].owner /\ display' = [found |-> fetch[r].found, since |-> fetch[r].now]
    /\ error' = FALSE

(* Mutant of Fails: what went wrong is not said. *)
FailsSilently(r) == fetch[r].found = Failure /\ UNCHANGED <<shown, display, error>>

(* Results that are there stay there. *)
Fails(r) == fetch[r].found = Failure /\ error' = TRUE /\ UNCHANGED <<shown, display>>

(* A page that was left is told nothing. *)
ToNobody(r) == ~fetch[r].mounted /\ UNCHANGED <<shown, display, loading, error>>

(* Mutant of Arrives: a failed fetch leaves the page loading. *)
ArrivesWithoutFinally(r) ==
    /\ fetch[r].at = "page"
    /\ Remembers(r)
    /\ \/ fetch[r].mounted /\ Shows(r) /\ loading' = FALSE
       \/ fetch[r].mounted /\ Fails(r) /\ UNCHANGED loading
       \/ ToNobody(r)
    /\ fetch' = [fetch EXCEPT ![r] = NoFetch]
    /\ UNCHANGED <<vars, searched, edgeCache>>

Arrives(r) ==
    /\ fetch[r].at = "page"
    /\ Remembers(r)
    /\ \/ fetch[r].mounted /\ (Shows(r) \/ Fails(r)) /\ loading' = FALSE
       \/ ToNobody(r)
    /\ fetch' = [fetch EXCEPT ![r] = NoFetch]
    /\ UNCHANGED <<vars, searched, edgeCache>>

(* The way between the page and the edge may fail. *)
IsLost(r) ==
    /\ fetch[r].at \in {"edge", "page"}
    /\ fetch' = [fetch EXCEPT ![r].at = "page", ![r].found = Failure]
    /\ UNCHANGED <<vars, pageVars, edgeCache>>

-----------------------------------------------------------------------------
(* The edge function; what it has kept is a stored failure while it has no answer. *)

EdgeHit(r) ==
    /\ fetch[r].at = "edge"
    /\ edgeCache[fetch[r].owner].expiresAt > now
    /\ fetch' = [fetch EXCEPT ![r].at = "page", ![r].found = edgeCache[fetch[r].owner].found]
    /\ UNCHANGED <<vars, pageVars, edgeCache>>

EdgeMiss(r) ==
    /\ fetch[r].at = "edge"
    /\ edgeCache[fetch[r].owner].expiresAt <= now
    /\ Hit(r, fetch[r].owner) \/ Miss(r, fetch[r].owner)
    /\ fetch' = [fetch EXCEPT ![r].at = "backend", ![r].sent = now]
    /\ UNCHANGED <<pageVars, edgeCache>>

Backend(r) ==
    /\ (\E asOf \in 0..now : Fetched(r, asOf)) \/ FetchFails(r)
    /\ UNCHANGED <<pageVars, edgeCache, fetch>>

(* The backend has answered, and the answer has or has not reached the edge: either is kept. *)
EdgeKeeps(r) ==
    /\ fetch[r].at = "backend" /\ request[r] = NoRequest
    /\ \E found \in {Failure} \cup
          (IF answer[r].error THEN {} ELSE {[asOf |-> answer[r].asOf, took |-> now - fetch[r].sent]}) :
          /\ edgeCache' = [edgeCache EXCEPT ![fetch[r].owner] =
                [found |-> found, expiresAt |-> now + (IF found = Failure THEN ErrorTTL ELSE EdgeTTL)]]
          /\ fetch' = [fetch EXCEPT ![r].at = "page", ![r].found = found]
    /\ UNCHANGED <<vars, pageVars>>

Waits == TimePasses /\ UNCHANGED <<pageVars, edgeCache, fetch>>

LookupNext ==
    \/ Waits \/ Clear \/ Refresh
    \/ \E o \in Lookups : Search(o)
    \/ \E o \in Lookups \cup {None} : Visit(o)
    \/ \E r \in Requests : \/ Arrives(r) \/ IsLost(r) \/ EdgeHit(r) \/ EdgeMiss(r)
                           \/ Backend(r) \/ EdgeKeeps(r)

LookupSpec == LookupInit /\ [][LookupNext]_lookupVars

(* The sections below the form, for a valid address. *)
Sections == {s \in {"results", "loading", "unavailable"} :
                /\ searched # None
                /\ CASE s = "results"     -> shown # None
                     [] s = "loading"     -> shown = None /\ loading
                     [] s = "unavailable" -> shown = None /\ error}

-----------------------------------------------------------------------------
(* Properties *)

(* Younger than the lives of the three memories together and the time the edge waited. *)
InTime == display.found.asOf + TTL + display.found.took + EdgeTTL + PageTTL > display.since

(* Results that stand on a page which is neither loading nor has failed were within these lives *)
(* when the page asked for them or took them from its memory, however many searches and visits  *)
(* overlap and in whatever order their answers arrive.  A visit may show older ones, but only   *)
(* until the fetch it sends is answered, and after that only with an error.                     *)
MemoryIsFresh == (shown # None /\ ~loading /\ ~error) => InTime

(* A valid search shows results, that it is loading, or that it failed. *)
NeverBlank == searched # None => Sections # {}

(* A page that says it is loading has a fetch of its own under way, whichever came and failed. *)
LoadsSomething == loading => \E r \in Requests : fetch[r].mounted

(* A search is met neither with silence nor with a loading that no fetch will end, although
   results, loading and error are set one by one by fetches that overlap. *)
NeverSilent == NeverBlank /\ LoadsSomething

(* The cats shown are those of the address searched for, at least once nothing is under way. *)
ShownIsSearched ==
    (searched # None /\ shown # None /\ \A r \in Requests : fetch[r] = NoFetch) =>
        shown = searched
=============================================================================
