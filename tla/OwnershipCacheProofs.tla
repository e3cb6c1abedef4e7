------------------------ MODULE OwnershipCacheProofs ------------------------
(***************************************************************************)
(* Answers of the backend are fresh, and the page of an owner search shows *)
(* what is older than the lives of the three caches only while it loads or *)
(* after it failed, for any number of requests and any such lives.         *)
(***************************************************************************)
EXTENDS OwnerLookup, TLAPS

CacheInv == TypeOK /\ EntriesAreHonest /\ AnswersAreFresh

LEMMA CacheInit == Init => CacheInv
BY OwnershipCacheAssumption
DEF Init, CacheInv, TypeOK, EntriesAreHonest, AnswersAreFresh, NoEntry, NoRequest, NoAnswer

(* A hit is not expired, hence not older than the life of its entry. *)
LEMMA HitKeeps ==
    ASSUME CacheInv, NEW r \in Requests, NEW e \in Entries, Hit(r, e) PROVE CacheInv'
<1> USE OwnershipCacheAssumption DEF CacheInv
<1>1. TypeOK'
  BY DEF TypeOK, Hit, Tell
<1>2. EntriesAreHonest'
  BY DEF EntriesAreHonest, Hit
<1>3. cache[e].asOf + TTL >= now
  BY DEF TypeOK, EntriesAreHonest, Hit, Fresh
<1>4. AnswersAreFresh'
  BY <1>3 DEF TypeOK, AnswersAreFresh, Hit, Tell
<1> QED BY <1>1, <1>2, <1>4

(* An entry's life ends TTL seconds after its fetch began, and what was    *)
(* fetched is true of a later moment.                                      *)
LEMMA FetchedKeeps ==
    ASSUME CacheInv, NEW r \in Requests, NEW asOf \in 0..now, Fetched(r, asOf) PROVE CacheInv'
<1> USE OwnershipCacheAssumption DEF CacheInv
<1>1. asOf \in Nat /\ request[r].now \in Nat /\ asOf >= request[r].now
  BY DEF TypeOK, Fetched
<1>2. request[r].entry \in Entries
  BY DEF TypeOK, Fetched
<1>3. TypeOK'
  BY <1>1, <1>2 DEF TypeOK, Fetched, Tell, Expiry, NoRequest
<1>4. EntriesAreHonest'
  BY <1>1, <1>2 DEF TypeOK, EntriesAreHonest, Fetched, Expiry
<1>5. AnswersAreFresh'
  BY <1>1 DEF TypeOK, AnswersAreFresh, Fetched, Tell
<1> QED BY <1>3, <1>4, <1>5

LEMMA CacheStep == CacheInv /\ [Next]_vars => CacheInv'
<1> SUFFICES ASSUME CacheInv, [Next]_vars PROVE CacheInv'
  OBVIOUS
<1> USE OwnershipCacheAssumption
<1>1. CASE TimePasses
  BY <1>1 DEF TimePasses, CacheInv, TypeOK, EntriesAreHonest, AnswersAreFresh
<1>2. ASSUME NEW r \in Requests, NEW e \in Entries, Miss(r, e) PROVE CacheInv'
  BY <1>2 DEF Miss, CacheInv, TypeOK, EntriesAreHonest, AnswersAreFresh
<1>3. ASSUME NEW r \in Requests, FetchFails(r) PROVE CacheInv'
  <2>1. request[r].entry \in Entries /\ request[r].now \in Nat
    BY <1>3 DEF FetchFails, CacheInv, TypeOK
  <2> QED
    BY <1>3, <2>1
    DEF FetchFails, Tell, NoRequest, CacheInv, TypeOK, EntriesAreHonest, AnswersAreFresh
<1>4. CASE UNCHANGED vars
  BY <1>4 DEF vars, CacheInv, TypeOK, EntriesAreHonest, AnswersAreFresh
<1> QED
  BY <1>1, <1>2, <1>3, <1>4, HitKeeps, FetchedKeeps DEF Next

(* No answer given without an errorMessage is more than TTL seconds older  *)
(* than the question, whatever the order in which requests fill the cache. *)
THEOREM AnswersAlwaysFresh == Spec => []AnswersAreFresh
<1>1. CacheInv => AnswersAreFresh
  BY DEF CacheInv
<1> QED BY <1>1, CacheInit, CacheStep, PTL DEF Spec

-----------------------------------------------------------------------------
(* An owner search *)

Founds  == {f \in [asOf : Nat \cup {None}, took : Nat] : f.asOf = None => f = Failure}
Kept    == [found : Founds, expiresAt : Nat]
Fetches == [owner : Lookups \cup {None}, now : Nat, at : {"nowhere", "edge", "backend", "page"},
            sent : Nat, found : Founds, mounted : BOOLEAN]

LookupTypeOK ==
    /\ searched \in Lookups \cup {None} /\ shown \in Lookups \cup {None}
    /\ loading \in BOOLEAN /\ error \in BOOLEAN
    /\ display \in [found : Founds, since : Nat]
    /\ pageCache \in [Lookups -> Kept] /\ edgeCache \in [Lookups -> Kept]
    /\ fetch \in [Requests -> Fetches]
    /\ \A r \in Requests : fetch[r].at # "nowhere" => fetch[r].owner \in Lookups /\ fetch[r].now <= now

(* Nothing the edge keeps outlives what the backend may have kept, its wait and its own life. *)
EdgeIsHonest ==
    \A o \in Lookups : edgeCache[o].found.asOf # None =>
        edgeCache[o].expiresAt <= edgeCache[o].found.asOf + TTL + edgeCache[o].found.took + EdgeTTL

(* The backend answers with what was true TTL seconds before it was asked, or later. *)
BackendIsHonest ==
    \A r \in Requests : fetch[r].at = "backend" =>
        /\ fetch[r].now <= fetch[r].sent /\ fetch[r].sent <= now
        /\ request[r].entry # None => request[r].now = fetch[r].sent
        /\ request[r].entry = None /\ ~answer[r].error =>
               answer[r].asOf \in Nat /\ answer[r].asOf + TTL >= fetch[r].sent

(* What is on its way to the page was at most so old when the page asked. *)
AnswersAreHonest ==
    \A r \in Requests : fetch[r].at = "page" /\ fetch[r].found.asOf # None =>
        fetch[r].found.asOf + TTL + fetch[r].found.took + EdgeTTL >= fetch[r].now

PageIsHonest ==
    \A o \in Lookups : pageCache[o].found.asOf # None =>
        pageCache[o].expiresAt <= pageCache[o].found.asOf + TTL + pageCache[o].found.took + EdgeTTL + PageTTL

LookupInv == /\ CacheInv /\ LookupTypeOK /\ EdgeIsHonest /\ BackendIsHonest /\ AnswersAreHonest /\ PageIsHonest
             /\ LoadsSomething /\ NeverBlank /\ MemoryIsFresh

(* The sections that are open, without the CASE. *)
LEMMA BlankPages == NeverBlank <=> (searched # None => shown # None \/ loading \/ error)
BY DEF NeverBlank, Sections

LEMMA LookupStarts == LookupInit => LookupInv
<1> SUFFICES ASSUME LookupInit PROVE LookupInv
  OBVIOUS
<1>1. CacheInv
  BY CacheInit DEF LookupInit
<1>2. LookupTypeOK
  BY OwnershipCacheAssumption DEF LookupInit, LookupTypeOK, Kept, Founds, Fetches, Unused, Failure, NoFetch, Nothing
<1>3. EdgeIsHonest /\ PageIsHonest /\ BackendIsHonest /\ AnswersAreHonest
  BY DEF LookupInit, EdgeIsHonest, PageIsHonest, BackendIsHonest, AnswersAreHonest, Unused, Failure, NoFetch
<1>4. LoadsSomething /\ NeverBlank /\ MemoryIsFresh
  BY BlankPages DEF LookupInit, LoadsSomething, MemoryIsFresh
<1> QED
  BY <1>1, <1>2, <1>3, <1>4 DEF LookupInv

(* The fetches under way, some of them left behind. *)
Follows(underWay) ==
    \A r \in Requests :
        /\ underWay[r] \in Fetches
        /\ underWay[r].owner = fetch[r].owner /\ underWay[r].now = fetch[r].now
        /\ underWay[r].at = fetch[r].at /\ underWay[r].sent = fetch[r].sent
        /\ underWay[r].found = fetch[r].found

LEMMA LeftBehindFollows ==
    ASSUME LookupTypeOK
    PROVE  Follows(fetch) /\ Follows(LeftBehind) /\ LeftBehind \in [Requests -> Fetches]
<1>1. \A r \in Requests : fetch[r] \in Fetches
  BY DEF LookupTypeOK
<1>2. \A r \in Requests :
          /\ LeftBehind[r] \in Fetches
          /\ LeftBehind[r].owner = fetch[r].owner /\ LeftBehind[r].now = fetch[r].now
          /\ LeftBehind[r].at = fetch[r].at /\ LeftBehind[r].sent = fetch[r].sent
          /\ LeftBehind[r].found = fetch[r].found
  BY <1>1 DEF LeftBehind, Fetches
<1> QED
  BY <1>1, <1>2 DEF Follows, LeftBehind

(* A step of the page that leaves the memories as they were and the fetches under way. *)
LEMMA PageSteps ==
    ASSUME LookupInv, Follows(fetch'), fetch' \in [Requests -> Fetches],
           UNCHANGED <<vars, pageCache, edgeCache>>,
           searched' \in Lookups \cup {None}, shown' \in Lookups \cup {None}, error' \in BOOLEAN,
           loading' \in BOOLEAN, display' \in [found : Founds, since : Nat],
           LoadsSomething', NeverBlank', MemoryIsFresh'
    PROVE  LookupInv'
<1> USE OwnershipCacheAssumption, OwnerLookupAssumption DEF LookupInv
<1>1. CacheInv' /\ EdgeIsHonest' /\ PageIsHonest'
  BY DEF vars, CacheInv, TypeOK, EntriesAreHonest, AnswersAreFresh, EdgeIsHonest, PageIsHonest
<1>2. LookupTypeOK'
  BY DEF LookupTypeOK, Follows, vars
<1>3. BackendIsHonest' /\ AnswersAreHonest'
  BY DEF LookupTypeOK, Follows, BackendIsHonest, AnswersAreHonest, vars
<1> QED
  BY <1>1, <1>2, <1>3

(* A step that asks: one fetch more is on its way to the edge, and the page is loading. *)
LEMMA AskKeeps ==
    ASSUME LookupInv, NEW r \in Requests, NEW o \in Lookups, NEW underWay \in [Requests -> Fetches],
           Follows(underWay), Ask(r, o, underWay),
           searched' = o, shown' \in Lookups \cup {None}, error' \in BOOLEAN,
           display' \in [found : Founds, since : Nat], UNCHANGED <<vars, pageCache, edgeCache>>
    PROVE  LookupInv'
<1> USE OwnershipCacheAssumption, OwnerLookupAssumption DEF LookupInv
<1> DEFINE new == [NoFetch EXCEPT !.owner = o, !.now = now, !.at = "edge", !.mounted = TRUE]
<1>1. fetch' = [underWay EXCEPT ![r] = new] /\ loading' = TRUE
  BY DEF Ask
<1>2. /\ new \in Fetches /\ new.at = "edge" /\ new.now = now /\ new.owner = o /\ new.mounted
  BY DEF NoFetch, Fetches, Founds, Failure, CacheInv, TypeOK
<1> HIDE DEF new
<1>3. CacheInv' /\ EdgeIsHonest' /\ PageIsHonest'
  BY DEF vars, CacheInv, TypeOK, EntriesAreHonest, AnswersAreFresh, EdgeIsHonest, PageIsHonest
<1>4. now' = now /\ now \in Nat /\ request' = request /\ answer' = answer
  BY DEF vars, CacheInv, TypeOK
<1>5. fetch' \in [Requests -> Fetches] /\ fetch'[r] = new /\ \A s \in Requests : s # r => fetch'[s] = underWay[s]
  BY <1>1, <1>2
<1>6. LookupTypeOK'
  <2>1. \A s \in Requests : fetch'[s].at # "nowhere" => fetch'[s].owner \in Lookups /\ fetch'[s].now <= now'
    BY <1>2, <1>4, <1>5 DEF LookupTypeOK, Follows
  <2> QED
    BY <1>1, <1>5, <2>1 DEF LookupTypeOK
<1>7. BackendIsHonest' /\ AnswersAreHonest'
  BY <1>2, <1>4, <1>5 DEF Follows, BackendIsHonest, AnswersAreHonest
<1>8. LoadsSomething' /\ NeverBlank' /\ MemoryIsFresh'
  BY <1>1, <1>2, <1>5, BlankPages DEF LoadsSomething, NeverBlank, Sections, MemoryIsFresh
<1> QED
  BY <1>3, <1>6, <1>7, <1>8

(* What is taken from memory before its life there has ended is within the lives. *)
LEMMA RecallShows ==
    ASSUME LookupInv, NEW o \in Lookups, Known(o), Recall(o)
    PROVE  /\ shown' = o /\ display' \in [found : Founds, since : Nat]
           /\ Remembered(o) => InTime'
<1> USE OwnershipCacheAssumption, OwnerLookupAssumption DEF LookupInv
<1>1. pageCache[o] \in Kept /\ pageCache[o].found \in Founds /\ pageCache[o].expiresAt \in Nat /\ now \in Nat
  BY DEF LookupTypeOK, Kept, CacheInv, TypeOK
<1>2. shown' = o /\ display' = [found |-> pageCache[o].found, since |-> now]
  BY DEF Recall
<1>3. Remembered(o) =>
          pageCache[o].found.asOf + TTL + pageCache[o].found.took + EdgeTTL + PageTTL > now
  <2> SUFFICES ASSUME Remembered(o)
               PROVE  pageCache[o].found.asOf + TTL + pageCache[o].found.took + EdgeTTL + PageTTL > now
    OBVIOUS
  <2>1. /\ pageCache[o].expiresAt > now /\ pageCache[o].found.asOf \in Nat /\ pageCache[o].found.took \in Nat
        /\ pageCache[o].expiresAt <=
               pageCache[o].found.asOf + TTL + pageCache[o].found.took + EdgeTTL + PageTTL
    BY <1>1 DEF Remembered, Known, PageIsHonest, Founds
  <2> QED
    BY <1>1, <2>1
<1>4. Remembered(o) => InTime'
  BY <1>2, <1>3 DEF InTime
<1> QED
  BY <1>1, <1>2, <1>4

LEMMA SearchKeeps ==
    ASSUME LookupInv, NEW o \in Lookups, Search(o)
    PROVE  LookupInv'
<1>1. LookupTypeOK /\ Follows(fetch) /\ fetch \in [Requests -> Fetches]
  BY LeftBehindFollows DEF LookupInv, LookupTypeOK
<1>2. CASE Remembered(o)
  <2>1. /\ searched' = o /\ Recall(o) /\ loading' = FALSE /\ error' = FALSE
        /\ UNCHANGED <<vars, edgeCache, pageCache, fetch>>
    BY <1>2 DEF Search
  <2>2. shown' = o /\ display' \in [found : Founds, since : Nat] /\ InTime'
    BY <1>2, <2>1, RecallShows DEF Remembered
  <2>3. LoadsSomething' /\ NeverBlank' /\ MemoryIsFresh'
    BY <2>1, <2>2, OwnerLookupAssumption, BlankPages DEF LoadsSomething, NeverBlank, Sections, MemoryIsFresh
  <2>4. Follows(fetch')
    BY <1>1, <2>1 DEF Follows
  <2> QED
    BY <1>1, <2>1, <2>2, <2>3, <2>4, PageSteps
<1>3. CASE ~Remembered(o)
  <2>1. PICK r \in Requests : Ask(r, o, fetch)
    BY <1>3 DEF Search
  <2>2. /\ searched' = o /\ UNCHANGED <<shown, display, error>> /\ UNCHANGED <<vars, pageCache, edgeCache>>
    BY <1>3 DEF Search
  <2> QED
    BY <1>1, <2>1, <2>2, AskKeeps DEF LookupTypeOK
<1> QED
  BY <1>2, <1>3

LEMMA ClearKeeps ==
    ASSUME LookupInv, Clear
    PROVE  LookupInv'
<1>1. LookupTypeOK /\ Follows(fetch) /\ fetch \in [Requests -> Fetches]
  BY LeftBehindFollows DEF LookupInv, LookupTypeOK
<1>2. /\ searched' = None /\ shown' = None /\ display' = Nothing /\ loading' = FALSE /\ error' = FALSE
      /\ UNCHANGED <<vars, edgeCache, pageCache, fetch>>
  BY DEF Clear, Blank
<1>3. Nothing \in [found : Founds, since : Nat]
  BY DEF Nothing, Failure, Founds
<1>4. LoadsSomething' /\ NeverBlank' /\ MemoryIsFresh'
  BY <1>2 DEF LoadsSomething, NeverBlank, MemoryIsFresh
<1>5. Follows(fetch')
  BY <1>1, <1>2 DEF Follows
<1> QED
  BY <1>1, <1>2, <1>3, <1>4, <1>5, PageSteps

LEMMA RefreshKeeps ==
    ASSUME LookupInv, Refresh
    PROVE  LookupInv'
<1>1. PICK r \in Requests : Ask(r, searched, fetch)
  BY DEF Refresh
<1>2. searched \in Lookups /\ UNCHANGED <<vars, searched, shown, display, error, pageCache, edgeCache>>
  BY DEF Refresh, LookupInv, LookupTypeOK
<1>3. LookupTypeOK /\ Follows(fetch) /\ fetch \in [Requests -> Fetches]
  BY LeftBehindFollows DEF LookupInv, LookupTypeOK
<1> QED
  BY <1>1, <1>2, <1>3, AskKeeps DEF LookupTypeOK

(* A page that is opened shows what has expired only while it loads. *)
LEMMA VisitKeeps ==
    ASSUME LookupInv, NEW o \in Lookups \cup {None}, Visit(o)
    PROVE  LookupInv'
<1>1. /\ LookupTypeOK /\ Follows(LeftBehind) /\ LeftBehind \in [Requests -> Fetches]
  BY LeftBehindFollows DEF LookupInv
<1>2. searched' = o /\ error' = FALSE /\ UNCHANGED <<vars, pageCache, edgeCache>>
  BY DEF Visit
<1>3. Nothing \in [found : Founds, since : Nat]
  BY DEF Nothing, Failure, Founds
<1>4. CASE o = None
  <2>1. Blank /\ loading' = FALSE /\ fetch' = LeftBehind
    BY <1>4 DEF Visit
  <2>2. shown' = None /\ display' = Nothing
    BY <2>1 DEF Blank
  <2>3. LoadsSomething' /\ NeverBlank' /\ MemoryIsFresh'
    BY <1>2, <1>4, <2>1, <2>2 DEF LoadsSomething, NeverBlank, MemoryIsFresh
  <2>4. Follows(fetch')
    BY <1>1, <2>1 DEF Follows
  <2> QED
    BY <1>1, <1>2, <1>3, <2>1, <2>2, <2>3, <2>4, PageSteps
<1>5. CASE o # None /\ Remembered(o)
  <2>1. Recall(o) /\ loading' = FALSE /\ fetch' = LeftBehind /\ o \in Lookups
    BY <1>5 DEF Visit
  <2>2. shown' = o /\ display' \in [found : Founds, since : Nat] /\ InTime'
    BY <1>5, <2>1, RecallShows DEF Remembered
  <2>3. LoadsSomething' /\ NeverBlank' /\ MemoryIsFresh'
    BY <1>2, <1>5, <2>1, <2>2, BlankPages DEF LoadsSomething, NeverBlank, Sections, MemoryIsFresh
  <2>4. Follows(fetch')
    BY <1>1, <2>1 DEF Follows
  <2> QED
    BY <1>1, <1>2, <2>1, <2>2, <2>3, <2>4, PageSteps
<1>6. CASE o # None /\ ~Remembered(o)
  <2>1. PICK r \in Requests : Ask(r, o, LeftBehind)
    BY <1>6 DEF Visit
  <2>2. o \in Lookups /\ IF Known(o) THEN Recall(o) ELSE Blank
    BY <1>6 DEF Visit
  <2>3. shown' \in Lookups \cup {None} /\ display' \in [found : Founds, since : Nat]
    BY <1>3, <2>2, RecallShows DEF Blank
  <2> QED
    BY <1>1, <1>2, <2>1, <2>2, <2>3, AskKeeps
<1> QED
  BY <1>4, <1>5, <1>6

(* An answer is remembered for the life that begins when it was asked for. *)
LEMMA RemembersKeeps ==
    ASSUME LookupInv, NEW r \in Requests, fetch[r].at = "page", Remembers(r)
    PROVE  pageCache' \in [Lookups -> Kept] /\ PageIsHonest'
<1> USE OwnershipCacheAssumption, OwnerLookupAssumption DEF LookupInv
<1>1. fetch[r] \in Fetches /\ fetch[r].owner \in Lookups /\ fetch[r].found \in Founds /\ fetch[r].now \in Nat
  BY DEF LookupTypeOK, Fetches
<1>2. CASE fetch[r].found = Failure
  BY <1>2 DEF Remembers, LookupTypeOK, PageIsHonest
<1>3. CASE fetch[r].found # Failure
  <2> DEFINE kept == [found |-> fetch[r].found, expiresAt |-> PageExpiry(r)]
  <2>1. pageCache' = [pageCache EXCEPT ![fetch[r].owner] = kept]
    BY <1>3 DEF Remembers
  <2>2. kept \in Kept /\ kept.found = fetch[r].found /\ kept.expiresAt = fetch[r].now + PageTTL
    BY <1>1 DEF Kept, PageExpiry
  <2> HIDE DEF kept
  <2>3. kept.found.asOf # None =>
            kept.expiresAt <= kept.found.asOf + TTL + kept.found.took + EdgeTTL + PageTTL
    BY <1>1, <2>2 DEF AnswersAreHonest, Founds
  <2> QED
    BY <1>1, <2>1, <2>2, <2>3 DEF PageIsHonest, LookupTypeOK
<1> QED
  BY <1>2, <1>3

(* What is shown was within the lives when the page asked. *)
LEMMA ShowsInTime ==
    ASSUME LookupInv, NEW r \in Requests, fetch[r].at = "page", Shows(r), fetch[r].found.asOf # None
    PROVE  InTime'
<1> USE OwnershipCacheAssumption, OwnerLookupAssumption
<1>1. /\ fetch[r].found \in Founds /\ fetch[r].now \in Nat
      /\ fetch[r].found.asOf + TTL + fetch[r].found.took + EdgeTTL >= fetch[r].now
  BY DEF LookupInv, LookupTypeOK, Fetches, AnswersAreHonest
<1>2. display' = [found |-> fetch[r].found, since |-> fetch[r].now]
  BY DEF Shows
<1> QED
  BY <1>1, <1>2 DEF InTime, Founds

LEMMA ArrivesKeeps ==
    ASSUME LookupInv, NEW r \in Requests, Arrives(r)
    PROVE  LookupInv'
<1> USE OwnershipCacheAssumption, OwnerLookupAssumption
<1> DEFINE o == fetch[r].owner
<1>1. /\ fetch[r] \in Fetches /\ o \in Lookups /\ fetch[r].at = "page" /\ fetch[r].found \in Founds
      /\ fetch' = [fetch EXCEPT ![r] = NoFetch] /\ UNCHANGED <<vars, searched, edgeCache>>
      /\ Remembers(r)
  BY DEF Arrives, LookupInv, LookupTypeOK, Fetches
<1>2. NoFetch \in Fetches /\ NoFetch.at = "nowhere"
  BY DEF NoFetch, Fetches, Founds, Failure
<1>3. CacheInv' /\ EdgeIsHonest'
  BY <1>1 DEF vars, LookupInv, CacheInv, TypeOK, EntriesAreHonest, AnswersAreFresh, EdgeIsHonest
<1>4. BackendIsHonest' /\ AnswersAreHonest'
  BY <1>1, <1>2 DEF LookupInv, LookupTypeOK, BackendIsHonest, AnswersAreHonest, vars
<1>5. pageCache' \in [Lookups -> Kept] /\ PageIsHonest'
  BY <1>1, RemembersKeeps
<1>6. /\ shown' \in Lookups \cup {None} /\ display' \in [found : Founds, since : Nat]
      /\ loading' \in BOOLEAN /\ error' \in BOOLEAN
      /\ LoadsSomething' /\ NeverBlank' /\ MemoryIsFresh'
  <2>1. CASE ToNobody(r)
    <3>1. ~fetch[r].mounted /\ UNCHANGED <<shown, display, loading, error, searched>>
      BY <1>1, <2>1 DEF ToNobody
    <3>2. LoadsSomething'
      BY <1>1, <3>1 DEF LookupInv, LookupTypeOK, LoadsSomething
    <3>3. NeverBlank' /\ MemoryIsFresh'
      BY <3>1 DEF LookupInv, NeverBlank, Sections, MemoryIsFresh, InTime
    <3> QED
      BY <3>1, <3>2, <3>3 DEF LookupInv, LookupTypeOK
  <2>2. CASE Shows(r) /\ loading' = FALSE
    <3>1. /\ fetch[r].found # Failure /\ shown' = o /\ error' = FALSE
          /\ display' = [found |-> fetch[r].found, since |-> fetch[r].now]
      BY <2>2 DEF Shows
    <3>2. fetch[r].now \in Nat
      BY <1>1 DEF Fetches
    <3>3. fetch[r].found.asOf # None
      BY <1>1, <3>1 DEF Founds
    <3>4. InTime'
      BY <1>1, <2>2, <3>3, ShowsInTime
    <3>5. LoadsSomething' /\ NeverBlank' /\ MemoryIsFresh'
      BY <1>1, <2>2, <3>1, <3>4, BlankPages DEF LoadsSomething, NeverBlank, Sections, MemoryIsFresh
    <3> QED
      BY <1>1, <2>2, <3>1, <3>2, <3>5
  <2>3. CASE Fails(r) /\ loading' = FALSE
    BY <1>1, <2>3 DEF Fails, LookupInv, LookupTypeOK, LoadsSomething, NeverBlank, Sections, MemoryIsFresh
  <2> QED
    BY <2>1, <2>2, <2>3 DEF Arrives
<1>7. LookupTypeOK'
  BY <1>1, <1>2, <1>3, <1>5, <1>6 DEF LookupInv, LookupTypeOK, vars
<1> QED
  BY <1>3, <1>4, <1>5, <1>6, <1>7 DEF LookupInv

(* A step that moves fetch r, or changes what it holds, and leaves the page alone. *)
LEMMA FetchMoves ==
    ASSUME LookupInv, NEW r \in Requests, NEW new \in Fetches, CacheInv', EdgeIsHonest',
           edgeCache' \in [Lookups -> Kept], fetch' = [fetch EXCEPT ![r] = new],
           new.at \in {"edge", "backend", "page"}, new.owner \in Lookups, new.now <= now, now' = now,
           new.mounted = fetch[r].mounted, UNCHANGED pageVars
    PROVE  /\ LookupTypeOK' /\ EdgeIsHonest' /\ PageIsHonest'
           /\ LoadsSomething' /\ NeverBlank' /\ MemoryIsFresh'
<1> USE OwnershipCacheAssumption, OwnerLookupAssumption DEF LookupInv
<1>1. LookupTypeOK' /\ PageIsHonest'
  BY DEF LookupTypeOK, PageIsHonest, pageVars
<1>2. NeverBlank' /\ MemoryIsFresh'
  BY DEF NeverBlank, Sections, MemoryIsFresh, InTime, pageVars
<1>3. LoadsSomething'
  BY DEF LoadsSomething, LookupTypeOK, pageVars
<1> QED
  BY <1>1, <1>2, <1>3

LEMMA IsLostKeeps ==
    ASSUME LookupInv, NEW r \in Requests, IsLost(r)
    PROVE  LookupInv'
<1> USE OwnershipCacheAssumption, OwnerLookupAssumption
<1> DEFINE new == [fetch[r] EXCEPT !.at = "page", !.found = Failure]
<1>1. fetch[r] \in Fetches /\ fetch[r].owner \in Lookups /\ fetch[r].now <= now /\ UNCHANGED <<vars, pageVars, edgeCache>>
  BY DEF IsLost, LookupInv, LookupTypeOK
<1>2. /\ new \in Fetches /\ new.at = "page" /\ new.found = Failure
      /\ new.owner = fetch[r].owner /\ new.now = fetch[r].now /\ new.mounted = fetch[r].mounted
  BY <1>1 DEF Fetches, Founds, Failure
<1>3. fetch' = [fetch EXCEPT ![r] = new]
  BY <1>1 DEF IsLost, LookupInv, LookupTypeOK, Fetches
<1> HIDE DEF new
<1>4. CacheInv' /\ EdgeIsHonest' /\ edgeCache' \in [Lookups -> Kept] /\ now' = now
  BY <1>1 DEF vars, LookupInv, LookupTypeOK, CacheInv, TypeOK, EntriesAreHonest, AnswersAreFresh, EdgeIsHonest
<1>5. LookupTypeOK' /\ PageIsHonest' /\ LoadsSomething' /\ NeverBlank' /\ MemoryIsFresh'
  BY <1>1, <1>2, <1>3, <1>4, FetchMoves
<1>6. BackendIsHonest' /\ AnswersAreHonest'
  BY <1>1, <1>2, <1>3 DEF LookupInv, LookupTypeOK, BackendIsHonest, AnswersAreHonest, vars, Failure
<1> QED
  BY <1>4, <1>5, <1>6 DEF LookupInv

(* What the edge still has names a life that has not ended when the page asked. *)
LEMMA EdgeHitKeeps ==
    ASSUME LookupInv, NEW r \in Requests, EdgeHit(r)
    PROVE  LookupInv'
<1> USE OwnershipCacheAssumption, OwnerLookupAssumption
<1> DEFINE kept == edgeCache[fetch[r].owner]
           new == [fetch[r] EXCEPT !.at = "page", !.found = kept.found]
<1>1. fetch[r] \in Fetches /\ fetch[r].owner \in Lookups /\ fetch[r].now <= now /\ UNCHANGED <<vars, pageVars, edgeCache>>
  BY DEF EdgeHit, LookupInv, LookupTypeOK
<1>2. kept \in Kept /\ kept.expiresAt > now
  BY <1>1 DEF EdgeHit, LookupInv, LookupTypeOK
<1>3. /\ new \in Fetches /\ new.at = "page" /\ new.found = kept.found
      /\ new.owner = fetch[r].owner /\ new.now = fetch[r].now /\ new.mounted = fetch[r].mounted
  BY <1>1, <1>2 DEF Fetches, Kept
<1>4. fetch' = [fetch EXCEPT ![r] = new]
  BY <1>1 DEF EdgeHit, LookupInv, LookupTypeOK, Fetches
<1>5. kept.found.asOf # None => kept.expiresAt <= kept.found.asOf + TTL + kept.found.took + EdgeTTL
  BY <1>1 DEF LookupInv, EdgeIsHonest
<1>6. now \in Nat /\ fetch[r].now \in Nat /\ kept.expiresAt \in Nat /\ kept.found \in Founds
  BY <1>1, <1>2 DEF LookupInv, CacheInv, TypeOK, Fetches, Kept
<1> HIDE DEF kept, new
<1>7. kept.found.asOf # None => kept.found.asOf + TTL + kept.found.took + EdgeTTL >= fetch[r].now
  BY <1>1, <1>2, <1>5, <1>6 DEF Founds
<1>8. CacheInv' /\ EdgeIsHonest' /\ edgeCache' \in [Lookups -> Kept] /\ now' = now
  BY <1>1 DEF vars, LookupInv, LookupTypeOK, CacheInv, TypeOK, EntriesAreHonest, AnswersAreFresh, EdgeIsHonest
<1>9. LookupTypeOK' /\ PageIsHonest' /\ LoadsSomething' /\ NeverBlank' /\ MemoryIsFresh'
  BY <1>1, <1>3, <1>4, <1>8, FetchMoves
<1>10. BackendIsHonest'
  BY <1>1, <1>3, <1>4 DEF LookupInv, LookupTypeOK, BackendIsHonest, vars
<1>11. AnswersAreHonest'
  BY <1>3, <1>4, <1>7 DEF LookupInv, LookupTypeOK, AnswersAreHonest
<1> QED
  BY <1>8, <1>9, <1>10, <1>11 DEF LookupInv

(* The backend is asked: it answers from its cache, or the request it begins is as old as now. *)
LEMMA EdgeMissKeeps ==
    ASSUME LookupInv, NEW r \in Requests, EdgeMiss(r)
    PROVE  LookupInv'
<1> USE OwnershipCacheAssumption, OwnerLookupAssumption
<1> DEFINE o == fetch[r].owner
           new == [fetch[r] EXCEPT !.at = "backend", !.sent = now]
<1>1. /\ fetch[r] \in Fetches /\ o \in Lookups /\ o \in Entries /\ fetch[r].now <= now
      /\ Hit(r, o) \/ Miss(r, o)
      /\ UNCHANGED <<pageVars, edgeCache>>
  BY DEF EdgeMiss, LookupInv, LookupTypeOK, Entries
<1>2. now \in Nat
  BY DEF LookupInv, CacheInv, TypeOK
<1>3. /\ new \in Fetches /\ new.at = "backend" /\ new.sent = now
      /\ new.owner = o /\ new.now = fetch[r].now /\ new.mounted = fetch[r].mounted
  BY <1>1, <1>2 DEF Fetches
<1>4. fetch' = [fetch EXCEPT ![r] = new]
  BY <1>1 DEF EdgeMiss, LookupInv, LookupTypeOK, Fetches
<1> HIDE DEF new
<1>5. CacheInv'
  <2>1. CASE Hit(r, o)
    BY <2>1, <1>1, HitKeeps DEF LookupInv
  <2>2. CASE Miss(r, o)
    BY <2>2, <1>1, CacheStep DEF LookupInv, Next
  <2> QED
    BY <1>1, <2>1, <2>2
<1>6. EdgeIsHonest' /\ edgeCache' \in [Lookups -> Kept] /\ now' = now
  BY <1>1 DEF LookupInv, LookupTypeOK, EdgeIsHonest, Hit, Miss
<1>7. LookupTypeOK' /\ PageIsHonest' /\ LoadsSomething' /\ NeverBlank' /\ MemoryIsFresh'
  BY <1>1, <1>3, <1>4, <1>5, <1>6, FetchMoves
<1>8. AnswersAreHonest'
  BY <1>3, <1>4 DEF LookupInv, LookupTypeOK, AnswersAreHonest
<1>9. /\ request'[r].entry # None => request'[r].now = now
      /\ request'[r].entry = None /\ ~answer'[r].error =>
             answer'[r].asOf \in Nat /\ answer'[r].asOf + TTL >= now
  <2>1. CASE Hit(r, o)
    <3>1. /\ request' = request /\ request[r] = NoRequest
          /\ answer' = [answer EXCEPT ![r] = [asOf |-> cache[o].asOf, asked |-> now, error |-> FALSE]]
          /\ cache[o].asOf # None /\ cache[o].expiresAt > now
      BY <2>1 DEF Hit, Tell, Fresh
    <3>2. cache[o].asOf \in Nat /\ cache[o].expiresAt \in Nat /\ cache[o].expiresAt <= cache[o].asOf + TTL
      BY <1>1, <3>1 DEF LookupInv, CacheInv, TypeOK, EntriesAreHonest
    <3>3. answer'[r].asOf = cache[o].asOf
      BY <3>1 DEF LookupInv, CacheInv, TypeOK
    <3> QED
      BY <1>2, <3>1, <3>2, <3>3 DEF NoRequest
  <2>2. CASE Miss(r, o)
    <3>1. request'[r] = [entry |-> o, now |-> now]
      BY <2>2 DEF Miss, LookupInv, CacheInv, TypeOK
    <3> QED
      BY <1>1, <3>1
  <2> QED
    BY <1>1, <2>1, <2>2
<1>10. \A s \in Requests : s # r => request'[s] = request[s] /\ answer'[s] = answer[s] /\ fetch'[s] = fetch[s]
  BY <1>1, <1>4 DEF Hit, Miss, Tell, LookupInv, LookupTypeOK, CacheInv, TypeOK
<1>11. fetch'[r] = new
  BY <1>4 DEF LookupInv, LookupTypeOK
<1>12. BackendIsHonest'
  <2> SUFFICES ASSUME NEW s \in Requests, fetch'[s].at = "backend"
               PROVE  /\ fetch'[s].now <= fetch'[s].sent /\ fetch'[s].sent <= now'
                      /\ request'[s].entry # None => request'[s].now = fetch'[s].sent
                      /\ request'[s].entry = None /\ ~answer'[s].error =>
                             answer'[s].asOf \in Nat /\ answer'[s].asOf + TTL >= fetch'[s].sent
    BY DEF BackendIsHonest
  <2>1. CASE s = r
    BY <1>1, <1>2, <1>3, <1>6, <1>9, <1>11, <2>1
  <2>2. CASE s # r
    BY <1>6, <1>10, <2>2 DEF LookupInv, BackendIsHonest
  <2> QED
    BY <2>1, <2>2
<1> QED
  BY <1>5, <1>6, <1>7, <1>8, <1>12 DEF LookupInv

(* What the backend fetched is no older than the request; a failed answer says so. *)
LEMMA BackendKeeps ==
    ASSUME LookupInv, NEW r \in Requests, Backend(r)
    PROVE  LookupInv'
<1> USE OwnershipCacheAssumption, OwnerLookupAssumption
<1>1. UNCHANGED <<pageVars, edgeCache, fetch>> /\ now' = now
  BY DEF Backend, Fetched, FetchFails
<1>2. /\ request' = [request EXCEPT ![r] = NoRequest] /\ request[r].entry # None
      /\ answer'[r].error \/ (answer'[r].asOf \in Nat /\ answer'[r].asOf >= request[r].now)
      /\ \A s \in Requests : s # r => answer'[s] = answer[s]
  <2>1. CASE FetchFails(r)
    BY <2>1 DEF FetchFails, Tell, LookupInv, CacheInv, TypeOK
  <2>2. CASE \E asOf \in 0..now : Fetched(r, asOf)
    BY <2>2 DEF Fetched, Tell, LookupInv, CacheInv, TypeOK
  <2> QED
    BY <2>1, <2>2 DEF Backend
<1>3. CacheInv'
  BY CacheStep DEF LookupInv, Backend, Next
<1>4. LookupTypeOK' /\ EdgeIsHonest' /\ AnswersAreHonest' /\ PageIsHonest' /\ LoadsSomething' /\ NeverBlank'
      /\ MemoryIsFresh'
  BY <1>1 DEF LookupInv, LookupTypeOK, EdgeIsHonest, AnswersAreHonest, PageIsHonest, LoadsSomething,
              NeverBlank, Sections, MemoryIsFresh, InTime, pageVars
<1>5. BackendIsHonest'
  <2> SUFFICES ASSUME NEW s \in Requests, fetch[s].at = "backend"
               PROVE  /\ fetch[s].now <= fetch[s].sent /\ fetch[s].sent <= now
                      /\ request'[s].entry # None => request'[s].now = fetch[s].sent
                      /\ request'[s].entry = None /\ ~answer'[s].error =>
                             answer'[s].asOf \in Nat /\ answer'[s].asOf + TTL >= fetch[s].sent
    BY <1>1 DEF BackendIsHonest
  <2>1. CASE s = r
    <3>1. request'[r].entry = None
      BY <1>2 DEF NoRequest, LookupInv, CacheInv, TypeOK
    <3>2. request[r].now = fetch[r].sent /\ request[r].now \in Nat
      BY <1>2, <2>1 DEF LookupInv, BackendIsHonest, CacheInv, TypeOK
    <3> QED
      BY <1>2, <2>1, <3>1, <3>2 DEF LookupInv, BackendIsHonest
  <2>2. CASE s # r
    BY <1>2, <2>2 DEF LookupInv, BackendIsHonest, CacheInv, TypeOK
  <2> QED
    BY <2>1, <2>2
<1> QED
  BY <1>3, <1>4, <1>5 DEF LookupInv

(* The edge's own life begins when the answer reaches it, took seconds after it asked. *)
LEMMA EdgeKeepsKeeps ==
    ASSUME LookupInv, NEW r \in Requests, EdgeKeeps(r)
    PROVE  LookupInv'
<1> USE OwnershipCacheAssumption, OwnerLookupAssumption
<1> DEFINE o == fetch[r].owner
<1>1. PICK found \in {Failure} \cup
         (IF answer[r].error THEN {} ELSE {[asOf |-> answer[r].asOf, took |-> now - fetch[r].sent]}) :
         /\ edgeCache' = [edgeCache EXCEPT ![o] =
               [found |-> found, expiresAt |-> now + (IF found = Failure THEN ErrorTTL ELSE EdgeTTL)]]
         /\ fetch' = [fetch EXCEPT ![r].at = "page", ![r].found = found]
  BY DEF EdgeKeeps
<1>2. /\ fetch[r] \in Fetches /\ o \in Lookups /\ fetch[r].now <= now /\ fetch[r].at = "backend"
      /\ request[r] = NoRequest /\ UNCHANGED <<vars, pageVars>>
  BY DEF EdgeKeeps, LookupInv, LookupTypeOK
<1>3. now \in Nat /\ fetch[r].sent \in Nat /\ fetch[r].now \in Nat /\ fetch[r].now <= fetch[r].sent /\ fetch[r].sent <= now
  BY <1>2 DEF LookupInv, CacheInv, TypeOK, Fetches, BackendIsHonest
<1>4. request[r].entry = None
  BY <1>2 DEF NoRequest
<1>5. /\ found \in Founds
      /\ found # Failure => found.asOf \in Nat /\ found.asOf + TTL + found.took >= now
  <2>1. CASE found = Failure
    BY <2>1 DEF Founds, Failure
  <2>2. CASE found # Failure
    <3>1. ~answer[r].error /\ found = [asOf |-> answer[r].asOf, took |-> now - fetch[r].sent]
      BY <1>1, <2>2
    <3>2. answer[r].asOf \in Nat /\ answer[r].asOf + TTL >= fetch[r].sent
      BY <1>2, <1>4, <3>1 DEF LookupInv, BackendIsHonest
    <3>3. found.asOf = answer[r].asOf /\ found.took = now - fetch[r].sent /\ now - fetch[r].sent \in Nat
      BY <1>3, <3>1
    <3>4. found \in Founds
      BY <3>1, <3>2, <3>3 DEF Founds
    <3>5. found.asOf + TTL + found.took >= now
      BY <1>3, <3>2, <3>3
    <3> QED
      BY <3>2, <3>3, <3>4, <3>5
  <2> QED
    BY <2>1, <2>2
<1> DEFINE kept == [found |-> found, expiresAt |-> now + (IF found = Failure THEN ErrorTTL ELSE EdgeTTL)]
           new == [fetch[r] EXCEPT !.at = "page", !.found = found]
<1>6. /\ kept \in Kept /\ kept.found = found
      /\ found # Failure => kept.expiresAt = now + EdgeTTL
      /\ edgeCache' = [edgeCache EXCEPT ![o] = kept]
  BY <1>1, <1>3, <1>5 DEF Kept
<1>7. /\ new \in Fetches /\ new.at = "page" /\ new.found = found
      /\ new.owner = o /\ new.now = fetch[r].now /\ new.mounted = fetch[r].mounted
  BY <1>2, <1>5 DEF Fetches
<1>8. fetch' = [fetch EXCEPT ![r] = new]
  BY <1>1, <1>2 DEF LookupInv, LookupTypeOK, Fetches
<1> HIDE DEF kept, new
<1>9. CacheInv' /\ edgeCache' \in [Lookups -> Kept] /\ now' = now
  BY <1>2, <1>6 DEF vars, LookupInv, LookupTypeOK, CacheInv, TypeOK, EntriesAreHonest, AnswersAreFresh
<1>10. kept.found.asOf # None => kept.expiresAt <= kept.found.asOf + TTL + kept.found.took + EdgeTTL
  BY <1>3, <1>5, <1>6 DEF Founds, Failure
<1>11. EdgeIsHonest'
  BY <1>2, <1>6, <1>10 DEF LookupInv, LookupTypeOK, EdgeIsHonest
<1>12. LookupTypeOK' /\ PageIsHonest' /\ LoadsSomething' /\ NeverBlank' /\ MemoryIsFresh'
  BY <1>2, <1>7, <1>8, <1>9, <1>11, FetchMoves
<1>13. BackendIsHonest'
  BY <1>2, <1>7, <1>8 DEF LookupInv, LookupTypeOK, BackendIsHonest, vars
<1>14. found.asOf # None => found.asOf + TTL + found.took + EdgeTTL >= fetch[r].now
  BY <1>3, <1>5 DEF Founds, Failure
<1>15. AnswersAreHonest'
  BY <1>7, <1>8, <1>14 DEF LookupInv, LookupTypeOK, AnswersAreHonest
<1> QED
  BY <1>9, <1>11, <1>12, <1>13, <1>15 DEF LookupInv

LEMMA WaitsKeeps ==
    ASSUME LookupInv, Waits
    PROVE  LookupInv'
<1> USE OwnershipCacheAssumption, OwnerLookupAssumption
<1>1. now' = now + 1 /\ now \in Nat /\ UNCHANGED <<cache, request, answer, pageVars, edgeCache, fetch>>
  BY DEF Waits, TimePasses, LookupInv, CacheInv, TypeOK
<1>2. CacheInv'
  BY CacheStep DEF LookupInv, Waits, Next
<1>3. LookupTypeOK'
  BY <1>1 DEF LookupInv, LookupTypeOK, Fetches, pageVars
<1>4. EdgeIsHonest' /\ AnswersAreHonest' /\ PageIsHonest' /\ LoadsSomething' /\ NeverBlank' /\ MemoryIsFresh'
  BY <1>1 DEF LookupInv, EdgeIsHonest, AnswersAreHonest, PageIsHonest, LoadsSomething, NeverBlank, Sections,
              MemoryIsFresh, InTime, pageVars
<1>5. \A r \in Requests : fetch[r].sent \in Nat
  BY DEF LookupInv, LookupTypeOK, Fetches
<1>6. BackendIsHonest'
  BY <1>1, <1>5 DEF LookupInv, BackendIsHonest
<1> QED
  BY <1>2, <1>3, <1>4, <1>6 DEF LookupInv

LEMMA LookupStep == LookupInv /\ [LookupNext]_lookupVars => LookupInv'
<1> SUFFICES ASSUME LookupInv, [LookupNext]_lookupVars PROVE LookupInv'
  OBVIOUS
<1>1. CASE UNCHANGED lookupVars
  BY <1>1 DEF lookupVars, vars, pageVars, LookupInv, LookupTypeOK, CacheInv, TypeOK, EntriesAreHonest,
              AnswersAreFresh, EdgeIsHonest, BackendIsHonest, AnswersAreHonest, PageIsHonest,
              LoadsSomething, NeverBlank, Sections, MemoryIsFresh, InTime
<1> QED
  BY <1>1, WaitsKeeps, ClearKeeps, RefreshKeeps, SearchKeeps, VisitKeeps, ArrivesKeeps, IsLostKeeps, EdgeHitKeeps,
     EdgeMissKeeps, BackendKeeps, EdgeKeepsKeeps DEF LookupNext

(* Results on a page that is neither loading nor has failed were within the lives of the three *)
(* memories when they were asked for or taken from memory, for any number of overlapping       *)
(* searches and visits, in whatever order answers arrive.                                      *)
THEOREM MemoryAlwaysFresh == LookupSpec => []MemoryIsFresh
<1>1. LookupInv => MemoryIsFresh
  BY DEF LookupInv
<1> QED BY <1>1, LookupStarts, LookupStep, PTL DEF LookupSpec

(* A valid search shows results, that it failed, or that it is loading, and then a fetch is *)
(* under way that will end it: in whatever order searches are made, answered and lost.      *)
THEOREM PagesAreNeverSilent == LookupSpec => []NeverSilent
<1>1. LookupInv => NeverSilent
  BY DEF LookupInv, NeverSilent
<1> QED BY <1>1, LookupStarts, LookupStep, PTL DEF LookupSpec
=============================================================================
