---------------------------- MODULE MCOwnerLookup ----------------------------
(* Searches, two at a time.  Requests are interchangeable. *)
EXTENDS OwnerLookup, TLC
RequestSymmetry == Permutations(Requests)

(* Nothing reads an entry of the backend or the edge that has expired, nor an answer of the     *)
(* backend but the edge that waits for it; and of what was found only the age and the wait      *)
(* together are read.                                                                           *)
Alive(entries, gone) == [o \in Lookups |-> IF entries[o].expiresAt > now THEN entries[o] ELSE gone]
Age(found)  == IF found = Failure THEN None ELSE found.asOf + found.took
Edge(o)     == LET kept == Alive(edgeCache, Unused)[o] IN << Age(kept.found), kept.expiresAt >>
Page(o)     == << Age(pageCache[o].found), IF Remembered(o) THEN pageCache[o].expiresAt ELSE 0 >>
UnderWay(r) == << fetch[r].owner, fetch[r].at, fetch[r].mounted, fetch[r].now, Age(fetch[r].found),
                  IF fetch[r].at = "backend" THEN << fetch[r].sent, answer[r] >> ELSE << >> >>
LookupView  == << now, request, searched, shown, loading, error, shown # None => InTime,
                  Alive(cache, NoEntry), [o \in Lookups |-> << Edge(o), Page(o) >>],
                  [r \in Requests |-> UnderWay(r)] >>
=============================================================================
