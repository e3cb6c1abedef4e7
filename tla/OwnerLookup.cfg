SPECIFICATION LookupSpec
VIEW LookupView
CONSTANTS
    Requests = {r1, r2}
    Lookups = {"owner"}
    TTL = 1
    EdgeTTL = 1
    ErrorTTL = 1
    PageTTL = 1
    MaxTime = 3
    None = None
SYMMETRY RequestSymmetry
INVARIANTS
    AnswersAreFresh
    MemoryIsFresh
    NeverSilent
