SPECIFICATION LookupSpec
VIEW LookupView
CONSTANTS
    Requests = {r1, r2}
    Lookups = {"one", "other"}
    TTL = 1
    EdgeTTL = 1
    ErrorTTL = 1
    PageTTL = 1
    MaxTime = 1
    None = None
SYMMETRY RequestSymmetry
INVARIANT ShownIsSearched
