SPECIFICATION Spec
CONSTANTS
    Sessions = {s1}
    Handlers = {h1, h2}
    CommitTx = c
    ManualTxs = {u1}
    RelayTxs = {r1}
    None = None
    MaxIdentify = 1
    MaxCommit = 2
    MaxFinalize = 1
    MaxRelay = 1
    WindowCloses = TRUE
SYMMETRY SessionSymmetry
INVARIANTS
    RecordsCoherent
    VerdictsHold
PROPERTY StaysOnTheList
CHECK_DEADLOCK FALSE
