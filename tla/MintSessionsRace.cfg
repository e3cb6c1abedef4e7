SPECIFICATION Spec
CONSTANTS
    Sessions = {s1}
    Handlers = {h1}
    CommitTx = c
    ManualTxs = {u1}
    RelayTxs = {r1}
    None = None
    MaxIdentify = 1
    MaxCommit = 1
    MaxFinalize = 1
    MaxRelay = 1
    WindowCloses = TRUE
PROPERTY FinalizedStays
CHECK_DEADLOCK FALSE
