SPECIFICATION Spec
CONSTANTS
    Accounts = {a1, a2}
    Sessions = {s1}
    Handlers = {h1, h2}
    Official = {"mint"}
    Local = {"local"}
    Others = {}
    Settings <- MCSettings
    Relayer = Relayer
    MaxCallbacks = 3
    None = None
SYMMETRY HandlerSymmetry
INVARIANTS
    MinterApproved
    WatchedCommitIsMinters
    ReturnsStayOnOrigin
CHECK_DEADLOCK FALSE
