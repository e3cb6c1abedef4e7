SPECIFICATION Spec
CONSTANTS
    r1 = r1
    r2 = r2
    Requests <- MCRequests
    Templates <- MCTemplates
    EnvValues <- MCEnvValues
    BackendEnvs <- MCBackendEnvs
    MaxEdits = 2
    MaxDeploys = 1
    MaxStarts = 2
SYMMETRY MCSymmetry
INVARIANTS
    TypeOK
    CheckedEnvServes
    SurfaceAsChecked
    OpenMintIsTheRealOne
    AnsweredOkIsOnDisk
    RelaysComeFromTheFinalizer
PROPERTIES
    BooksNeedTheSecret
    ReadOnlyAnswersRetired
CHECK_DEADLOCK FALSE
