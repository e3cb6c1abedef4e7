SPECIFICATION ReaderSpec
CONSTANTS
    Minters = {m1, m2}
    NoMinter = NoMinter
    MaxSupply = 3
    MaxPerAddress = 2
    FinalizeDelayBlocks = 1
    FinalizeWindowBlocks = 2
    BlockhashDepth = 2
    MaxBlock = 6
SYMMETRY MinterSymmetry
INVARIANTS
    TypeOK
    ReservationsBalance
    WalletCapHolds
    SlotsHoldUnassigned
    CountersMatchTokens
    PhasesPartitionTime
    AcceptedCanCommit
PROPERTIES
    ImplementsLottery
    ImplementsCommitLife
    SeenPhaseIsBehind
CHECK_DEADLOCK FALSE
