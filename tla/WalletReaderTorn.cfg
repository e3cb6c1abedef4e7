SPECIFICATION ReaderSpec
CONSTANTS
    Minters = {m1, m2}
    NoMinter = NoMinter
    MaxSupply = 3
    MaxPerAddress = 2
    FinalizeDelayBlocks = 1
    FinalizeWindowBlocks = 1
    BlockhashDepth = 1
    MaxBlock = 5
INVARIANT OverLimitIsRejected
CHECK_DEADLOCK FALSE
