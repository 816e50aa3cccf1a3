CONSTANTS
    Freq = 3
    MaxSlots = 2
    Bracket = 2
    Configs <- MCConfigs
    FirstLedger = 1
    MaxLedger = 10
SPECIFICATION FairSpec
INVARIANTS
    BufferMatchesCatchup
    LedgerBehindConsensus
    PositionIsCurrent
PROPERTIES
    CatchupReachesBuffer
    HalfAppliedUnused
    EventuallyFollows
CHECK_DEADLOCK FALSE
