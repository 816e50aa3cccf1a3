CONSTANTS
    Key = {k1}
    kNumLevels = 3
    MaxLedger = 17
    MaxChanges = 3
    MaxStarts = 1
    StopsEarly = FALSE
SPECIFICATION Spec
INVARIANTS
    DefinedLedgerKept
    SameListAsPeers
    BottomHasNoDead
    StoredBucketsExist
CHECK_DEADLOCK FALSE
