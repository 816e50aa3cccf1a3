CONSTANTS
    Key = {k1}
    kNumLevels = 3
    MaxLedger = 17
    MaxChanges = 3
    MaxStarts = 1
    StopsEarly = FALSE
SPECIFICATION Spec
INVARIANT
    LedgerKept
CHECK_DEADLOCK FALSE
