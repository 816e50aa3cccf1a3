CONSTANTS
    a = a
    b = b
    v1 = v1
    v2 = v2
    Null = Null
    Named = {a, b}
    Account = {a, b}
    Signer = {a}
    Genesis = {a}
    MaxId = 1
    Value = {v1, v2}
    CacheSize = 2
    MaxLedger = 3
    MaxAccess = 4
SYMMETRY Symmetry
SPECIFICATION Spec
INVARIANTS
    DeltasAccountForRows
    CacheIsConsistentWithDatabase
    AssertsHold
    PublishedStateIsOfLastLedger
    GeneratedIdsAreFresh
CHECK_DEADLOCK FALSE
