CONSTANTS
    n1 = n1
    n2 = n2
    n3 = n3
    Node <- Nodes2
    QSet <- BothQSet
    Value = {1, 2}
    UINT32_MAX = 3
    MaxCounter <- Counter2
    CandidateSets <- LateCandidates
    ValidationLevel <- AllValid
    CombineCandidates <- MaxCombine
    MayRestart = {n1}
SPECIFICATION RSpec
INVARIANTS
    AssertionsHold
PROPERTIES
    EmissionsIncrease
    ImplementsFederatedBallots
CHECK_DEADLOCK FALSE
VIEW RView
