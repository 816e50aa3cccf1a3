CONSTANTS
    n1 = n1
    n2 = n2
    n3 = n3
    Node <- Nodes3
    QSet <- CoreQSet
    Value = {1, 2}
    UINT32_MAX = 3
    MaxCounter <- Counter1
    CandidateSets <- SplitCandidates
    ValidationLevel <- AllValid
    CombineCandidates <- MaxCombine
    MayRestart = {n3}
SPECIFICATION Spec
INVARIANTS
    RestartRestores
    DecisionReachesAll
CHECK_DEADLOCK FALSE
VIEW View
