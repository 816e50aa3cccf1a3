CONSTANTS
    n1 = n1
    n2 = n2
    n3 = n3
    Node <- Nodes2
    QSet <- BothQSet
    Value = {1, 2}
    UINT32_MAX = 5
    MaxCounter <- Counter4
    CandidateSets <- NoCandidates
    ValidationLevel <- AllValid
    CombineCandidates <- MaxCombine
    MayRestart = {}
SPECIFICATION ConvergedSpec
PROPERTY Termination
CHECK_DEADLOCK FALSE
