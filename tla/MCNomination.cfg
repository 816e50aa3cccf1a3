CONSTANTS
    v = v
    w = w
    x = x
    Node = {1, 2}
    Value = {v, w, x}
    Slices <- Both
    ValidAt <- MCValidAt
    Extracted <- MCExtracted
    Proposals <- MCProposals
    Period = 3
    Leader <- InTurn
    NoNode = NoNode
    NoValue = NoValue
    MayStop = {1, 2}
    MayCrash = {1}
    MaxCrashes = 1
SPECIFICATION FairSpec
INVARIANTS
    NeverBad
    CandidatesBacked
    CompositeIsCurrent
PROPERTIES
    StatementsGrow
    Convergence
CHECK_DEADLOCK FALSE
