CONSTANTS
    Validator = {1, 2, 3, 4}
    MaxValidators = 2
    MaxInner = 2
    NodeID = {1, 2, 3}
    Self = 1
SPECIFICATION Spec
INVARIANTS
    BlockingMeetsSlices
    NormalizePreserves
    ClosestIsSmallest
    Correct
    SearchCorrect
PROPERTY Terminates
CHECK_DEADLOCK FALSE
