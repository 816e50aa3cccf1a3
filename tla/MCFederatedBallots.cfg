CONSTANTS
    Node = {a, b, c}
    Slices <- Majorities
    Value = {1, 2}
    UINT32_MAX = 1
SPECIFICATION Spec
INVARIANTS
    Agreement
CHECK_DEADLOCK FALSE
SYMMETRY Symmetry
