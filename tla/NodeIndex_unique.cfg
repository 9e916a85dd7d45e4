CONSTANTS
    M = 2
    N = 3
    MaxKey = 6
    MaxPage = 12
    Value = {1, 2, 3, 4, 5, 6}
    Unique = TRUE
    MaxChanges = 2

SPECIFICATION Spec

INVARIANTS
    IndexRight
    Shape
    ScanRight

CHECK_DEADLOCK FALSE
