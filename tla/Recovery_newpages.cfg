SPECIFICATION Spec
CONSTANTS
    Values = {a, b}
    Initial = a
    PerPage = 1
    MaxPages = 2
    InitPages = {0}
    MaxTx = 2
    MaxWrites = 1
    MaxCrash = 3
    MaxClose = 1
    EvalFirst = {"last_used"}
    Free = Free
    Dead = Dead
INVARIANTS CommittedRestored
CHECK_DEADLOCK FALSE
