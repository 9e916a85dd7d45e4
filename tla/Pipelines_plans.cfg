CONSTANTS
    Worker = {w1, w2}
    PerThread = 2
    Plans <- GoodPlans
    MayThrow = TRUE

SPECIFICATION Spec

INVARIANTS
    ResultRight
    Quiet
    FinishLast
    BuildFirst
PROPERTY Terminates

CHECK_DEADLOCK FALSE
