\* Every search on every small graph of MCTraversals.
SPECIFICATION Spec
CONSTANTS
    MaxNode = 3
    Calls <- AllCalls
CHECK_DEADLOCK FALSE
INVARIANTS
    PathsRight
    HopsRight
    BfsRight
    CsrRight
PROPERTY Terminates
