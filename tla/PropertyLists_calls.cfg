CONSTANTS
    Str <- AllStr
    Length <- Lengths
    Hash <- Hashes
    PageSize = 10
    Node = {1, 2}
    Columns <- Names4
    Val <- ValSet
    PerSet = 3
    Maps <- MapSet
    Rows <- FullRows
    MaxSlots = 12
    MaxCalls = 6

SPECIFICATION Spec

INVARIANTS
    ReadsRight
    CodesRight
    SetsOwned
PROPERTY CodesStay

CHECK_DEADLOCK FALSE
