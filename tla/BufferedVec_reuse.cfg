CONSTANTS
    PerChunk = 2
    MaxPages = 3
    MaxRecords = 6
    Thread = {t1}
    Profile <- Reusing
SPECIFICATION Spec
INVARIANTS RecordsKept
CHECK_DEADLOCK FALSE
