CONSTANTS
    PerChunk = 3
    MaxPages = 3
    MaxRecords = 7
    Thread = {t1}
    Profile <- Sound
SPECIFICATION Spec
INVARIANTS
    RecordsKept
    HintSafe
    HeaderExact
    ChunkHasRoom
CHECK_DEADLOCK FALSE
