SPECIFICATION Spec
CONSTANTS
    BufferLen = 4096
    ChunkSize = 1
    PrefixLen = 4
    HeaderLen = 16
    BodyLen = 379
    Updates = 200
INVARIANTS
    UpdatesAsSaid
CHECK_DEADLOCK FALSE
