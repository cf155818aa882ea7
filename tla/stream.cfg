SPECIFICATION Spec
CONSTANTS
    BufferLen = 5
    ChunkSize = 2
    PrefixLen = 4
    HeaderLen = 3
    BodyLen = 8
    Updates = 3
INVARIANTS
    TypeOK
    KeysAligned
    AnnouncedIsSent
    UpdatesBounded
    BodyIsPrefix
CHECK_DEADLOCK FALSE
