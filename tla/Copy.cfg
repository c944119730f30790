SPECIFICATION FairSpec
CONSTANTS
    Messages <- AllMessages
    ChunkSize = 3
    BufferSize = 4
INVARIANTS
    TypeOK
    ChunksDecode
PROPERTIES
    TransfersMessage
    CopyEnds
CHECK_DEADLOCK FALSE
