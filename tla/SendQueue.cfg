SPECIFICATION FairSpec
CONSTANTS
    Messages = {m1, m2, m3}
    MaxChunks = 2
    MaxChunkCount = 0
    ChunkSize = 2
    Capacity = 2
    MaxPending = 0
    None = None
    Error = Error
CHECK_DEADLOCK FALSE
INVARIANTS
    TypeOK
    PeerSeesWholeMessages
    ReadNotForgotten
    CountExact
PROPERTIES
    ImplementsStream
    Delivered
    RequestsRead
