SPECIFICATION Spec
CONSTANTS
    Messages = {m1, m2}
    MaxChunks = 3
    MaxChunkCount = 2
    ChunkSize = 2
    Capacity = 3
    MaxPending = 1
    None = None
    Error = Error
SYMMETRY MessageSymmetry
CHECK_DEADLOCK FALSE
INVARIANT ChunkLimit
