\* Classic provided buffers, one peer: a recv into buffer 0 is handled and
\* buffer 0 is not handed back.
CONSTANTS
    Conns = {c1}
    NoConn = NoConn
    Provider = 1
    NumBuffers = 3
    LowWatermark = 1
    CompactOn = TRUE
    StageSize = 32
    FixedFiles = FALSE
    FixedFileCount = 0
    MultiShot = FALSE
    SkipSuccess = TRUE
    NonblockAccept = TRUE
    SqeCount = 4
    CqCount = 8
    MaxData = 1
    BusyOnOverflow = FALSE
SPECIFICATION Spec
INVARIANT BufferConservation
