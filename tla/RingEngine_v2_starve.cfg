\* The shared buffer ring with 32 buffers and the code's stage of 32, one
\* peer and single-shot recv: returned buffers wait in the stage.
CONSTANTS
    Conns = {c1}
    NoConn = NoConn
    Provider = 2
    NumBuffers = 32
    LowWatermark = 1
    CompactOn = TRUE
    StageSize = 32
    FixedFiles = FALSE
    FixedFileCount = 0
    MultiShot = FALSE
    SkipSuccess = TRUE
    NonblockAccept = TRUE
    SqeCount = 4
    CqCount = 8
    MaxData = 33
    BusyOnOverflow = FALSE
SPECIFICATION Spec
INVARIANT NoBufferStarvation
