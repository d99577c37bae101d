\* Shutdown with classic buffers and plain fds: one peer that may connect,
\* send, stay connected or close at any point relative to the shutdown
\* request; the peer and the kernel have no fairness.
CONSTANTS
    Conns = {c1}
    NoConn = NoConn
    Provider = 1
    NumBuffers = 4
    LowWatermark = 1
    CompactOn = FALSE
    StageSize = 32
    FixedFiles = FALSE
    FixedFileCount = 0
    MultiShot = FALSE
    SkipSuccess = TRUE
    NonblockAccept = TRUE
    SqeCount = 2
    CqCount = 2
    MaxData = 2
    BusyOnOverflow = TRUE
SPECIFICATION Spec
PROPERTY ShutdownTerminates
