\* Kernels that fail an enter with -EBUSY when GETEVENTS cannot flush the
\* whole CQ overflow list (io_uring_enter(2)): a get_sqe() inside the drain
\* submits while the ring is full and submit() never returns. The SQ and CQ
\* of 1 stand for a CQ filled by many connections' completions (the default
\* CQ is 128 times the SQ, line 213).
CONSTANTS
    Conns = {c1}
    NoConn = NoConn
    Provider = 1
    NumBuffers = 4
    LowWatermark = 1
    CompactOn = FALSE
    StageSize = 32
    FixedFiles = FALSE
    FixedFileCount = 0
    MultiShot = FALSE
    SkipSuccess = TRUE
    NonblockAccept = TRUE
    SqeCount = 1
    CqCount = 1
    MaxData = 2
    BusyOnOverflow = TRUE
SPECIFICATION Spec
PROPERTY ShutdownTerminates
