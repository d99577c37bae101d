\* Plain fds, one peer, send successes skipped: a send fails after the peer
\* closed and its completion is handled after the socket was deleted.
CONSTANTS
    Conns = {c1}
    NoConn = NoConn
    Provider = 0
    NumBuffers = 1
    LowWatermark = 1
    CompactOn = TRUE
    StageSize = 32
    FixedFiles = FALSE
    FixedFileCount = 0
    MultiShot = FALSE
    SkipSuccess = TRUE
    NonblockAccept = TRUE
    SqeCount = 4
    CqCount = 8
    MaxData = 1
    BusyOnOverflow = FALSE
SPECIFICATION Spec
INVARIANT NoUseAfterFree
