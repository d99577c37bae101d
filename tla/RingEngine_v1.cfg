\* Classic provided buffers, single-shot recv, plain fds, nonblocking accept
\* drain, send successes posted.  Two peers, two data completions each,
\* three buffers with a watermark of 1 and an SQ of two entries so that a
\* handler overflows the SQ and submits in the middle; a CQ of two entries
\* so that completions go to the overflow list and the loop flushes it.
CONSTANTS
    Conns = {c1, c2}
    NoConn = NoConn
    Provider = 1
    NumBuffers = 3
    LowWatermark = 1
    CompactOn = TRUE
    StageSize = 32
    FixedFiles = FALSE
    FixedFileCount = 0
    MultiShot = FALSE
    SkipSuccess = FALSE
    NonblockAccept = TRUE
    SqeCount = 2
    CqCount = 2
    MaxData = 2
    BusyOnOverflow = FALSE
SPECIFICATION Spec
INVARIANT TypeOK
INVARIANT OneRecvChain
INVARIANT SocksMatchLive
INVARIANT BufferExclusive
SYMMETRY ConnSymmetry
