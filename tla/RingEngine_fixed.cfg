\* Shared buffer ring (V2), multishot recv, fixed files with direct accept
\* and close_direct, send successes skipped.  Two peers, two data completions
\* each; three buffers with a stage of 2 so that stage flushes happen and the
\* kernel can still run out; three slots, one more than the peers; a CQ of two entries.
CONSTANTS
    Conns = {c1, c2}
    NoConn = NoConn
    Provider = 2
    NumBuffers = 3
    LowWatermark = 0
    CompactOn = FALSE
    StageSize = 2
    FixedFiles = TRUE
    FixedFileCount = 3
    MultiShot = TRUE
    SkipSuccess = TRUE
    NonblockAccept = TRUE
    SqeCount = 2
    CqCount = 2
    MaxData = 2
    BusyOnOverflow = FALSE
SPECIFICATION Spec
INVARIANT OneRecvChain
INVARIANT OneAcceptOutstanding
INVARIANT FixedSlotConservation
INVARIANT BufferExclusive
SYMMETRY ConnSymmetry
