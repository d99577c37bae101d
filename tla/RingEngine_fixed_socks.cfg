\* Fixed files, one peer: the socket closed with close_direct is deleted in
\* processClose, which never calls delSock().
CONSTANTS
    Conns = {c1}
    NoConn = NoConn
    Provider = 0
    NumBuffers = 1
    LowWatermark = 1
    CompactOn = TRUE
    StageSize = 32
    FixedFiles = TRUE
    FixedFileCount = 2
    MultiShot = FALSE
    SkipSuccess = TRUE
    NonblockAccept = TRUE
    SqeCount = 4
    CqCount = 8
    MaxData = 1
    BusyOnOverflow = FALSE
SPECIFICATION Spec
INVARIANT SocksMatchLive
