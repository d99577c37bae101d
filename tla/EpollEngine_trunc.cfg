\* The uint32 cast of doWrite at work, scaled down: Word = 4 stands for
\* 2^32 and the parser may report 3 reply bytes per recv, so to_write can
\* reach Word + 1 as two frames with reply sizes near 2^32 would.
CONSTANTS
    Conns = {c1}
    Listener = Listener
    RcvSize = 2
    SndBuf = 2
    Replies = {0, 3}
    MaxIn = 2
    MaxEvents = 2
    BatchSend = FALSE
    Word = 4
SPECIFICATION Spec
INVARIANT ReplyAccounting
