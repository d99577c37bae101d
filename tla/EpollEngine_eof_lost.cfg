\* A peer sends less than a recv buffer and closes before the engine reads:
\* one edge-triggered wakeup, one short read, and the EOF is never read.
CONSTANTS
    Conns = {c1}
    Listener = Listener
    RcvSize = 2
    SndBuf = 1
    Replies = {0, 1}
    MaxIn = 1
    MaxEvents = 2
    BatchSend = FALSE
    Word <- WordAboveBounds
SPECIFICATION Spec
PROPERTY PeerCloseNoticed
