CONSTANTS
    Conns = {c1, c2}
    Listener = Listener
    RcvSize = 2
    SndBuf = 1
    Replies = {0, 2}
    MaxIn = 2
    MaxEvents = 2
    BatchSend = TRUE
    Word <- WordAboveBounds
SPECIFICATION Spec
INVARIANT TypeOK
INVARIANT WriteInterestTracksOwed
INVARIANT ReplyAccounting
INVARIANT WriteQueueLive
PROPERTY RepliesDelivered
