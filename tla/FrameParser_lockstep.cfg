\* A peer that waits for each reply: chunks never cross a frame end.
CONSTANTS
    Lens = {1, 2}
    Replies = {0, 1, 3}
    NumFrames = 2
    MaxChunk = 8
    PayloadByte = 7
    JunkBytes = {0, 1}
    UninitBytes = {0}
    LockStep = TRUE
SPECIFICATION Spec
INVARIANT TypeOK
INVARIANT FramingRoundTrip
