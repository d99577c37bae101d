\* A peer that pipelines requests: one recv may hold the end of one frame
\* and the start of the next.
CONSTANTS
    Lens = {1}
    Replies = {1}
    NumFrames = 2
    MaxChunk = 12
    PayloadByte = 7
    JunkBytes = {0}
    UninitBytes = {0}
    LockStep = FALSE
SPECIFICATION Spec
INVARIANT FramingRoundTrip
