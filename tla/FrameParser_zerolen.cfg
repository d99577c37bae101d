\* A request with an empty payload (spec.md 4.1: "zero-length payload is
\* allowed; the parser must still emit a completion").
CONSTANTS
    Lens = {0}
    Replies = {1}
    NumFrames = 1
    MaxChunk = 8
    PayloadByte = 7
    JunkBytes = {0}
    UninitBytes = {0}
    LockStep = TRUE
SPECIFICATION Spec
INVARIANT FramingRoundTrip
