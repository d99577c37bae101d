\* Both provider versions.  V1: six buffers, publish once more than three
\* are free, with compaction, so up to four ranges are compacted by sorting.
\* V2: a stage of 4 keeps the flush logic of the code's 32 with a ring of 8
\* slots (6 rounds up to 8), and 24 recvs take the kernel's head three
\* times round the ring.
CONSTANTS
    Versions = {1, 2}
    Count = 6
    LowWatermark = 3
    CompactOn = TRUE
    StageSize = 4
    MaxInflight = 2
    MaxRecvs = 24
SPECIFICATION Spec
INVARIANT TypeOK
INVARIANT PoolConservation
INVARIANT RingConservation
PROPERTY PublishesMaximalRuns
