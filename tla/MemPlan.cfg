SPECIFICATION Spec
CONSTANTS
    NumChunks = 5
    ChunkSteps = 3
    DiffChunks = 2
    LimitToVerify = 2
    MaxAddr = 2
    Rows = 3
    MaxAccesses = 4
INVARIANTS
    TypeOK
    NoPanic
    RowedOnceBarMiscount
    SegmentsMeetBarMiscount
    RowsChainBarFirst
