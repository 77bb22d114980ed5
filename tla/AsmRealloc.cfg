SPECIFICATION FairSpec
CONSTANTS
    Modes <- ReallocModes
    ChunkSizes = {1, 2}
    ChunkBody = 3
    ChunkHeader = 1
    Workers = 1
    Timely = TRUE
INVARIANTS
    ReadsInsideMapping
