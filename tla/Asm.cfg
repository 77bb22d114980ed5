SPECIFICATION FairSpec
CONSTANTS
    Modes <- AllModes
    ChunkSizes = {1, 2}
    ChunkBody = 3
    ChunkHeader = 1
    Workers = 2
    Timely = TRUE
INVARIANTS
    ReadsFinishedChunks
    CountsComplete
    PanicMeansDead
    TraceFits
    OutputMappable
PROPERTIES
    TerminatesBar
    DeliversChunks
