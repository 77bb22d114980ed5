SPECIFICATION Spec
CONSTANTS
    WordBits = 8
    MemSize = 56
    Regs = {1, 2, 10}
    Programs <- MenuPrograms
    Memories <- Pointers
    MaxSteps = 9
    NumSteps = 3
    NumThreads = 2
INVARIANTS
    TracesFollow
    AsmFollows
    ReplayMatches
    ReadsUsedUp
    BusTrueBar
    OperationTrue
