SPECIFICATION Spec
CONSTANTS
    NumChunks = 3
    MaxCount = 4
    Size = 3
INVARIANTS
    TypeOK
    CollectedOnce
    PlanIsShares
    InstancesFull
