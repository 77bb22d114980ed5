SPECIFICATION Spec
CONSTANTS
    TraceSize = 2
    NumWithin = 3
    Slots = {0, 2}
    Segments = {0, 1}
INVARIANTS
    PreviousTrue
    ChecksExact
    RangesFit
