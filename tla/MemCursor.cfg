SPECIFICATION Spec
CONSTANTS
    NumChunks = 6
    Addrs <- TwoAddrs
    Arity = 4
    MinTotal = 6
INVARIANTS
    LevelInvariant
    ReadInOrder
    RecursionShrinks
