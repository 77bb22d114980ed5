SPECIFICATION Spec
CONSTANTS
    NumRows <- MCNumRows
    Executions <- TwoWordReads
INVARIANTS
    RowsHold
