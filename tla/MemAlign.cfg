SPECIFICATION Spec
CONSTANTS
    NumRows <- MCNumRows
    Executions <- MCExecutions
INVARIANTS
    RowsHoldBar
    OpsProvedBar
    MemoryBalance
    TablesBalance
