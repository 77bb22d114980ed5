CONSTANTS
    WordBits = 8
    LowBits = 3
    Works <- MCWorks
    NumRows <- MCNumRows
    RowSize <- MCRowSize
SPECIFICATION Spec
INVARIANTS OpsProvedBar TablesBalance RowsHold
