SPECIFICATION Spec
CONSTANTS
    NilValue = NilValue
    Err = Err
    Columns <- BoolColumns
    Values <- BoolValues
    Eval <- MCEval
    EvalError <- Err
    MaxRows = 3
    MaxRowObjects = 3
INVARIANTS
    CellsHoldLastWrite
CHECK_DEADLOCK FALSE
