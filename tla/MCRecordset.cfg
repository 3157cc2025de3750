SPECIFICATION Spec
CONSTANTS
    NilValue = NilValue
    Err = Err
    Columns <- NoBoolColumns
    Values <- MCValues
    Eval <- MCEval
    EvalError <- Err
    MaxRows = 2
    MaxRowObjects = 3
INVARIANTS
    CellsHoldLastWrite
PROPERTIES
    ComputedOnceCurrent
CHECK_DEADLOCK FALSE
