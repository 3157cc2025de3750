SPECIFICATION Spec
CONSTANTS
    nil = nil
    NilValue = nil
    Inputs <- MCInputs
    Options <- MCOptions
INVARIANTS OutputExact DeltasRebuild ReadersClosed
PROPERTY DiffEnds
CHECK_DEADLOCK FALSE
