SPECIFICATION WSpec
CONSTANTS
    Space = Space
    NoID = NoID
    Root = Root
    NoOption = NoOption
    FailingOption = FailingOption
    NoTx = NoTx
    IDs <- MCIDs
    Values <- MCValues
    InitialDBs <- MCInitialDBs
    Parents <- MCParents
    Incomplete <- MCIncomplete
    Objects <- MCObjects
    KeyOf <- MCKeyOf
    DataOf <- MCDataOf
    MaxQueued = 2
    MaxSteps = 5
INVARIANTS
    WrittenIsListed
PROPERTIES
    AppliedExactly
    RetryNeedsRollback
CHECK_DEADLOCK FALSE
