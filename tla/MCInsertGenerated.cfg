SPECIFICATION FairSpec
CONSTANTS
    g1 = g1
    g2 = g2
    r1 = r1
    r2 = r2
    i1 = i1
    i2 = i2
    NoProc = NoProc
    NoRecord = NoRecord
    NilID = NilID
    Procs = {g1, g2}
    Records = {r1, r2}
    Ids = {i1, i2}
    MaxAttempts = 2
    Adapters <- MCAdapters
    MaxCalls = 2
INVARIANTS SuccessIsStored FailureLeavesNothing
PROPERTIES NeverOverwrites InsertReturns
CHECK_DEADLOCK FALSE
