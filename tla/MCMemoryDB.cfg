SPECIFICATION Spec
CONSTANTS
    g1 = g1
    g2 = g2
    g3 = g3
    c1 = c1
    c2 = c2
    i1 = i1
    i2 = i2
    v1 = v1
    v2 = v2
    NoProc = NoProc
    Invalid = Invalid
    Procs = {g1, g2}
    Collections = {c1, c2}
    Defined = {c1}
    Ids = {i1, i2}
    Values = {v1, v2}
    SessionCalls <- SafetyCalls
    TxModes = {"R", "W"}
    NestedCalls <- NestedReads
    MaxCalls = 2
CHECK_DEADLOCK FALSE
SYMMETRY Symmetric
INVARIANTS
    RunsAlone
    OneEnginePerCollection
    ReadsPrecedeWrites
