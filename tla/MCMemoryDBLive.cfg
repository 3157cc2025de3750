SPECIFICATION FairSpec
CONSTANTS
    g1 = g1
    g2 = g2
    g3 = g3
    c1 = c1
    c2 = c2
    i1 = i1
    i2 = i2
    v1 = v1
    v2 = v2
    NoProc = NoProc
    Invalid = Invalid
    Procs = {g1, g2, g3}
    Collections = {c1, c2}
    Defined = {c1}
    Ids = {i1, i2}
    Values = {v1, v2}
    SessionCalls <- ContendingCalls
    TxModes = {"R"}
    NestedCalls = {}
    MaxCalls = 1
PROPERTY CallsReturn
