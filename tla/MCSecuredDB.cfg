SPECIFICATION DocSpec
CONSTANTS
    a = a
    b = b
    i1 = i1
    i2 = i2
    p1 = p1
    p2 = p2
    NilID = NilID
    AnyID = AnyID
    CollectionNames = {a, b}
    RecordIDs = {i1, i2, star, number}
    star = star
    number = number
    StarID = star
    OtherTypeIDs = {number}
    Unnamed = 0
    Policies = {p1, p2}
    RuleLists <- MCRuleLists
    RuleTrees <- MCRuleTrees
    AuditTrees <- MCAuditTrees
    Documents <- MCDocuments
    Records <- MCRecords
    RecordLists <- MCRecordLists
    QuerySources <- MCQuerySources
    MaxContext = 1
    MaxPolicies = 2
INVARIANTS PrecedenceHolds EnforcementExact AuditExact
PROPERTIES CaptureIsExact ReloadAlike
