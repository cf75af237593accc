SPECIFICATION Spec
CONSTANTS
    Ids = {d1, d2}
    NoId = NoId
    Params = {p1, p2}
    IndexList <- MCIndexList
    Versions = {0, 1}
    BigIds = {}
    LockedIds = {}
    Cfgs <- TwoCfgs
    ServedSets = {}
    Refusable = {}
    Parallel = FALSE
    Garbles = FALSE
    Contended = FALSE
    Orderly = FALSE
    Limit <- LimitComlost
    d1 = d1
    d2 = d2
    d3 = d3
    d4 = d4
    p1 = p1
    p2 = p2
    v1 = v1
    v2 = v2
    LegacyIds = {}
    SlowIds = {}
    NumberedIds = {}
    InterleaveIds = {}
    Vendor <- MCVendor
    TestVendor = v2
INVARIANT CmAnswered
CHECK_DEADLOCK FALSE
