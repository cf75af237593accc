SPECIFICATION Spec
CONSTANTS
    Ids = {d1, d2}
    NoId = NoId
    Params = {p1, p2}
    IndexList <- MCIndexList
    Versions = {0, 1}
    BigIds = {}
    LockedIds = {}
    Cfgs <- TwoCfgs
    ServedSets = {}
    Refusable = {"CHECKSUM", "UL_START", "BREAK", p1}
    Parallel = TRUE
    Garbles = TRUE
    Contended = TRUE
    Orderly = FALSE
    Limit <- LimitDisturbed
    d1 = d1
    d2 = d2
    d3 = d3
    d4 = d4
    p1 = p1
    p2 = p2
    v1 = v1
    v2 = v2
    LegacyIds = {}
    SlowIds = {}
    NumberedIds = {}
    InterleaveIds = {}
    Vendor <- MCVendor
    TestVendor = v2
INVARIANT TypeOK
INVARIANT WritesToChecked
CHECK_DEADLOCK FALSE
