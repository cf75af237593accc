SPECIFICATION LiveSpec
CONSTANTS
    Ids = {d1, d2, d3, d4}
    NoId = NoId
    Params = {p1, p2}
    IndexList <- MCIndexList
    Versions = {0, 1}
    BigIds = {}
    LockedIds = {d2}
    Cfgs <- FaultCfgs
    ServedSets <- OneSet
    Refusable = {"SIZE", "STATE", "LIST", "UL_END", "DL_END", p1, p2}
    Parallel = FALSE
    Garbles = FALSE
    Contended = FALSE
    Orderly = TRUE
    Limit <- LimitFaults
    d1 = d1
    d2 = d2
    d3 = d3
    d4 = d4
    p1 = p1
    p2 = p2
    v1 = v1
    v2 = v2
    LegacyIds = {d3, d4}
    SlowIds = {d4}
    NumberedIds = {d2}
    InterleaveIds = {d3}
    Vendor <- MCVendor
    TestVendor = v2
INVARIANT CmAnswered
INVARIANT SmAnswered
INVARIANT NoAssertion
PROPERTY Settles
CHECK_DEADLOCK FALSE
