SPECIFICATION Spec
CONSTANTS
    Ids = {d1, d2}
    NoId = NoId
    Params = {p1, p2}
    IndexList <- MCIndexList
    Versions = {0, 1}
    BigIds = {}
    LockedIds = {}
    Cfgs <- BackupCfgs
    ServedSets = {}
    Refusable = {}
    Parallel = FALSE
    Garbles = FALSE
    Contended = FALSE
    Orderly = TRUE
    Limit <- LimitBackup
    d1 = d1
    d2 = d2
    d3 = d3
    d4 = d4
    p1 = p1
    p2 = p2
    v1 = v1
    v2 = v2
    LegacyIds = {}
    SlowIds = {}
    NumberedIds = {}
    InterleaveIds = {}
    Vendor <- MCVendor
    TestVendor = v2
INVARIANT StoredIsOwn
INVARIANT ActiveMeansChecked
PROPERTY ImplementsBackup
PROPERTY ReadyMeansRestored
CHECK_DEADLOCK FALSE
