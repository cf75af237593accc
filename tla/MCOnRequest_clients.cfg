SPECIFICATION Spec
CONSTANTS
    Reqs = {r1}
    DsReqs = {d1}
    NoReq = NoReq
    Kinds = {"ReadParam", "WriteParam", "WriteIsdu"}
    MaxRetry = 0
    Segs = 2
    MaxErrors = 1
    MaxEvents = 0
    Parallel = TRUE
    MaxCfg = 2
    MaxAborts = 1
INVARIANT TypeOK
INVARIANT BlockedHasPending
INVARIANT DsHasPending
PROPERTY AnswersOnce
CHECK_DEADLOCK FALSE
