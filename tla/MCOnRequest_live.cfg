SPECIFICATION LiveSpec
CONSTANTS
    Reqs = {r1, r2}
    DsReqs = {}
    NoReq = NoReq
    Kinds = {"ReadParam", "ReadIsdu", "WriteParam", "WriteIsdu", "WriteBad", "Batch"}
    MaxRetry = 1
    Segs = 2
    MaxErrors = 1
    MaxEvents = 1
    Parallel = FALSE
    MaxCfg = 1
    MaxAborts = 0
INVARIANT AnswerIsOwn
INVARIANT ServiceNotLost
INVARIANT NoStrayConfirmation
PROPERTY ImplementsRequestReply
CHECK_DEADLOCK FALSE
