SPECIFICATION LiveSpec
CONSTANTS
    MaxReq = 2
    MaxJobs = 2
    Limit <- MCLimit
    Orderly = TRUE
    Calm = TRUE
INVARIANT TypeOK
INVARIANT DataWhole
PROPERTY EnabledOutputsFresh
PROPERTY FallbackSent
PROPERTY OutputsFollow
PROPERTY QualityFollows
CHECK_DEADLOCK FALSE
