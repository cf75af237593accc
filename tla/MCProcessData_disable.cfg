SPECIFICATION Spec
CONSTANTS
    MaxReq = 2
    MaxJobs = 2
    Limit <- OneLimit
    Orderly = TRUE
    Calm = TRUE
PROPERTY NoFalseComLost
CHECK_DEADLOCK FALSE
