SPECIFICATION LiveSpec
CONSTANTS
    A = A
    B = B
    None = None
    Channels <- MCChannels
    MaxRetry = 1
    MaxCfg = 2
    MaxReq = 1
    Patient = TRUE
INVARIANT TypeOK
INVARIANT WakeUpHeard
INVARIANT LineServed
PROPERTY StartAnswered
PROPERTY StopEnds
PROPERTY RequestAnswered
CHECK_DEADLOCK FALSE
