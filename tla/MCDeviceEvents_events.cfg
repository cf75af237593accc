SPECIFICATION LiveSpec
CONSTANTS
    MaxEvents = 3
    Kinds <- MCKinds
    MaxRetry = 1
    Limit <- MCLimit
    Calm = TRUE
    Prompt = TRUE
    Paced = TRUE
INVARIANT TypeOK
INVARIANT ReportedAsTold
PROPERTY ImplementsEventTransfer
PROPERTY ExchangesInOperate
PROPERTY ControlIsSent
CHECK_DEADLOCK FALSE
