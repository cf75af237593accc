SPECIFICATION Spec
CONSTANTS
    MaxEvents = 3
    Kinds <- UploadKinds
    MaxRetry = 1
    Limit <- UploadLimit
    Calm = TRUE
    Prompt = TRUE
    Paced = TRUE
INVARIANT ReportedAsTold
CHECK_DEADLOCK FALSE
