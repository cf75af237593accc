SPECIFICATION LiveSpec
CONSTANTS
    p1 = p1
    p2 = p2
    a1 = a1
    s1 = s1
    s2 = s2
    r1 = r1
    Ports <- MCPorts
    Apps <- MCApps
    StackJobs <- MCStackJobs
    ApiJobs <- MCApiJobs
    MaxPosts = 1
    CallbackReads = FALSE
INVARIANT TypeOK
INVARIANT JobsConserved
INVARIANT PostsNeverFail
PROPERTY InputsRead
PROPERTY Exits
CHECK_DEADLOCK FALSE
