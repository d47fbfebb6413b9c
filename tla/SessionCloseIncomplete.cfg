SPECIFICATION Spec
CONSTANTS
    NoDiff <- EmptyDiff
    SentStateCap = 2
    CullKeep = 2
    ReceivedStateCap = 1
    ShutdownRetries = 2
    ShutdownNum = 30
    MaxActions = 3
    MaxIdleNum = 0
    MaxHost = 1
    NetCap = 1
    Savings = {TRUE, FALSE}
    Outcomes = {"none"}
    Refusals = {FALSE}
    Rejections = {FALSE}
    Unreachable = FALSE
    Quits = TRUE
INVARIANTS CloseIsComplete
CHECK_DEADLOCK FALSE
