SPECIFICATION Spec
CONSTANTS
    NoDiff <- EmptyDiff
    SentStateCap = 4
    CullKeep = 2
    ReceivedStateCap = 1
    ShutdownRetries = 1
    ShutdownNum = 30
    MaxActions = 2
    MaxIdleNum = 0
    MaxHost = 1
    NetCap = 2
    Savings = {FALSE}
    Outcomes = {"none", "too_large"}
    Refusals = {TRUE, FALSE}
    Rejections = {TRUE, FALSE}
    Unreachable = TRUE
    Quits = TRUE
INVARIANTS TypeOK InputIsPrefix NothingForgotten CloseKeepsInput CloseFindsBase
CHECK_DEADLOCK FALSE
