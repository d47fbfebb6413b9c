SPECIFICATION FairSpec
CONSTANTS
    NoDiff <- EmptyDiff
    SentStateCap = 2
    CullKeep = 2
    ReceivedStateCap = 1
    ShutdownRetries = 2
    ShutdownNum = 30
    MaxActions = 3
    MaxIdleNum = 2
    MaxHost = 1
    NetCap = 1
    Savings = {TRUE, FALSE}
    Outcomes = {"none"}
    Refusals = {FALSE}
    Rejections = {FALSE}
    Unreachable = FALSE
    Quits = FALSE
PROPERTIES InputArrives InputAcknowledged ImplementsStream
