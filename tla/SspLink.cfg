SPECIFICATION Spec
CONSTANTS
    Client = Client
    Server = Server
    NoDiff = NoDiff
    Diffs = {NoDiff, key}
    Faults = {}
    Quitters = {Client, Server}
    Shrinkers = {Client}
    SentStateCap = 3
    CullKeep = 2
    ReceivedStateCap = 2
    ShutdownRetries = 1
    ShutdownNum = 9
    MaxClientNum = 2
    MaxServerNum = 1
    MaxNum <- MCMaxNum
    NetCap = 2
INVARIANTS TypeOK KnownBaseHeld QueuedBaseKept ShutdownAgreed
PROPERTIES NoStateTwice
CHECK_DEADLOCK FALSE
