SPECIFICATION ScreenSpec
CONSTANTS
    Client = Client
    Server = Server
    NoDiff = NoDiff
    Diffs <- MCDiffs
    Screens = {blank, prompt}
    Blank = blank
    Garbled = garbled
    Sizes = {TRUE, FALSE}
    Faults = {}
    Quitters = {}
    Shrinkers = {}
    SentStateCap = 2
    CullKeep = 2
    ReceivedStateCap = 1
    ShutdownRetries = 2
    ShutdownNum = 9
    MaxClientNum = 1
    MaxServerNum = 3
    MaxNum <- MCMaxNum
    NetCap = 2
INVARIANTS ScreenTypeOK ListedStatesHeld SnapshotsAreExact DisplayIsNewest
PROPERTIES NeverRewinds
