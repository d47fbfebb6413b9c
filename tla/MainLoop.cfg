SPECIFICATION Spec
CONSTANTS
    Empty = " "
    BulkInput = 3
    GlitchRepairs = 1
    Notices = {"network", "help", "exiting"}
    EscapeKey = "~"
    PassKeys = {"~"}
    NeedsLineStart = TRUE
    Scenes <- Scenarios
INVARIANTS TypeOK PredictionsComeTrue OnlyEchoedShows CellsAreCurrent ForwardedIsMeant
PROPERTIES ResumesInformed NeverRefuted
CHECK_DEADLOCK FALSE
