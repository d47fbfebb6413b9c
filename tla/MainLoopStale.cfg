SPECIFICATION Spec
CONSTANTS
    Empty = " "
    BulkInput = 3
    GlitchRepairs = 1
    Notices = {"network", "help", "exiting"}
    EscapeKey = "~"
    PassKeys = {"~"}
    NeedsLineStart = TRUE
    Scenes <- JustProven
INVARIANT ShownIsCurrent
CHECK_DEADLOCK FALSE
