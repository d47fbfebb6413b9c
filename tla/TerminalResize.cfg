SPECIFICATION Spec
CONSTANTS
    GraphemeLimit = 2
    Scenes <- JustCut
INVARIANT LocalShowsFrame
CHECK_DEADLOCK FALSE
