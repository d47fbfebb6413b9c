SPECIFICATION Spec
CONSTANTS
    GraphemeLimit = 2
    Scenes <- Screens
INVARIANTS TypeOK LocalShowsFrame CutsDontMatter
PROPERTIES MovesAreTold
CHECK_DEADLOCK FALSE
