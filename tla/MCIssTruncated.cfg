SPECIFICATION Spec
CONSTANTS
    Bar <- FourBars
    MaxPage = 3
    NULL = NULL
INVARIANTS
    ReachesTotal
CHECK_DEADLOCK FALSE
