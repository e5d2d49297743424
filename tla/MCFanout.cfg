SPECIFICATION CooperativeSpec
CONSTANTS
    Units = 3
    Limit = 2
    NULL = NULL
INVARIANTS
    LimitHeld
    SummaryComplete
PROPERTIES
    ImplementsPool
    RunEnds
    TakenUnitsSettle
\* The process ends.
CHECK_DEADLOCK FALSE
