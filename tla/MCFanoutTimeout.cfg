SPECIFICATION Spec
CONSTANTS
    Units = 2
    Limit = 2
    NULL = NULL
PROPERTIES
    HardTimeout
\* The process ends.
CHECK_DEADLOCK FALSE
