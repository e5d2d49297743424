SPECIFICATION Spec
CONSTANTS
    Index = {imoex}
    LastDay = 3
    Session = {1, 2, 3}
    MaxVersion = 1
    ConflictId = {c1}
    NULL = NULL
    NoRow = NoRow
INVARIANT NoPartialLoad
CHECK_DEADLOCK FALSE
