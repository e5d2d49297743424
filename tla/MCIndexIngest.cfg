SPECIFICATION Spec
CONSTANTS
    Index = {imoex}
    LastDay = 4
    Session = {1, 2, 4}
    MaxVersion = 2
    ConflictId = {c1, c2}
    NULL = NULL
    NoRow = NoRow
VIEW IngestView
SYMMETRY IngestSymmetry
INVARIANTS NoSilentGap NoLookahead FreshVersion VersionsFollowTime
PROPERTY PastReadsKept
\* The clock stops at LastDay and the versions at MaxVersion.
CHECK_DEADLOCK FALSE
