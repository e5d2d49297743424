SPECIFICATION StartupSpec
CONSTANTS
    p1 = p1
    p2 = p2
    p3 = p3
    Process = {p1, p2, p3}
    Objects = 5
    Core <- CoreObjects
    Current = 4
    NULL = NULL
    Account = {a1, a2}
    Blank = Blank
INVARIANTS
    VersionTruthful
    ReadyMeansComplete
PROPERTIES
    OlderFileKept
    UnstampedFileRefused
    AccountSwitchConfirmed
\* A refused process does not start again.
CHECK_DEADLOCK FALSE
