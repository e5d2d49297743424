SPECIFICATION Spec
CONSTANTS
    MaxDay = 5
    Session <- Sessions
    FromDate <- Froms
    TillDate <- Tills
    MaxPage = 3
    ShiftDay = 4
    RunTime <- RunTimes
    Timezone <- Timezones
    ShiftDate <- Shifts
    Minute <- Minutes
    LastBuy <- LastBuys
    Declared <- Declareds
    Supplied <- Supplieds
    AsOf <- Stamps
    MaxVersion = 2
    MaxDividends = 2
    NULL = NULL
INVARIANTS
    TypeOK
    CompleteIfHonest
    OffsetCountsBars
    RunOnlyOnClosedSession
    NoMissedCycle
    ExDateWhenCovered
PROPERTIES
    FetchEnds
    DividendReadsKept
\* The load happens once and the days end.
CHECK_DEADLOCK FALSE
