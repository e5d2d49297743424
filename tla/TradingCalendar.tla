---------------------------- MODULE TradingCalendar ----------------------------
(***************************************************************************)
(* The value object of src/stonksbot/data/calendar.py.  A calendar is the  *)
(* set of its day labels, which the code holds as a strictly ascending     *)
(* tuple; timestamps count minutes UTC, labels count days, so that the     *)
(* day of a timestamp is floored as _to_utc_day floors it.  A lookup is    *)
(* the set of the one day it returns, empty when it raises ValueError.     *)
(***************************************************************************)
EXTENDS Integers, FiniteSets

DayMinutes == 1440

UtcDay(ts) == ts \div DayMinutes

\* bisect_left and bisect_right of a day in the tuple.
BisectLeft(calendar, day) == Cardinality({c \in calendar : c < day})

BisectRight(calendar, day) == Cardinality({c \in calendar : c <= day})

\* calendar.days[index]
DayAt(calendar, index) == {c \in calendar : BisectLeft(calendar, c) = index}

\* Mutation: without the comparison of the day found.
IsTradingDay_Inserted(calendar, day) == BisectLeft(calendar, day) < Cardinality(calendar)

IsTradingDay(calendar, day) == day \in calendar

\* Mutation: forward lookups bisect left as well.
AddTradingDays_LeftBoth(calendar, ts, sessions) ==
    LET day == UtcDay(ts)
    IN  IF sessions = 0 THEN calendar \cap {day}
        ELSE DayAt(calendar, BisectLeft(calendar, day)
                               + (IF sessions > 0 THEN sessions - 1 ELSE sessions))

AddTradingDays(calendar, ts, sessions) ==
    LET day == UtcDay(ts)
    IN  IF sessions = 0 THEN calendar \cap {day}
        ELSE DayAt(calendar, IF sessions > 0 THEN BisectRight(calendar, day) + sessions - 1
                                             ELSE BisectLeft(calendar, day) + sessions)

NextTradingDay(calendar, ts) == AddTradingDays(calendar, ts, 1)

PreviousTradingDay(calendar, ts) == AddTradingDays(calendar, ts, -1)

=============================================================================
