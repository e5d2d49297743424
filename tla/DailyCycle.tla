------------------------------- MODULE DailyCycle -------------------------------
(***************************************************************************)
(* The trading calendar from MOEX ISS to its uses: load_trading_calendar   *)
(* pages through the index candles of a window (IssFetch), the calendar it *)
(* builds decides whether the daily cycle may run (SessionPolicy) and      *)
(* dates dividends (Dividends).  ISS holds a bar once its session has      *)
(* begun, may hold it back or withdraw it, and its answers may be wrong    *)
(* in any way but one: no answer names a day without a session.            *)
(*                                                                         *)
(* Days go by at any moment, a calendar is used for as long as one likes,  *)
(* and every schedule is decided on at every instant of the day.           *)
(***************************************************************************)
EXTENDS SessionPolicy

CONSTANTS
    MaxDay,         \* bound on the days
    Session,        \* the days of trading
    FromDate, TillDate,     \* the windows that are asked for
    MaxPage,        \* as in IssFetch
    ShiftDay,       \* the day of the auction shift
    RunTime, Timezone, ShiftDate,   \* what a configuration may hold
    Minute,         \* the minutes of the Moscow day that are looked at
    LastBuy, Declared, Supplied, AsOf, MaxVersion, MaxDividends,    \* as in Dividends
    NULL

Day == 1..MaxDay

VARIABLES
    server, start, parsed, state, asked, owed, honest,  \* of the fetch, as in IssFetch
    today,          \* the Moscow date
    from, till,     \* the window of the load
    loading,        \* load_trading_calendar has not ended yet
    calendar,       \* the TradingCalendar, NULL while there is none
    held,           \* the bars ISS held when a load it answered truly began
    dividends       \* as in Dividends

fetchVars == <<server, start, parsed, state, asked, owed, honest>>
window == <<from, till>>
cycleVars == <<loading, calendar, held, dividends>>
vars == <<fetchVars, today, window, cycleVars>>

Fetch == INSTANCE IssFetch WITH Bar <- Session
Table == INSTANCE Dividends

ASSUME CycleAssumption ==
    /\ MaxDay \in Nat
    /\ Session \subseteq Day
    /\ TillDate \subseteq Day
    /\ FromDate \subseteq Day
    /\ Minute \subseteq 0 .. DayMinutes - 1
    /\ RunTime \subseteq 0 .. DayMinutes - 1
    /\ Timezone \cup ShiftDate \cup {ShiftDay} \subseteq Int
    /\ LastBuy \cup Declared \cup AsOf \subseteq Int
    /\ Fetch!FetchAssumption

Window == {b \in Session : from <= b /\ b <= till}

Init ==
    /\ today \in Day
    /\ from \in FromDate
    /\ till \in {t \in TillDate : from <= t}
    /\ Fetch!Init
    /\ server \subseteq {b \in Window : b <= today}
    /\ loading = TRUE
    /\ calendar = NULL
    /\ held = {}
    /\ dividends = {}

-----------------------------------------------------------------------------
Request == Fetch!Request /\ UNCHANGED <<today, window, cycleVars>>

Answer == Fetch!Answer /\ UNCHANGED <<today, window, cycleVars>>

Publish(b) ==
    /\ b \in Window /\ b <= today
    /\ Fetch!Publish(b)
    /\ UNCHANGED <<today, window, cycleVars>>

Withdraw(b) == Fetch!Withdraw(b) /\ UNCHANGED <<today, window, cycleVars>>

NextDay ==
    /\ today < MaxDay
    /\ today' = today + 1
    /\ UNCHANGED <<fetchVars, window, cycleVars>>

\* The load ends: the fetch raised, build_trading_calendar raises on no candles at all, or
\* there is a calendar.  What the fetch collected ends with the call, and what ISS holds
\* is not looked at again.
EndLoad ==
    /\ loading /\ ~Fetch!Fetching
    /\ loading' = FALSE
    /\ IF state = "returned" /\ parsed # {}
       THEN calendar' = parsed /\ held' = asked
       ELSE UNCHANGED <<calendar, held>>
    /\ server' = {} /\ asked' = {} /\ parsed' = {} /\ start' = 0 /\ owed' = FALSE
    /\ UNCHANGED <<state, honest, today, window, dividends>>

StoreDividend ==
    /\ ~loading
    /\ \E d \in Table!Snapshot : Table!StoreDividendSnapshot(d, calendar)
    /\ UNCHANGED <<fetchVars, today, window, loading, calendar, held>>

Next ==
    \/ Request \/ Answer
    \/ \E b \in Session : Publish(b) \/ Withdraw(b)
    \/ NextDay \/ EndLoad \/ StoreDividend

\* Each request is answered or times out.
Spec == Init /\ [][Next]_vars /\ WF_vars(Request) /\ WF_vars(Answer)

-----------------------------------------------------------------------------
Schedule ==
    [close_definition : CloseDefinition, daily_run_time : RunTime, timezone : Timezone,
     moex_auction_shift_date : ShiftDate]

Instant(day, minute) == DayMinutes * day + minute - Moscow

Decision(now, s, absence) == ResolveDailyRun(now, s, calendar, till, absence)

\* When the exchange closed for good, by the definition of the close.
FinalClose(day, definition) ==
    IF definition = "auction_close" THEN AuctionClose(day, ShiftDay) ELSE Clock(23, 50)

TypeOK ==
    /\ Fetch!TypeOK
    /\ today \in Day /\ from \in FromDate /\ till \in TillDate
    /\ loading \in BOOLEAN
    /\ calendar = NULL \/ calendar \subseteq Session
    /\ held \subseteq Window
    /\ dividends \subseteq Table!Dividend(Supplied \cup Session)

\* A fetch ISS answered truly misses nothing: what it returns holds every bar ISS held
\* when it began, although page sizes vary and ISS publishes bars before, between and
\* after the pages already read.
CompleteIfHonest == Fetch!CompleteIfHonest

\* The offset never drifts from the number of bars collected, whatever ISS answers.
OffsetCountsBars == Fetch!OffsetCountsBars

\* The loop ends whatever ISS answers, one wrong answer after another included.
FetchEnds == Fetch!FetchEnds

\* No look-ahead through the gate: a decision to run falls on a day of trading whose close
\* is final in Moscow, however truncated or old the calendar is.  It holds of a
\* configuration whose shift date is right, and from the daily run time on of any that
\* starts, in Moscow time or behind it; a timezone ahead of Moscow, where the threshold
\* passes before the close, is not refused.
RunOnlyOnClosedSession ==
    calendar # NULL =>
      \A s \in Schedule, m \in Minute, absence \in SameDayAbsencePolicy :
        LET now == Instant(today, m)
            day == LocalDay(now, s.timezone)
        IN  /\ Decision(now, s, absence) = "trading_day"
            /\ s.timezone <= Moscow
            /\ \/ s.moex_auction_shift_date = ShiftDay
               \/ ScheduleAccepted(s) /\ LocalMinute(now, s.timezone) >= s.daily_run_time
            => /\ day \in Session
               /\ day < today \/ m >= FinalClose(day, s.close_definition)

\* No trading day is lost without ISS being late or wrong: if the load was answered truly
\* and ISS held today's bar when it began, every schedule the startup accepts runs from
\* its run time to midnight, the run time on the threshold minute included.
NoMissedCycle ==
    calendar # NULL /\ today \in held =>
      \A s \in Schedule, m \in Minute, absence \in SameDayAbsencePolicy :
        s.timezone = Moscow /\ ScheduleAccepted(s) /\ m >= s.daily_run_time
          => Decision(Instant(today, m), s, absence) = "trading_day"

\* The first day of trading after a timestamp.
NextSession(ts) == {x \in Session : x > UtcDay(ts) /\ \A c \in Session : c > UtcDay(ts) => x <= c}

\* A derived ex_date is the session after the last day to buy, provided ISS held that
\* session's bar when a load of a window with it began; a load that missed older or newer
\* sessions must not move it.
ExDateWhenCovered ==
    \A d \in dividends :
        d.derived /\ NextSession(d.last_buy_date) \cap held # {}
            => d.ex_date \in NextSession(d.last_buy_date)

\* No hindsight on dividends: what was known at an instant changes by no snapshot that is
\* stamped or declared later, also when it is a later version of a known event.
DividendReadsKept ==
    [][\A ts \in AsOf \cup Declared :
         (\A d \in dividends' \ dividends :
             ts < d.as_of \/ (d.declared_date # NULL /\ ts < d.declared_date))
           => UNCHANGED Table!ReadDividendsKnownAsOf(ts)]_vars

-----------------------------------------------------------------------------
\* calendar.py:95-96: "Raises ValueError when the calendar does not cover the result
\* (fail-closed ...)": of a calendar that holds every session of its window, a derived
\* ex_date is right or none is stored.
ExDateIsNextSession ==
    held = Window => \A d \in dividends : d.derived => d.ex_date \in NextSession(d.last_buy_date)

=============================================================================
