----------------------------- MODULE SessionPolicy -----------------------------
(***************************************************************************)
(* When the daily cycle may run: resolve_daily_run of                      *)
(* src/stonksbot/session_policy.py, and what _validate_startup of          *)
(* src/stonksbot/config.py accepts as a schedule.  A timezone is its       *)
(* offset from UTC in minutes, an instant a number of minutes UTC.         *)
(***************************************************************************)
EXTENDS TradingCalendar

Moscow == 180

Clock(hour, minute) == 60 * hour + minute

CloseDefinition == {"auction_close", "d1_candle_after_evening"}

SameDayAbsencePolicy == {"calendar_stale", "non_trading_day"}

LocalDay(now, timezone) == (now + timezone) \div DayMinutes

LocalMinute(now, timezone) == (now + timezone) % DayMinutes

\* The auction ended ten minutes earlier before the shift date.
AuctionClose(day, shift) == IF day >= shift THEN Clock(19, 0) ELSE Clock(18, 50)

FinalCloseThreshold(day, s) ==
    IF s.close_definition = "auction_close"
    THEN AuctionClose(day, s.moex_auction_shift_date)
    ELSE Clock(23, 50)

\* Mutation: the threshold minute itself is still before the close.
BeforeFinalClose_Strict(now, s) ==
    LocalMinute(now, s.timezone) <= FinalCloseThreshold(LocalDay(now, s.timezone), s)

BeforeFinalClose(now, s) ==
    LocalMinute(now, s.timezone) < FinalCloseThreshold(LocalDay(now, s.timezone), s)

\* resolve_daily_run: the reason of the decision, which is to run on "trading_day" only.
ResolveDailyRun(now, s, calendar, coverage, same_day_absence) ==
    LET day == LocalDay(now, s.timezone)
    IN  IF BeforeFinalClose(now, s) THEN "before_final_close"
        ELSE IF coverage < day THEN "calendar_stale"
        ELSE IF ~IsTradingDay(calendar, day) THEN same_day_absence
        ELSE "trading_day"

\* _validate_startup on daily_run_time.
ScheduleAccepted(s) ==
    /\ s.close_definition = "auction_close" => s.daily_run_time >= Clock(19, 0)
    /\ s.close_definition = "d1_candle_after_evening" => s.daily_run_time >= Clock(23, 55)

=============================================================================
