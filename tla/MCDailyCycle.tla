----------------------------- MODULE MCDailyCycle -----------------------------
(***************************************************************************)
(* Five days with a holiday on the third and the auction shift on the      *)
(* fourth, so that loads of up to four pages and lookups over the gap      *)
(* occur.  The minutes are those next to the thresholds in Moscow time and *)
(* in UTC, where the local day may be the one before.                      *)
(***************************************************************************)
EXTENDS DailyCycle

Sessions == {1, 2, 4, 5}
Froms == {1, 3}
Tills == {4, 5}
Shifts == {4, 5}
RunTimes == {Clock(18, 55), Clock(19, 0), Clock(23, 55)}
Minutes == {Clock(2, 55), Clock(18, 49), Clock(18, 50), Clock(18, 55), Clock(19, 0),
            Clock(19, 5), Clock(22, 0), Clock(23, 50), Clock(23, 55)}
Timezones == {0, Moscow}

\* An event bought for the last time on the first day or on the holiday, and the opening of
\* the second and the fourth day.
LastBuys == {DayMinutes, 3 * DayMinutes + 600}
Declareds == {2 * DayMinutes}
Supplieds == {5}
Stamps == {DayMinutes, 4 * DayMinutes}

=============================================================================
