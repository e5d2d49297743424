------------------------------- MODULE Dividends -------------------------------
(***************************************************************************)
(* The dividends table of src/stonksbot/data/store.py:                     *)
(* store_dividend_snapshot, which derives a missing ex_date from the       *)
(* trading calendar, and read_dividends_known_as_of.  The rows are those   *)
(* of one instrument: the key and the read both begin with it.  Amounts    *)
(* and the other dates are left out, no guard or query looks at them.      *)
(***************************************************************************)
EXTENDS TradingCalendar

CONSTANTS
    LastBuy,        \* the last_buy_dates and
    Declared,       \* declared_dates of the feed, minutes UTC,
    Supplied,       \* the ex_dates it supplies, day labels,
    AsOf,           \* and the instants snapshots are stamped with
    MaxVersion,     \* bound on source_version
    MaxDividends,   \* bound on the rows
    NULL

VARIABLE dividends

\* derived is history, not a column: the row's ex_date came from the calendar.
Dividend(ex_dates) ==
    [last_buy_date : LastBuy, ex_date : ex_dates, declared_date : Declared \cup {NULL},
     source_version : 1..MaxVersion, as_of : AsOf, derived : BOOLEAN]

Snapshot == {d \in Dividend(Supplied \cup {NULL}) : d.derived = (d.ex_date = NULL)}

DividendKey(d) == <<d.last_buy_date, d.source_version>>

\* Without a calendar, or when it has no session after last_buy_date, the store raises.
ExDate(d, calendar) ==
    IF ~d.derived THEN {d.ex_date}
    ELSE IF calendar = NULL THEN {}
    ELSE NextTradingDay(calendar, d.last_buy_date)

\* A plain INSERT under the primary key.
StoreDividendSnapshot(d, calendar) ==
    /\ DividendKey(d) \notin {DividendKey(r) : r \in dividends}
    /\ Cardinality(dividends) < MaxDividends
    /\ \E ex_date \in ExDate(d, calendar) :
          dividends' = dividends \cup {[d EXCEPT !.ex_date = ex_date]}

-----------------------------------------------------------------------------
Since(d, ts) == d.as_of <= ts /\ (d.declared_date # NULL => d.declared_date <= ts)

\* Mutation: the filter is applied to the latest versions, not before the MAX.
ReadDividendsKnownAsOf_FilterLast(ts) ==
    {d \in dividends :
        /\ Since(d, ts)
        /\ \A r \in dividends :
              r.last_buy_date = d.last_buy_date => r.source_version <= d.source_version}

\* The latest version of each event among the rows known at ts.
ReadDividendsKnownAsOf(ts) ==
    LET known == {d \in dividends : Since(d, ts)}
    IN  {d \in known : \A r \in known :
            r.last_buy_date = d.last_buy_date => r.source_version <= d.source_version}

=============================================================================
