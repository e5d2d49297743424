----------------------------- MODULE IndexIngest -----------------------------
(***************************************************************************)
(* src/stonksbot/data/ingest.py: one daily load of a seeded index from     *)
(* MOEX ISS into the candle store, with the missing-bar scan against the   *)
(* trading calendar, over days.  It composes CandleStore and ConflictGate. *)
(*                                                                         *)
(* A day label is its number; the clock counts days, as_of is the clock    *)
(* and complete_before_ts the label of the current day (the docstring's    *)
(* "UTC midnight of the current MOEX session date").  Loads run one at a   *)
(* time: nothing in the repository runs two.  A load is one action because *)
(* it runs in one transaction from its first INSERT to the commit.         *)
(***************************************************************************)
EXTENDS Integers, FiniteSets

CONSTANTS
    Index,          \* the seeded index instruments
    LastDay,        \* bound on the clock
    Session,        \* the days MOEX really traded
    MaxVersion,     \* bound on source_version
    ConflictId, NULL, NoRow

Day == 1..LastDay

VARIABLES
    conflicts, data_status, skips, stamp,   \* as in ConflictGate
    candles,                                \* as in CandleStore
    now,            \* the current day
    scanned,        \* (index, session) pairs a completed load answers for
    loads,          \* how many loads stored rows under each version
    partial         \* the versions a load that raised stored rows under

gateVars == <<conflicts, data_status, skips>>
storeVars == <<gateVars, stamp, candles>>
ghostVars == <<scanned, loads, partial>>
vars == <<storeVars, now, ghostVars>>

Store == INSTANCE CandleStore WITH
    Instrument <- Index, Bar <- Day, Kind <- {"missing_bar"}, MaxTime <- LastDay,
    MaxRows <- Cardinality(Index \X Day) * MaxVersion

Gate == INSTANCE ConflictGate WITH
    Instrument <- Index, Bar <- Day, Kind <- {"missing_bar"}, MaxTime <- LastDay

ASSUME IngestAssumption ==
    /\ LastDay \in Nat \ {0}
    /\ Session \subseteq Day
    /\ MaxVersion \in Nat
    /\ NULL \notin Int
    /\ Gate!GateAssumption

Init ==
    /\ Store!Init
    /\ now = 1
    /\ scanned = {}
    /\ loads = [u \in Index |-> [v \in 1..MaxVersion |-> 0]]
    /\ partial = {}

-----------------------------------------------------------------------------
Smallest(days) == CHOOSE d \in days : \A e \in days : d <= e
Largest(days) == CHOOSE d \in days : \A e \in days : d >= e

\* A calendar holds IMOEX sessions that have printed, and no more is known of it: it may
\* have been loaded on an earlier day, or lack a session the IMOEX feed omitted.  {} stands
\* for calendar=None.  The coverage is the till the caller says the calendar was built to,
\* or by default its last day.
Calendars == SUBSET {s \in Session : s <= now}

\* The calendar is what its coverage says: no session that is over is missing from its
\* first day to there.
Truthful(calendar, coverage) ==
    \A s \in Session :
        (Smallest(calendar) <= s /\ s <= coverage /\ s < now) => s \in calendar

\* scan_start and scan_end: the requested window, or else the span of the bars.
ScanStart(fetch, window) == IF window = NULL THEN Smallest(fetch) ELSE window.from
ScanEnd(fetch, window) == IF window = NULL THEN Largest(fetch) ELSE window.till

FinalizedEnd(fetch, window) ==
    LET end == ScanEnd(fetch, window) IN IF end <= now - 1 THEN end ELSE now - 1

\* Every expected session of the finalized scan window.
ScanDays(fetch, window, calendar) ==
    {d \in calendar : ScanStart(fetch, window) <= d /\ d <= FinalizedEnd(fetch, window)}

\* Mutation: only the tail of the window is checked.
CalendarCovers_TailOnly(fetch, window, calendar, coverage) ==
    FinalizedEnd(fetch, window) >= ScanStart(fetch, window)
      => coverage >= FinalizedEnd(fetch, window)

\* The refusal of a calendar narrower than a non-empty finalized scan window.
CalendarCovers(fetch, window, calendar, coverage) ==
    FinalizedEnd(fetch, window) >= ScanStart(fetch, window)
      => /\ Smallest(calendar) <= ScanStart(fetch, window)
         /\ coverage >= FinalizedEnd(fetch, window)

\* expected_missing
ExpectedMissing(fetch, window, calendar) ==
    ScanDays(fetch, window, calendar) \ fetch

\* The sessions a load answers for: all that traded in its finalized window if the calendar
\* is truthful, and otherwise the ones the calendar holds.
AnsweredFor(fetch, window, calendar, coverage) ==
    IF calendar # {} /\ Truthful(calendar, coverage)
    THEN {s \in Session : ScanStart(fetch, window) <= s /\ s <= FinalizedEnd(fetch, window)}
    ELSE ScanDays(fetch, window, calendar)

RowsOf(u) == {c \in candles : c.instrument_uid = u}

\* Mutation: counts the complete bars only.
NextSourceVersion_CompleteOnly(u) ==
    Largest({0} \cup {c.source_version : c \in {r \in RowsOf(u) : r.is_complete}}) + 1

\* 1 + MAX(source_version), 1 on an empty series.
NextSourceVersion(u) == Largest({0} \cup {c.source_version : c \in RowsOf(u)}) + 1

\* Mutation: the bar of the current session counts as final.
IsComplete_Today(day) == day <= now

IsComplete(day) == day < now

\* Mutation: as_of is backdated to the bar.
Snapshots_Backdated(u, days, version) ==
    {[instrument_uid |-> u, ts |-> d, source_version |-> version,
      is_complete |-> IsComplete(d), is_stale |-> FALSE, as_of |-> d] : d \in days}

Snapshots(u, days, version) ==
    {[instrument_uid |-> u, ts |-> d, source_version |-> version,
      is_complete |-> IsComplete(d), is_stale |-> FALSE, as_of |-> now] : d \in days}

\* store_candle_snapshot for each bar of a load: a taken key raises.
StoreBars(u, days, version) ==
    LET rows == Snapshots(u, days, version)
    IN  /\ \A c \in rows : Store!CandleKey(c) \notin Store!Keys
        /\ candles' = candles \cup rows
        /\ loads' = [loads EXCEPT ![u][version] = @ + 1]

\* record_data_conflict for each missing day: a new open row, or the open one redated.
RecordMissingBars(u, days) ==
    LET open(d) == Gate!OpenIds(u, d, "missing_bar")
        fresh == {d \in days : open(d) = {}}
    IN  \E row \in [fresh -> ConflictId \ Gate!Rows] :
           /\ \A d, e \in fresh : row[d] = row[e] => d = e
           /\ conflicts' =
                [id \in ConflictId |->
                   IF \E d \in fresh : row[d] = id
                   THEN Gate!NewRow(u, CHOOSE d \in fresh : row[d] = id, "missing_bar", now)
                   ELSE IF \E d \in days : id \in open(d)
                   THEN [conflicts[id] EXCEPT !.as_of = Gate!Earliest(@, now)]
                   ELSE conflicts[id]]

\* A load whose every check passes.
Ingest(u, fetch, window, calendar, coverage) ==
    /\ NextSourceVersion(u) <= MaxVersion
    /\ fetch # {}
    /\ calendar # {} => CalendarCovers(fetch, window, calendar, coverage)
    /\ StoreBars(u, fetch, NextSourceVersion(u))
    /\ RecordMissingBars(u, ExpectedMissing(fetch, window, calendar))
    /\ scanned' = scanned \cup ({u} \X AnsweredFor(fetch, window, calendar, coverage))
    /\ stamp' = now
    /\ UNCHANGED <<data_status, skips, now, partial>>

\* candle_snapshot_from_iss refuses one bar of the sequence for its source or interval
\* inside the store loop: the bars before it, whichever they are, are stored.
IngestRaises(u, stored) ==
    /\ NextSourceVersion(u) <= MaxVersion
    /\ StoreBars(u, stored, NextSourceVersion(u))
    /\ partial' = partial \cup {<<u, NextSourceVersion(u)>>}
    /\ stamp' = now
    /\ UNCHANGED <<gateVars, now, scanned>>

NextDay ==
    /\ now < LastDay
    /\ now' = now + 1
    /\ UNCHANGED <<storeVars, ghostVars>>

\* Other users of the gate act at the current time: a missing bar is escalated, a conflict
\* is resolved.  mark_stale is left to CandleStore: it hides bars and adds none.
OtherWriter ==
    /\ \/ \E u \in Index, d \in Session :
             /\ d < now
             /\ Gate!RecordPersistentDataConflict(u, d, "missing_bar", now)
       \/ \E id \in ConflictId : Gate!ResolveDataConflict(id, now)
    /\ UNCHANGED <<candles, now, ghostVars>>

\* ISS returns bars of sessions that have printed, inside the requested window.
Window == [from : Day, till : Day]

Printed(window) ==
    {s \in Session : s <= now /\ (window = NULL \/ s \in window.from..window.till)}

Load ==
    \E u \in Index, window \in {w \in Window : w.from <= w.till} \cup {NULL} :
      \E fetch \in (SUBSET Printed(window)) \ {{}} :
         \/ \E calendar \in Calendars, coverage \in Day :
               Ingest(u, fetch, window, calendar, coverage)
         \/ \E refused \in fetch, stored \in SUBSET fetch :
               stored # {} /\ refused \notin stored /\ IngestRaises(u, stored)

Next == Load \/ NextDay \/ OtherWriter

Spec == Init /\ [][Next]_vars

-----------------------------------------------------------------------------
TypeOK ==
    /\ Store!TypeOK
    /\ now \in Day
    /\ scanned \subseteq Index \X Session
    /\ loads \in [Index -> [1..MaxVersion -> Nat]]
    /\ partial \subseteq Index \X (1..MaxVersion)

\* No session vanishes silently (ingest.py:18-26): whatever the feed omits, a session
\* that really traded inside a scanned window has a bar, or a missing_bar row, provided the
\* calendar held every session from its first day to the coverage the caller gave; of any
\* other calendar the same holds for the sessions it does hold (IMOEX itself is checked
\* against such a one, ingest.py:27-30).  As long as that row is unresolved, entries on the
\* index are blocked from now on.
NoSilentGap ==
    \A p \in scanned :
        \/ \E c \in RowsOf(p[1]) : c.ts = p[2]
        \/ \E id \in Gate!RowsOf(p[1]) :
              /\ conflicts[id].ts = p[2]
              /\ conflicts[id].kind = "missing_bar"
              /\ conflicts[id].resolved \/ Gate!Blocked(p[1], now)

\* No lookahead (ingest.py:9-16): an entry-safe read as of day d never holds the bar of
\* the session still in progress when that bar was stored, nor any bar of d itself:
\* every bar it holds was stored after its session's day.
NoLookahead ==
    \A u \in Index, d \in Day :
        \A c \in Store!Window(u, d, LastDay) :
            Store!EntrySafe(c, d) => c.ts < c.as_of /\ c.ts < d

\* Every load gets a source_version of its own (ingest.py:4-7), including after a load
\* that raised and after loads of other windows: a version tells which load a bar came
\* from.
FreshVersion == \A u \in Index : \A v \in 1..MaxVersion : loads[u][v] <= 1

\* Latest wins in both orders: of two versions of a bar the higher one was stored no
\* earlier, so MAX(source_version) among the rows known at d is the newest knowledge.
VersionsFollowTime ==
    \A c, k \in candles :
        (c.instrument_uid = k.instrument_uid /\ c.source_version < k.source_version)
          => c.as_of <= k.as_of

\* as_of is the wall clock, never backdated (ingest.py:14-16), so what a decision of an
\* earlier day read never changes: no late bar, new version of an old bar, missing_bar row,
\* escalation or resolution reaches back into it.  (mark_stale, store.py:214, would take
\* bars away: nothing calls it, and CandleStore says what it may do.)
PastReadsKept ==
    [][\A u \in Index, d \in Day, limit \in Day :
         d < now => UNCHANGED <<Store!AuditRead(u, d, limit), Store!EntryRead(u, d, limit)>>]_vars

-----------------------------------------------------------------------------
\* The docstring's claim (ingest.py:173-175) that a raised error never leaves a
\* partially-stored load in the caller's transaction.
NoPartialLoad == partial = {}

=============================================================================
