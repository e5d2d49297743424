----------------------------- MODULE CandleStore -----------------------------
(***************************************************************************)
(* The candles table of src/stonksbot/data/store.py and the as-of read     *)
(* decisions are made from: store_candle_snapshot, mark_stale and          *)
(* read_latest_candles, composed with the conflict gate the read applies.  *)
(*                                                                         *)
(* The table holds one interval ('1day', its CHECK admits no other), so    *)
(* the key is (instrument_uid, ts, source_version); prices, volume, source *)
(* and the adjusted flag are left out: no guard reads them.  A writer may  *)
(* pass any version and any as_of; ts and as_of share the scale Time.      *)
(***************************************************************************)
EXTENDS Naturals, FiniteSets

CONSTANTS
    Instrument, Bar, Kind, MaxTime, ConflictId, NULL, NoRow,    \* as in ConflictGate
    MaxVersion,     \* bound on source_version
    MaxRows         \* bound on the rows of candles

VARIABLES conflicts, data_status, skips, stamp,                 \* as in ConflictGate
          candles                                               \* the set of rows

Gate == INSTANCE ConflictGate

Time == 0..MaxTime

ASSUME StoreAssumption ==
    /\ MaxVersion \in Nat
    /\ MaxRows \in Nat
    /\ Bar \subseteq Time
    /\ Gate!GateAssumption

CandleRow == [instrument_uid : Instrument, ts : Bar, source_version : 1..MaxVersion,
              is_complete : BOOLEAN, is_stale : BOOLEAN, as_of : Time]

gateVars == <<conflicts, data_status, skips>>
vars == <<gateVars, stamp, candles>>

Init == Gate!Init /\ candles = {}

-----------------------------------------------------------------------------
CandleKey(c) == <<c.instrument_uid, c.ts, c.source_version>>

Keys == {CandleKey(c) : c \in candles}

\* A plain INSERT: the primary key refuses a second row of the same version.
StoreCandle(c) ==
    /\ CandleKey(c) \notin Keys
    /\ Cardinality(candles) < MaxRows
    /\ candles' = candles \cup {c}
    /\ stamp' = c.as_of
    /\ UNCHANGED gateVars

\* An in-place UPDATE of one version, without an as_of; no row, no change.
MarkStale(k) ==
    /\ candles' = {IF CandleKey(c) = k THEN [c EXCEPT !.is_stale = TRUE] ELSE c :
                      c \in candles}
    /\ UNCHANGED <<gateVars, stamp>>

Next ==
    \/ \E c \in CandleRow : StoreCandle(c)
    \/ \E k \in Keys : MarkStale(k)
    \/ Gate!GateNext /\ UNCHANGED candles

Spec == Init /\ [][Next]_vars

-----------------------------------------------------------------------------
\* Mutation: without as_of <= decision_ts.
Known_Hindsight(u, d) == {c \in candles : c.instrument_uid = u /\ c.ts <= d}

Known(u, d) == {c \in candles : c.instrument_uid = u /\ c.ts <= d /\ c.as_of <= d}

\* The common table "latest": MAX(source_version) per ts among what was known at d.
Latest(u, d) ==
    {c \in Known(u, d) :
        \A k \in Known(u, d) : k.ts = c.ts => k.source_version <= c.source_version}

EntrySafe(c, d) ==
    c.is_complete /\ ~c.is_stale /\ ~Gate!Blocked(c.instrument_uid, d)

\* Mutation: the limit counts the bars that survive the entry filter.
Window_FilteredFirst(u, d, limit) ==
    LET safe == {c \in Latest(u, d) : EntrySafe(c, d)}
    IN  {c \in safe : Cardinality({k \in safe : k.ts > c.ts}) < limit}

\* "windowed": the limit counts bars back from d before any bar is filtered out.
Window(u, d, limit) ==
    {c \in Latest(u, d) : Cardinality({k \in Latest(u, d) : k.ts > c.ts}) < limit}

\* read_latest_candles with entry_safe=False and with entry_safe=True.
AuditRead(u, d, limit) == {CandleKey(c) : c \in Window(u, d, limit)}

EntryRead(u, d, limit) == {CandleKey(c) : c \in {w \in Window(u, d, limit) : EntrySafe(w, d)}}

-----------------------------------------------------------------------------
TypeOK == Gate!TypeOK /\ candles \subseteq CandleRow

Limit == 1..Cardinality(Bar)

\* No hindsight: what an audit of decision time d reads changes only by a snapshot
\* stamped at or before d.  Marking stale and every conflict write leave it alone.
AuditReadsKept ==
    [][\A u \in Instrument, d \in Time, limit \in Limit :
         (d < stamp' \/ UNCHANGED Keys) => UNCHANGED AuditRead(u, d, limit)]_vars

\* An entry decision dated d cannot gain evidence afterwards: a write stamped later than
\* d, or a bar marked stale at any time, may take bars away from the entry-safe read
\* as of d but never adds one.  Older bars must not move up into the window a stale
\* or incomplete bar occupies.
EntryReadsOnlyShrink ==
    [][\A u \in Instrument, d \in Time, limit \in Limit :
         (d < stamp' \/ UNCHANGED <<Keys, conflicts>>)
           => EntryRead(u, d, limit)' \subseteq EntryRead(u, d, limit)]_vars

=============================================================================
