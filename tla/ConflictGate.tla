---------------------------- MODULE ConflictGate ----------------------------
(***************************************************************************)
(* The data_conflict machinery of src/stonksbot/data/store.py: the         *)
(* data_conflicts rows that gate entries as of a decision time, the        *)
(* data_status marker in instrument_reference, and the skipped signals.    *)
(*                                                                         *)
(* Every operation writes inside its caller's transaction; the caller      *)
(* commits it or rolls it back (a crash rolls back too), and a rollback    *)
(* returns to a state already visited.  The as_of of a write is whatever   *)
(* the caller passes: nothing here assumes it is the current time.         *)
(***************************************************************************)
EXTENDS Naturals

CONSTANTS
    Instrument,     \* registered instruments (a foreign key refuses the others)
    Bar,            \* the ts of decision bars
    Kind,           \* data_conflicts.kind values in play
    MaxTime,        \* bound on as_of and on decision times
    ConflictId,     \* data_conflicts.id: SQLite picks an unused one
    NULL, NoRow

Time == 0..MaxTime

ConflictRow == [instrument_uid : Instrument, ts : Bar, kind : Kind,
                resolved : BOOLEAN, as_of : Time, resolved_as_of : Time \cup {NULL}]

ASSUME GateAssumption ==
    /\ Kind \subseteq {"close_divergence", "missing_bar", "duplicate_bar"}
    /\ MaxTime \in Nat
    /\ NULL \notin Nat
    /\ NoRow \notin ConflictRow

VARIABLES
    conflicts,      \* data_conflicts: the row of each id
    data_status,    \* instrument_reference.data_status
    skips,          \* how many skipped/data_conflict signals a bar has
    stamp           \* the as_of of the last write, for the properties only

gateVars == <<conflicts, data_status, skips>>
vars == <<conflicts, data_status, skips, stamp>>

Init ==
    /\ conflicts = [id \in ConflictId |-> NoRow]
    /\ data_status = [u \in Instrument |-> "ok"]
    /\ skips = [u \in Instrument |-> [b \in Bar |-> 0]]
    /\ stamp = 0

-----------------------------------------------------------------------------
Rows == {id \in ConflictId : conflicts[id] # NoRow}

RowsOf(u) == {id \in Rows : conflicts[id].instrument_uid = u}

Open(id) == id \in Rows /\ ~conflicts[id].resolved

HasKey(row, u, b, k) == row.instrument_uid = u /\ row.ts = b /\ row.kind = k

\* The rows idx_data_conflicts_open_unique covers for a key.
OpenIds(u, b, k) == {id \in Rows : Open(id) /\ HasKey(conflicts[id], u, b, k)}

NewRow(u, b, k, a) ==
    [instrument_uid |-> u, ts |-> b, kind |-> k,
     resolved |-> FALSE, as_of |-> a, resolved_as_of |-> NULL]

\* Mutation: re-detection redates the open row.
Earliest_Latest(s, t) == t

Earliest(s, t) == IF s <= t THEN s ELSE t

\* Mutation: without idx_data_conflicts_open_unique.
RecordRow_Stacking(u, b, k, a) ==
    \E id \in ConflictId \ Rows : conflicts' = [conflicts EXCEPT ![id] = NewRow(u, b, k, a)]

\* The INSERT of record_data_conflict, and its ON CONFLICT update of the open row.
RecordRow(u, b, k, a) ==
    \/ /\ OpenIds(u, b, k) = {}
       /\ \E id \in ConflictId \ Rows :
             conflicts' = [conflicts EXCEPT ![id] = NewRow(u, b, k, a)]
    \/ \E id \in OpenIds(u, b, k) :
             conflicts' = [conflicts EXCEPT ![id].as_of = Earliest(@, a)]

RecordDataConflict(u, b, k, a) ==
    /\ RecordRow(u, b, k, a)
    /\ stamp' = a
    /\ UNCHANGED <<data_status, skips>>

\* Mutation: a marker outside the vocabulary of the CHECK.
RecordPersistentDataConflict_Suspect(u, b, k, a) ==
    /\ RecordRow(u, b, k, a)
    /\ data_status' = [data_status EXCEPT ![u] = "suspect"]
    /\ skips' = IF skips[u][b] = 0 THEN [skips EXCEPT ![u][b] = 1] ELSE skips
    /\ stamp' = a

\* Mutation: without the NOT EXISTS before the skipped signal.
RecordPersistentDataConflict_SkipsAgain(u, b, k, a) ==
    /\ RecordRow(u, b, k, a)
    /\ data_status' = [data_status EXCEPT ![u] = "data_conflict"]
    /\ skips' = [skips EXCEPT ![u][b] = @ + 1]
    /\ stamp' = a

RecordPersistentDataConflict(u, b, k, a) ==
    /\ RecordRow(u, b, k, a)
    /\ data_status' = [data_status EXCEPT ![u] = "data_conflict"]
    /\ skips' = IF skips[u][b] = 0 THEN [skips EXCEPT ![u][b] = 1] ELSE skips
    /\ stamp' = a

\* Mutation: without the COALESCE.
ResolutionTime_Overwritten(id, a) == a

\* COALESCE(resolved_as_of, a): a second resolution keeps the first one's time.
ResolutionTime(id, a) ==
    IF conflicts[id].resolved_as_of = NULL THEN a ELSE conflicts[id].resolved_as_of

\* Mutation: looks for open rows before its own update.
ResolveDataConflict_CountsItself(id, a) ==
    /\ id \in Rows
    /\ ResolutionTime(id, a) >= conflicts[id].as_of
    /\ conflicts' = [conflicts EXCEPT ![id].resolved = TRUE,
                                      ![id].resolved_as_of = ResolutionTime(id, a)]
    /\ LET u == conflicts[id].instrument_uid
       IN  data_status' = IF \E i \in RowsOf(u) : Open(i)
                          THEN data_status
                          ELSE [data_status EXCEPT ![u] = "ok"]
    /\ stamp' = a
    /\ UNCHANGED skips

\* The CHECK on the table refuses a resolution dated before the conflict.
ResolveDataConflict(id, a) ==
    /\ id \in Rows
    /\ ResolutionTime(id, a) >= conflicts[id].as_of
    /\ conflicts' = [conflicts EXCEPT ![id].resolved = TRUE,
                                      ![id].resolved_as_of = ResolutionTime(id, a)]
    /\ LET u == conflicts[id].instrument_uid
       IN  data_status' = IF \E i \in RowsOf(u) \ {id} : Open(i)
                          THEN data_status
                          ELSE [data_status EXCEPT ![u] = "ok"]
    /\ stamp' = a
    /\ UNCHANGED skips

GateNext ==
    \/ \E u \in Instrument, b \in Bar, k \in Kind, a \in Time :
          RecordDataConflict(u, b, k, a) \/ RecordPersistentDataConflict(u, b, k, a)
    \/ \E id \in ConflictId, a \in Time : ResolveDataConflict(id, a)

Next == GateNext

Spec == Init /\ [][Next]_vars

-----------------------------------------------------------------------------
\* The NOT EXISTS clause of read_latest_candles(entry_safe=True), for decision time d.
InForce(row, d) == row.as_of <= d /\ (~row.resolved \/ row.resolved_as_of > d)

Blocked(u, d) ==
    \E id \in RowsOf(u) : InForce(conflicts[id], d)

-----------------------------------------------------------------------------
TypeOK ==
    /\ conflicts \in [ConflictId -> ConflictRow \cup {NoRow}]
    /\ data_status \in [Instrument -> {"ok", "data_conflict"}]
    /\ skips \in [Instrument -> [Bar -> Nat]]
    /\ stamp \in Time

\* Re-detection never stacks open rows (db-schema.md section 4): at most one open row
\* per key, and every row is either open without a resolution time or resolved at or
\* after its detection.  It is what lets record_data_conflict read back "the" open id.
OneOpenPerKey ==
    /\ \A i, j \in Rows :
          (Open(i) /\ Open(j) /\ HasKey(conflicts[i], conflicts[j].instrument_uid,
                                        conflicts[j].ts, conflicts[j].kind)) => i = j
    /\ \A i \in Rows :
          IF conflicts[i].resolved THEN conflicts[i].resolved_as_of \in Time
                                        /\ conflicts[i].resolved_as_of >= conflicts[i].as_of
                                   ELSE conflicts[i].resolved_as_of = NULL

\* The two records of a conflict agree: while the registry marker says data_conflict
\* there is an open row behind it, so the as-of gate blocks every decision from some
\* time on, whatever the interleaving of detections, re-detections and resolutions of
\* several conflicts of the instrument; and the skipped decision is on record.
MarkerBackedByGate ==
    \A u \in Instrument :
        data_status[u] = "data_conflict" =>
            /\ \E t \in Time : \A d \in Time : d >= t => Blocked(u, d)
            /\ \E b \in Bar : skips[u][b] > 0

\* A decision bar is skipped for data_conflict at most once, and only if a conflict of
\* that bar is in the table (open or resolved: history is kept).
SkipsJustified ==
    \A u \in Instrument, b \in Bar :
        /\ skips[u][b] <= 1
        /\ skips[u][b] > 0 =>
             \E id \in RowsOf(u) : conflicts[id].ts = b

\* A row is never deleted or re-keyed; while open its as_of only moves earlier; once
\* resolved it never changes again: a recurrence opens a new row.
RowsOnlyMature ==
    [][\A id \in Rows :
         /\ id \in Rows'
         /\ HasKey(conflicts'[id], conflicts[id].instrument_uid, conflicts[id].ts,
                   conflicts[id].kind)
         /\ conflicts'[id].as_of <= conflicts[id].as_of
         /\ conflicts[id].resolved => conflicts'[id] = conflicts[id]]_vars

\* As-of decisions are reproducible: a write stamped as_of = a never changes the answer
\* of the gate for a decision time before a.  With as_of the wall clock, as ingest.py
\* has it, no later write can change what an earlier decision saw.
GateHistoryKept ==
    [][\A u \in Instrument, d \in Time :
         Blocked(u, d)' # Blocked(u, d) => d >= stamp']_vars

=============================================================================
