------------------------- MODULE ConflictGateProofs -------------------------
(***************************************************************************)
(* Proofs about ConflictGate for any set of instruments, bars and kinds    *)
(* and any bounds.  GateInv strengthens MarkerBackedByGate to an open row  *)
(* behind every data_conflict marker, which is what resolve_data_conflict  *)
(* looks for before it clears the marker.                                  *)
(***************************************************************************)
EXTENDS ConflictGate, TLAPS

OpenRowBehindMarker ==
    \A u \in Instrument :
        data_status[u] = "data_conflict" =>
            /\ \E id \in RowsOf(u) : ~conflicts[id].resolved
            /\ \E b \in Bar : skips[u][b] > 0

GateInv == TypeOK /\ OneOpenPerKey /\ OpenRowBehindMarker /\ SkipsJustified

\* The gate's invariant holds of the empty tables.
LEMMA GateInvInit == Init => GateInv
  BY GateAssumption
     DEF Init, GateInv, TypeOK, OneOpenPerKey, OpenRowBehindMarker, SkipsJustified,
         Time, Open, Rows, RowsOf

\* How a step may change the table: a new open row of a key without one, an open row
\* dated earlier, or a resolution, dated a unless the row already had a date.
Inserted(id, u, b, k, a) ==
    /\ id \in ConflictId \ Rows
    /\ OpenIds(u, b, k) = {}
    /\ conflicts' = [conflicts EXCEPT ![id] = NewRow(u, b, k, a)]

Redated(id, u, b, k, a) ==
    /\ id \in OpenIds(u, b, k)
    /\ conflicts' = [conflicts EXCEPT ![id].as_of = Earliest(@, a)]

\* What either way of recording a conflict does to the rows, new and old.
LEMMA RecordStepInv ==
  ASSUME GateInv, NEW u \in Instrument, NEW b \in Bar, NEW k \in Kind, NEW a \in Time,
         RecordRow(u, b, k, a)
  PROVE  /\ conflicts' \in [ConflictId -> ConflictRow \cup {NoRow}]
         /\ OneOpenPerKey'
         /\ Rows \subseteq Rows'
         /\ \A id \in Rows : /\ HasKey(conflicts'[id], conflicts[id].instrument_uid,
                                       conflicts[id].ts, conflicts[id].kind)
                             /\ conflicts'[id].resolved = conflicts[id].resolved
                             /\ conflicts'[id].resolved_as_of = conflicts[id].resolved_as_of
                             /\ conflicts'[id].as_of <= conflicts[id].as_of
                             /\ conflicts'[id].as_of # conflicts[id].as_of
                                  => conflicts'[id].as_of = a
                             /\ conflicts[id].resolved => conflicts'[id] = conflicts[id]
         /\ \A id \in Rows' \ Rows : conflicts'[id] = NewRow(u, b, k, a)
         /\ \E id \in Rows' : HasKey(conflicts'[id], u, b, k) /\ ~conflicts'[id].resolved
<1> USE GateAssumption
<1>0. conflicts \in [ConflictId -> ConflictRow \cup {NoRow}]
  BY DEF GateInv, TypeOK
<1>1. CASE \E id : Inserted(id, u, b, k, a)
  <2>1. PICK id : Inserted(id, u, b, k, a)
    BY <1>1
  <2>2. NewRow(u, b, k, a) \in ConflictRow
    BY DEF NewRow, ConflictRow
  <2>3. Rows' = Rows \cup {id} /\ conflicts'[id] = NewRow(u, b, k, a)
        /\ \A i \in Rows : conflicts'[i] = conflicts[i]
    BY <1>0, <2>1, <2>2 DEF Inserted, Rows
  <2>4. \A i \in Rows : conflicts[i] \in ConflictRow
    BY <1>0 DEF Rows
  <2>5. \A i \in Rows : conflicts[i].as_of <= conflicts[i].as_of
    BY <2>4 DEF ConflictRow, Time
  <2>6. OneOpenPerKey'
    BY <2>1, <2>3, <2>4
       DEF GateInv, OneOpenPerKey, Open, HasKey, NewRow, OpenIds, Inserted
  <2> QED
    BY <1>0, <2>1, <2>2, <2>3, <2>5, <2>6 DEF Inserted, HasKey, NewRow
<1>2. CASE \E id : Redated(id, u, b, k, a)
  <2>1. PICK id : Redated(id, u, b, k, a)
    BY <1>2
  <2>2. id \in Rows /\ conflicts[id] \in ConflictRow /\ ~conflicts[id].resolved
        /\ HasKey(conflicts[id], u, b, k)
    BY <1>0, <2>1 DEF Redated, OpenIds, Open, Rows
  <2>3. /\ conflicts'[id] = [conflicts[id] EXCEPT !.as_of = Earliest(conflicts[id].as_of, a)]
        /\ \A i \in ConflictId \ {id} : conflicts'[i] = conflicts[i]
    BY <1>0, <2>1, <2>2 DEF Redated, Rows
  <2>4. Earliest(conflicts[id].as_of, a) \in Time
        /\ Earliest(conflicts[id].as_of, a) <= conflicts[id].as_of
        /\ Earliest(conflicts[id].as_of, a) \in {conflicts[id].as_of, a}
    BY <2>2 DEF ConflictRow, Time, Earliest
  <2>5. conflicts'[id] \in ConflictRow
        /\ conflicts'[id].as_of = Earliest(conflicts[id].as_of, a)
        /\ conflicts'[id].instrument_uid = conflicts[id].instrument_uid
        /\ conflicts'[id].ts = conflicts[id].ts
        /\ conflicts'[id].kind = conflicts[id].kind
        /\ conflicts'[id].resolved = conflicts[id].resolved
        /\ conflicts'[id].resolved_as_of = conflicts[id].resolved_as_of
    BY <2>2, <2>3, <2>4 DEF ConflictRow
  <2>6. Rows' = Rows
    BY <2>2, <2>3, <2>5 DEF Rows
  <2>7. \A i \in Rows : conflicts[i] \in ConflictRow
    BY <1>0 DEF Rows
  <2>8. OneOpenPerKey'
    <3>1. ASSUME NEW i \in Rows
          PROVE  /\ Open(i)' <=> Open(i)
                 /\ conflicts'[i].instrument_uid = conflicts[i].instrument_uid
                 /\ conflicts'[i].ts = conflicts[i].ts
                 /\ conflicts'[i].kind = conflicts[i].kind
      <4>1. CASE i = id
        BY <2>5, <2>6, <4>1 DEF Open
      <4>2. CASE i # id
        BY <2>3, <2>6, <4>2 DEF Open, Rows
      <4> QED BY <4>1, <4>2
    <3>2. ASSUME NEW i \in Rows', NEW j \in Rows', Open(i)', Open(j)',
                 HasKey(conflicts'[i], conflicts'[j].instrument_uid,
                        conflicts'[j].ts, conflicts'[j].kind)
          PROVE  i = j
      BY <2>6, <3>1, <3>2 DEF GateInv, OneOpenPerKey, HasKey
    <3>3. ASSUME NEW i \in Rows'
          PROVE  IF conflicts'[i].resolved
                   THEN conflicts'[i].resolved_as_of \in Time
                        /\ conflicts'[i].resolved_as_of >= conflicts'[i].as_of
                   ELSE conflicts'[i].resolved_as_of = NULL
      <4>1. CASE i = id
        BY <2>2, <2>5, <4>1 DEF GateInv, OneOpenPerKey
      <4>2. CASE i # id
        BY <2>3, <2>6, <4>2 DEF GateInv, OneOpenPerKey, Rows
      <4> QED BY <4>1, <4>2
    <3> QED BY <3>2, <3>3 DEF OneOpenPerKey
  <2>9. conflicts' \in [ConflictId -> ConflictRow \cup {NoRow}]
    BY <1>0, <2>1, <2>3, <2>5 DEF Redated
  <2>10. \A i \in Rows : conflicts[i].as_of <= conflicts[i].as_of
    BY <2>7 DEF ConflictRow, Time
  <2>11. ASSUME NEW i \in Rows
         PROVE  /\ HasKey(conflicts'[i], conflicts[i].instrument_uid,
                          conflicts[i].ts, conflicts[i].kind)
                /\ conflicts'[i].resolved = conflicts[i].resolved
                /\ conflicts'[i].resolved_as_of = conflicts[i].resolved_as_of
                /\ conflicts'[i].as_of <= conflicts[i].as_of
                /\ conflicts'[i].as_of # conflicts[i].as_of => conflicts'[i].as_of = a
                /\ conflicts[i].resolved => conflicts'[i] = conflicts[i]
    <3>1. CASE i = id
      BY <2>2, <2>4, <2>5, <3>1 DEF HasKey
    <3>2. CASE i # id
      BY <2>3, <2>10, <3>2 DEF HasKey, Rows
    <3> QED BY <3>1, <3>2
  <2>12. HasKey(conflicts'[id], u, b, k) /\ ~conflicts'[id].resolved
    BY <2>2, <2>5 DEF HasKey
  <2> QED
    BY <2>2, <2>6, <2>8, <2>9, <2>11, <2>12
<1> QED BY <1>1, <1>2 DEF RecordRow, Inserted, Redated

\* A resolution touches one row, keeps its key and its as_of, and never redates it.
LEMMA ResolveStepInv ==
  ASSUME GateInv, NEW id \in ConflictId, NEW a \in Time, ResolveDataConflict(id, a)
  PROVE  /\ conflicts' \in [ConflictId -> ConflictRow \cup {NoRow}]
         /\ OneOpenPerKey'
         /\ Rows' = Rows
         /\ \A i \in Rows \ {id} : conflicts'[i] = conflicts[i]
         /\ id \in Rows
         /\ HasKey(conflicts'[id], conflicts[id].instrument_uid,
                   conflicts[id].ts, conflicts[id].kind)
         /\ conflicts'[id].as_of = conflicts[id].as_of
         /\ conflicts'[id].resolved
         /\ conflicts'[id].resolved_as_of = ResolutionTime(id, a)
         /\ conflicts[id].resolved => /\ conflicts'[id] = conflicts[id]
                                      /\ conflicts[id].resolved_as_of \in Time
<1> USE GateAssumption
<1>0. conflicts \in [ConflictId -> ConflictRow \cup {NoRow}]
  BY DEF GateInv, TypeOK
<1>1. id \in Rows /\ conflicts[id] \in ConflictRow
  BY <1>0 DEF ResolveDataConflict, Rows
<1>2. ResolutionTime(id, a) \in Time
  BY <1>1 DEF ResolutionTime, ConflictRow
<1>3. conflicts' = [conflicts EXCEPT ![id].resolved = TRUE,
                                     ![id].resolved_as_of = ResolutionTime(id, a)]
  BY DEF ResolveDataConflict
<1>4. conflicts'[id] = [conflicts[id] EXCEPT !.resolved = TRUE,
                                             !.resolved_as_of = ResolutionTime(id, a)]
      /\ \A i \in ConflictId \ {id} : conflicts'[i] = conflicts[i]
  BY <1>0, <1>3
<1>5. /\ conflicts'[id] \in ConflictRow
      /\ conflicts'[id].instrument_uid = conflicts[id].instrument_uid
      /\ conflicts'[id].ts = conflicts[id].ts
      /\ conflicts'[id].kind = conflicts[id].kind
      /\ conflicts'[id].as_of = conflicts[id].as_of
      /\ conflicts'[id].resolved = TRUE
      /\ conflicts'[id].resolved_as_of = ResolutionTime(id, a)
  BY <1>1, <1>2, <1>4 DEF ConflictRow
<1>6. Rows' = Rows
  BY <1>1, <1>4, <1>5 DEF Rows
<1>7. conflicts' \in [ConflictId -> ConflictRow \cup {NoRow}]
  BY <1>0, <1>3, <1>4, <1>5
<1>8. conflicts[id].resolved => /\ conflicts'[id] = conflicts[id]
                                /\ conflicts[id].resolved_as_of \in Time
  <2> SUFFICES ASSUME conflicts[id].resolved
               PROVE  conflicts'[id] = conflicts[id] /\ conflicts[id].resolved_as_of \in Time
    OBVIOUS
  <2>1. conflicts[id].resolved_as_of \in Time
    BY <1>1 DEF GateInv, OneOpenPerKey
  <2>2. ResolutionTime(id, a) = conflicts[id].resolved_as_of
    BY <2>1 DEF ResolutionTime, Time
  <2>3. conflicts[id].resolved = TRUE
    BY <1>1 DEF ConflictRow
  <2> QED BY <1>1, <1>4, <2>1, <2>2, <2>3 DEF ConflictRow
<1>9. OneOpenPerKey'
  <2>1. ResolutionTime(id, a) >= conflicts[id].as_of
    BY DEF ResolveDataConflict
  <2>2. \A i \in Rows : conflicts[i] \in ConflictRow
    BY <1>0 DEF Rows
  <2>3. \A i \in Rows : Open(i)' => i # id /\ Open(i) /\ conflicts'[i] = conflicts[i]
    BY <1>4, <1>5, <1>6 DEF Open, Rows
  <2>4. ASSUME NEW i \in Rows', NEW j \in Rows', Open(i)', Open(j)',
               HasKey(conflicts'[i], conflicts'[j].instrument_uid,
                      conflicts'[j].ts, conflicts'[j].kind)
        PROVE  i = j
    BY <1>6, <2>3, <2>4 DEF GateInv, OneOpenPerKey
  <2>5. ASSUME NEW i \in Rows'
        PROVE  IF conflicts'[i].resolved
                 THEN conflicts'[i].resolved_as_of \in Time
                      /\ conflicts'[i].resolved_as_of >= conflicts'[i].as_of
                 ELSE conflicts'[i].resolved_as_of = NULL
    <3>1. CASE i = id
      BY <1>2, <1>5, <2>1, <3>1
    <3>2. CASE i # id
      <4>1. i \in Rows /\ conflicts'[i] = conflicts[i]
        BY <1>4, <1>6, <3>2 DEF Rows
      <4> QED BY <4>1 DEF GateInv, OneOpenPerKey
    <3> QED BY <3>1, <3>2
  <2> QED
    BY <2>4, <2>5 DEF OneOpenPerKey
<1> QED BY <1>1, <1>4, <1>5, <1>6, <1>7, <1>8, <1>9 DEF HasKey, Rows

\* Each of the three handlers, and a stuttering step, keeps the invariant.
LEMMA GateInvStep == GateInv /\ [Next]_vars => GateInv'
<1> SUFFICES ASSUME GateInv, [Next]_vars PROVE GateInv'
  OBVIOUS
<1>1. ASSUME NEW u \in Instrument, NEW b \in Bar, NEW k \in Kind, NEW a \in Time,
             RecordDataConflict(u, b, k, a)
      PROVE  GateInv'
  <2>1. RecordRow(u, b, k, a) /\ UNCHANGED <<data_status, skips>> /\ stamp' = a
    BY <1>1 DEF RecordDataConflict
  <2>2. TypeOK' /\ OneOpenPerKey'
    BY <2>1, RecordStepInv DEF GateInv, TypeOK
  <2>3. OpenRowBehindMarker'
    BY <2>1, RecordStepInv DEF GateInv, OpenRowBehindMarker, RowsOf, HasKey
  <2>4. SkipsJustified'
    BY <2>1, RecordStepInv DEF GateInv, SkipsJustified, RowsOf, HasKey
  <2> QED BY <2>2, <2>3, <2>4 DEF GateInv
<1>2. ASSUME NEW u \in Instrument, NEW b \in Bar, NEW k \in Kind, NEW a \in Time,
             RecordPersistentDataConflict(u, b, k, a)
      PROVE  GateInv'
  <2>1. /\ RecordRow(u, b, k, a) /\ stamp' = a
        /\ data_status' = [data_status EXCEPT ![u] = "data_conflict"]
        /\ skips' = IF skips[u][b] = 0 THEN [skips EXCEPT ![u][b] = 1] ELSE skips
    BY <1>2 DEF RecordPersistentDataConflict
  <2>2. /\ data_status \in [Instrument -> {"ok", "data_conflict"}]
        /\ skips \in [Instrument -> [Bar -> Nat]]
    BY DEF GateInv, TypeOK
  <2>3. /\ skips' \in [Instrument -> [Bar -> Nat]]
        /\ skips'[u][b] > 0
        /\ \A v \in Instrument, c \in Bar :
              \/ skips'[v][c] = skips[v][c]
              \/ v = u /\ c = b /\ skips'[v][c] = 1
    <3>1. CASE skips[u][b] = 0
      BY <2>1, <2>2, <3>1
    <3>2. CASE skips[u][b] # 0
      BY <2>1, <2>2, <3>2
    <3> QED BY <3>1, <3>2
  <2>4. TypeOK' /\ OneOpenPerKey'
    BY <2>1, <2>2, <2>3, RecordStepInv DEF GateInv, TypeOK
  <2>5. \A v \in Instrument, c \in Bar : skips[v][c] > 0 => skips'[v][c] > 0
    BY <2>2, <2>3
  <2>6. OpenRowBehindMarker'
    <3> SUFFICES ASSUME NEW v \in Instrument, data_status'[v] = "data_conflict"
                 PROVE  /\ \E id \in RowsOf(v)' : ~conflicts'[id].resolved
                        /\ \E c \in Bar : skips'[v][c] > 0
      BY DEF OpenRowBehindMarker
    <3>1. CASE v = u
      <4>1. \E id \in Rows' : HasKey(conflicts'[id], u, b, k) /\ ~conflicts'[id].resolved
        BY <2>1, RecordStepInv
      <4> QED BY <2>3, <3>1, <4>1 DEF RowsOf, HasKey
    <3>2. CASE v # u
      <4>1. data_status[v] = "data_conflict"
        BY <2>1, <2>2, <3>2
      <4> QED BY <2>1, <2>5, <4>1, RecordStepInv DEF GateInv, OpenRowBehindMarker, RowsOf, HasKey
    <3> QED BY <3>1, <3>2
  <2>7. SkipsJustified'
    <3> SUFFICES ASSUME NEW v \in Instrument, NEW c \in Bar
                 PROVE  /\ skips'[v][c] <= 1
                        /\ skips'[v][c] > 0 => \E id \in RowsOf(v)' : conflicts'[id].ts = c
      BY DEF SkipsJustified
    <3>1. CASE v = u /\ c = b
      <4>1. \E id \in Rows' : HasKey(conflicts'[id], u, b, k) /\ ~conflicts'[id].resolved
        BY <2>1, RecordStepInv
      <4>2. skips'[v][c] <= 1
        BY <2>2, <2>3 DEF GateInv, SkipsJustified
      <4> QED BY <3>1, <4>1, <4>2 DEF RowsOf, HasKey
    <3>2. CASE ~(v = u /\ c = b)
      <4>1. skips'[v][c] = skips[v][c]
        BY <2>3, <3>2
      <4>2. skips[v][c] <= 1 /\ (skips[v][c] > 0 => \E id \in RowsOf(v) : conflicts[id].ts = c)
        BY DEF GateInv, SkipsJustified
      <4> QED BY <2>1, <4>1, <4>2, RecordStepInv DEF RowsOf, HasKey
    <3> QED BY <3>1, <3>2
  <2> QED BY <2>4, <2>6, <2>7 DEF GateInv
<1>3. ASSUME NEW id \in ConflictId, NEW a \in Time, ResolveDataConflict(id, a)
      PROVE  GateInv'
  <2> DEFINE u == conflicts[id].instrument_uid
  <2>1. /\ stamp' = a /\ skips' = skips
        /\ data_status' = IF \E i \in RowsOf(u) \ {id} : Open(i)
                          THEN data_status
                          ELSE [data_status EXCEPT ![u] = "ok"]
    BY <1>3 DEF ResolveDataConflict
  <2>2. data_status \in [Instrument -> {"ok", "data_conflict"}]
    BY DEF GateInv, TypeOK
  <2>3. TypeOK' /\ OneOpenPerKey'
    BY <1>3, <2>1, <2>2, ResolveStepInv DEF GateInv, TypeOK
  <2>4. SkipsJustified'
    BY <1>3, <2>1, ResolveStepInv DEF GateInv, SkipsJustified, RowsOf, HasKey
  <2>5. OpenRowBehindMarker'
    <3> SUFFICES ASSUME NEW v \in Instrument, data_status'[v] = "data_conflict"
                 PROVE  /\ \E i \in RowsOf(v)' : ~conflicts'[i].resolved
                        /\ \E c \in Bar : skips'[v][c] > 0
      BY DEF OpenRowBehindMarker
    <3>1. data_status[v] = "data_conflict"
      BY <2>1, <2>2
    <3>2. PICK i \in RowsOf(v) : ~conflicts[i].resolved
      BY <3>1 DEF GateInv, OpenRowBehindMarker
    <3>3. CASE v = u
      <4>1. PICK j \in RowsOf(u) \ {id} : Open(j)
        BY <2>1, <2>2, <3>3
      <4> QED
        BY <1>3, <2>1, <3>1, <3>3, <4>1, ResolveStepInv
           DEF GateInv, OpenRowBehindMarker, RowsOf, Open
    <3>4. CASE v # u
      <4>1. i # id
        BY <3>2, <3>4 DEF RowsOf
      <4> QED
        BY <1>3, <2>1, <3>1, <3>2, <4>1, ResolveStepInv
           DEF GateInv, OpenRowBehindMarker, RowsOf
    <3> QED BY <3>3, <3>4
  <2> QED BY <2>3, <2>4, <2>5 DEF GateInv
<1>4. CASE UNCHANGED vars
  BY <1>4 DEF vars, GateInv, TypeOK, OneOpenPerKey, OpenRowBehindMarker, SkipsJustified,
     Open, HasKey, Rows, RowsOf
<1> QED BY <1>1, <1>2, <1>3, <1>4 DEF Next, GateNext

\* The invariant holds in every reachable state.
LEMMA GateInvariant == Spec => []GateInv
  BY GateInvInit, GateInvStep, PTL DEF Spec

\* Every variable keeps to its table's columns.
THEOREM GateTypeCorrect == Spec => []TypeOK
<1>1. GateInv => TypeOK
  BY DEF GateInv
<1> QED BY <1>1, GateInvariant, PTL

\* At most one open row per key, and no row resolved before it was detected.
THEOREM OneOpenRowAlways == Spec => []OneOpenPerKey
<1>1. GateInv => OneOpenPerKey
  BY DEF GateInv
<1> QED BY <1>1, GateInvariant, PTL

\* An open row blocks every decision from its as_of on.
LEMMA MarkerBacked == GateInv => MarkerBackedByGate
<1> SUFFICES ASSUME GateInv, NEW u \in Instrument, data_status[u] = "data_conflict"
             PROVE  \E t \in Time : \A d \in Time : d >= t => Blocked(u, d)
  BY DEF MarkerBackedByGate, GateInv, OpenRowBehindMarker
<1>1. PICK id \in RowsOf(u) : ~conflicts[id].resolved
  BY DEF GateInv, OpenRowBehindMarker
<1>2. conflicts[id].as_of \in Time
  BY <1>1 DEF GateInv, TypeOK, RowsOf, Rows, ConflictRow
<1>3. \A d \in Time : d >= conflicts[id].as_of => Blocked(u, d)
  BY <1>1, <1>2, GateAssumption DEF Blocked, InForce, Time
<1> QED BY <1>2, <1>3

\* The data_conflict marker always has an open row behind it, which blocks every
\* decision from its as_of on.
THEOREM MarkerAlwaysBacked == Spec => []MarkerBackedByGate
  BY MarkerBacked, GateInvariant, PTL

\* Every skipped decision is recorded once, and for a conflict of its own bar.
THEOREM SkipsAlwaysJustified == Spec => []SkipsJustified
<1>1. GateInv => SkipsJustified
  BY DEF GateInv
<1> QED BY <1>1, GateInvariant, PTL

\* What a step leaves of each row.
Mature ==
    \A id \in Rows :
        /\ id \in Rows'
        /\ HasKey(conflicts'[id], conflicts[id].instrument_uid, conflicts[id].ts,
                  conflicts[id].kind)
        /\ conflicts'[id].as_of <= conflicts[id].as_of
        /\ conflicts[id].resolved => conflicts'[id] = conflicts[id]

\* A step of the gate inserts, redates earlier or resolves, and does no more to a row.
LEMMA MatureStep ==
  ASSUME GateInv, Next
  PROVE  Mature
<1>1. CASE \E u \in Instrument, b \in Bar, k \in Kind, a \in Time : RecordRow(u, b, k, a)
  BY <1>1, RecordStepInv DEF Mature
<1>2. CASE \E id \in ConflictId, a \in Time : ResolveDataConflict(id, a)
  <2>1. PICK id \in ConflictId, a \in Time : ResolveDataConflict(id, a)
    BY <1>2
  <2>2. \A i \in Rows : conflicts[i].as_of <= conflicts[i].as_of
    BY GateAssumption DEF GateInv, TypeOK, Rows, ConflictRow, Time
  <2> QED BY <2>1, <2>2, ResolveStepInv DEF HasKey, Mature
<1> QED
  BY <1>1, <1>2 DEF Next, GateNext, RecordDataConflict, RecordPersistentDataConflict

\* Rows are never deleted, re-keyed, redated later or changed after their resolution.
THEOREM RowsAlwaysMature == Spec => RowsOnlyMature
<1>1. GateInv /\ [Next]_vars => [Mature]_vars
  BY MatureStep
<1> QED BY <1>1, GateInvariant, PTL DEF Spec, RowsOnlyMature, Mature

\* No write of the gate changes its answer for a time before the write's stamp.
LEMMA GateHistoryStep ==
  ASSUME GateInv, Next
  PROVE  \A u \in Instrument, d \in Time : Blocked(u, d)' # Blocked(u, d) => d >= stamp'
<1> SUFFICES ASSUME NEW v \in Instrument, NEW d \in Time, d < stamp', stamp' \in Time
             PROVE  Blocked(v, d)' = Blocked(v, d)
  BY GateInvStep, GateAssumption DEF GateInv, TypeOK, Time
<1>0. \A i \in Rows : conflicts[i] \in ConflictRow
  BY DEF GateInv, TypeOK, Rows
<1>1. ASSUME NEW u \in Instrument, NEW b \in Bar, NEW k \in Kind, NEW a \in Time,
             RecordRow(u, b, k, a), stamp' = a
      PROVE  Blocked(v, d)' = Blocked(v, d)
  <2>1. \A i \in Rows : (InForce(conflicts[i], d))' = InForce(conflicts[i], d)
    BY <1>0, <1>1, RecordStepInv, GateAssumption DEF InForce, ConflictRow, Time
  <2>2. ASSUME NEW i \in Rows' \ Rows
        PROVE  ~(InForce(conflicts[i], d))'
    <3>1. conflicts'[i] = NewRow(u, b, k, a)
      BY <1>1, RecordStepInv
    <3>2. conflicts'[i].as_of = a
      BY <3>1 DEF NewRow
    <3>3. d < a /\ d \in Nat /\ a \in Nat
      BY <1>1, GateAssumption DEF Time
    <3>4. ~((conflicts[i].as_of)' <= d)
      BY <3>2, <3>3
    <3> QED BY <3>4 DEF InForce
  <2>3. \A i \in Rows : conflicts'[i].instrument_uid = conflicts[i].instrument_uid
    BY <1>1, RecordStepInv DEF HasKey
  <2>4. Rows \subseteq Rows'
    BY <1>1, RecordStepInv
  <2> QED BY <2>1, <2>2, <2>3, <2>4 DEF Blocked, RowsOf
<1>2. ASSUME NEW id \in ConflictId, NEW a \in Time, ResolveDataConflict(id, a)
      PROVE  Blocked(v, d)' = Blocked(v, d)
  <2>0. stamp' = a
    BY <1>2 DEF ResolveDataConflict
  <2>1. (InForce(conflicts[id], d))' = InForce(conflicts[id], d)
    BY <1>0, <1>2, <2>0, ResolveStepInv, GateAssumption
       DEF InForce, ConflictRow, Time, ResolutionTime, GateInv, OneOpenPerKey
  <2>2. \A i \in Rows : (InForce(conflicts[i], d))' = InForce(conflicts[i], d)
    BY <1>2, <2>1, ResolveStepInv DEF InForce
  <2>3. \A i \in Rows : conflicts'[i].instrument_uid = conflicts[i].instrument_uid
    BY <1>2, ResolveStepInv DEF HasKey
  <2>4. Rows = Rows'
    BY <1>2, ResolveStepInv
  <2> QED BY <2>2, <2>3, <2>4 DEF Blocked, RowsOf
<1> QED
  BY <1>1, <1>2 DEF Next, GateNext, RecordDataConflict, RecordPersistentDataConflict

\* A write stamped a leaves every as-of decision before a as it was.
THEOREM GateHistoryAlwaysKept == Spec => GateHistoryKept
<1> DEFINE Kept == \A u \in Instrument, d \in Time : Blocked(u, d)' # Blocked(u, d) => d >= stamp'
<1>1. GateInv /\ [Next]_vars => [Kept]_vars
  BY GateHistoryStep
<1> QED BY <1>1, GateInvariant, PTL DEF Spec, GateHistoryKept

=============================================================================
