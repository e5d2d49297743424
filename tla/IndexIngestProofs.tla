--------------------------- MODULE IndexIngestProofs ---------------------------
(***************************************************************************)
(* Proofs about IndexIngest for any sessions, clock bound and versions.    *)
(* NoSilentGap speaks of the gate at the current day, so the invariant     *)
(* says what survives the days: a scanned session has a bar, or a row of   *)
(* its own that is dated at or before now.  The candles carry what makes   *)
(* the next version fresh, and the gate's own invariant comes from         *)
(* ConflictGateProofs.                                                     *)
(***************************************************************************)
EXTENDS IndexIngest, WellFoundedInduction, TLAPS

GateProofs == INSTANCE ConflictGateProofs WITH
    Instrument <- Index, Bar <- Day, Kind <- {"missing_bar"}, MaxTime <- LastDay

-----------------------------------------------------------------------------
(* The largest and the smallest of a set of days or versions exist. *)

Less == {ss \in Nat \X Nat : ss[1] < ss[2]}

\* A nonempty set of natural numbers has a smallest element.
LEMMA HasSmallest ==
  ASSUME NEW T, T \subseteq Nat, T # {}
  PROVE  \E x \in T : \A y \in T : x <= y
<1>1. IsWellFoundedOn(Less, Nat)
  <2>1. Less = OpToRel(<, Nat)
    BY DEF Less, OpToRel
  <2> QED BY <2>1, NatLessThanWellFounded
<1>2. PICK x \in T : \A y \in T : ~(<<y, x>> \in Less)
  BY <1>1, WFMin
<1>3. ASSUME NEW y \in T PROVE x <= y
  <2>1. x \in Nat /\ y \in Nat /\ ~(<<y, x>> \in Less)
    BY <1>2
  <2>2. ~(y < x)
    BY <2>1 DEF Less
  <2> QED BY <2>1, <2>2
<1> QED BY <1>3

\* A nonempty bounded one has a largest.
LEMMA HasLargest ==
  ASSUME NEW N \in Nat, NEW T, T \subseteq 0..N, T # {}
  PROVE  \E x \in T : \A y \in T : x >= y
<1> DEFINE D == {N - x : x \in T}
<1>1. PICK d \in D : \A e \in D : d <= e
  <2>1. ASSUME NEW x \in T PROVE N - x \in Nat
    <3>1. x \in 0..N
      OBVIOUS
    <3> QED BY <3>1
  <2>2. D \subseteq Nat /\ D # {}
    BY <2>1
  <2> HIDE DEF D
  <2> QED BY <2>2, HasSmallest
<1>2. PICK x \in T : d = N - x
  BY <1>1
<1>3. ASSUME NEW y \in T PROVE x >= y
  <2>1. d <= N - y
    BY <1>1
  <2>2. x \in 0..N /\ y \in 0..N
    OBVIOUS
  <2> QED BY <1>2, <2>1, <2>2
<1> QED BY <1>3

\* So the choices of the model pick them.
LEMMA LargestIs ==
  ASSUME NEW N \in Nat, NEW T, T \subseteq 0..N, T # {}
  PROVE  Largest(T) \in T /\ \A y \in T : y <= Largest(T)
<1>1. \E x \in T : \A y \in T : x >= y
  BY HasLargest
<1>2. Largest(T) \in T /\ \A y \in T : Largest(T) >= y
  BY <1>1 DEF Largest
<1>3. ASSUME NEW y \in T PROVE y <= Largest(T)
  <2>1. y \in 0..N /\ Largest(T) \in 0..N /\ Largest(T) >= y
    BY <1>2
  <2> QED BY <2>1
<1> QED BY <1>2, <1>3

\* The same of the smallest, for the first day of a fetch or of a calendar.
LEMMA SmallestIs ==
  ASSUME NEW T, T \subseteq Nat, T # {}
  PROVE  Smallest(T) \in T /\ \A y \in T : Smallest(T) <= y
<1>1. \E x \in T : \A y \in T : x <= y
  BY HasSmallest
<1> QED BY <1>1 DEF Smallest

-----------------------------------------------------------------------------
(* The gate as the store, the ingest and its proofs name it. *)

\* Its assumptions are among this module's.
LEMMA GateAssumed == GateProofs!GateAssumption
<1>1. Gate!Time = GateProofs!Time
  BY DEF Gate!Time, GateProofs!Time
<1>2. Gate!ConflictRow = GateProofs!ConflictRow
  BY <1>1 DEF Gate!ConflictRow, GateProofs!ConflictRow
<1> QED BY <1>2, IngestAssumption DEF Gate!GateAssumption, GateProofs!GateAssumption

\* The instances agree on state and queries,
LEMMA SameGate ==
  /\ Store!Gate!TypeOK <=> GateProofs!TypeOK
  /\ Store!Gate!Init <=> GateProofs!Init
  /\ GateProofs!Time = 0..LastDay
  /\ Gate!Rows = GateProofs!Rows
  /\ \A id : Gate!Open(id) <=> GateProofs!Open(id)
  /\ \A u : Gate!RowsOf(u) = GateProofs!RowsOf(u)
  /\ \A u, b, k : Gate!OpenIds(u, b, k) = GateProofs!OpenIds(u, b, k)
  /\ \A u, b, k, a : Gate!NewRow(u, b, k, a) = GateProofs!NewRow(u, b, k, a)
  /\ \A b, a : Gate!Earliest(b, a) = GateProofs!Earliest(b, a)
<1>1. Store!Gate!Time = GateProofs!Time /\ GateProofs!Time = 0..LastDay
  BY DEF Store!Gate!Time, GateProofs!Time
<1>2. Store!Gate!ConflictRow = GateProofs!ConflictRow
  BY <1>1 DEF Store!Gate!ConflictRow, GateProofs!ConflictRow
<1>3. (Store!Gate!TypeOK <=> GateProofs!TypeOK) /\ (Store!Gate!Init <=> GateProofs!Init)
  BY <1>1, <1>2
     DEF Store!Gate!TypeOK, GateProofs!TypeOK, Store!Gate!Init, GateProofs!Init
<1>4. Gate!Rows = GateProofs!Rows
  BY DEF Gate!Rows, GateProofs!Rows
<1>5. \A id : Gate!Open(id) <=> GateProofs!Open(id)
  BY <1>4 DEF Gate!Open, GateProofs!Open
<1>6. \A u : Gate!RowsOf(u) = GateProofs!RowsOf(u)
  BY <1>4 DEF Gate!RowsOf, GateProofs!RowsOf
<1>7. \A u, b, k : Gate!OpenIds(u, b, k) = GateProofs!OpenIds(u, b, k)
  BY <1>4, <1>5 DEF Gate!OpenIds, GateProofs!OpenIds, Gate!HasKey, GateProofs!HasKey
<1>8. \A u, b, k, a : Gate!NewRow(u, b, k, a) = GateProofs!NewRow(u, b, k, a)
  BY DEF Gate!NewRow, GateProofs!NewRow
<1>9. \A b, a : Gate!Earliest(b, a) = GateProofs!Earliest(b, a)
  BY DEF Gate!Earliest, GateProofs!Earliest
<1> QED BY <1>1, <1>3, <1>4, <1>5, <1>6, <1>7, <1>8, <1>9

\* and on the writes of other users.
LEMMA SameWrites ==
  /\ \A u, b, k, a : Gate!RecordPersistentDataConflict(u, b, k, a)
                       <=> GateProofs!RecordPersistentDataConflict(u, b, k, a)
  /\ \A id, a : Gate!ResolveDataConflict(id, a) <=> GateProofs!ResolveDataConflict(id, a)
<1>1. ASSUME NEW u, NEW b, NEW k, NEW a
      PROVE  Gate!RecordRow(u, b, k, a) <=> GateProofs!RecordRow(u, b, k, a)
  BY SameGate DEF Gate!RecordRow, GateProofs!RecordRow
<1>2. \A id, a : Gate!ResolutionTime(id, a) = GateProofs!ResolutionTime(id, a)
  BY DEF Gate!ResolutionTime, GateProofs!ResolutionTime
<1>3. ASSUME NEW id, NEW a
      PROVE  Gate!ResolveDataConflict(id, a) <=> GateProofs!ResolveDataConflict(id, a)
  BY SameGate, <1>2 DEF Gate!ResolveDataConflict, GateProofs!ResolveDataConflict
<1>4. ASSUME NEW u, NEW b, NEW k, NEW a
      PROVE  Gate!RecordPersistentDataConflict(u, b, k, a)
               <=> GateProofs!RecordPersistentDataConflict(u, b, k, a)
  BY <1>1 DEF Gate!RecordPersistentDataConflict, GateProofs!RecordPersistentDataConflict
<1> QED BY <1>3, <1>4

-----------------------------------------------------------------------------
(* The invariant. *)

\* Candles are stamped no later than now, complete only after their session's day, and a
\* version counts as loaded only if it has a bar.
CandleInv ==
    /\ \A c \in candles : c.as_of <= now /\ (c.is_complete => c.ts < c.as_of)
    /\ VersionsFollowTime
    /\ \A u \in Index, v \in 1..MaxVersion :
          /\ loads[u][v] <= 1
          /\ loads[u][v] > 0 => \E c \in RowsOf(u) : c.source_version = v

ConflictInv ==
    /\ GateProofs!GateInv
    /\ \A id \in GateProofs!Rows : conflicts[id].as_of <= now

\* The row that stands for a missing bar, open or resolved.
GapRow(id, u, d) ==
    /\ id \in GateProofs!Rows
    /\ conflicts[id].instrument_uid = u
    /\ conflicts[id].ts = d
    /\ conflicts[id].kind = "missing_bar"

GapInv ==
    \A p \in scanned :
        \/ \E c \in RowsOf(p[1]) : c.ts = p[2]
        \/ \E id \in ConflictId : GapRow(id, p[1], p[2])

IngestInv == TypeOK /\ CandleInv /\ ConflictInv /\ GapInv

\* What no write does to a conflict: delete it or give it another key.
RowsKept ==
    \A id \in GateProofs!Rows :
        /\ id \in GateProofs!Rows'
        /\ conflicts'[id].instrument_uid = conflicts[id].instrument_uid
        /\ conflicts'[id].ts = conflicts[id].ts
        /\ conflicts'[id].kind = conflicts[id].kind

\* The types of what a proof looks at.
LEMMA IngestTypes ==
  ASSUME TypeOK
  PROVE  /\ now \in Day /\ now \in Nat /\ Day \subseteq Nat /\ Day \subseteq 0..LastDay
         /\ \A c \in candles : /\ c.instrument_uid \in Index /\ c.ts \in Day
                              /\ c.source_version \in 1..MaxVersion
                              /\ c.as_of \in 0..LastDay /\ c.as_of \in Nat
                              /\ c.is_complete \in BOOLEAN
         /\ candles \subseteq Store!CandleRow
         /\ GateProofs!TypeOK
         /\ loads \in [Index -> [1..MaxVersion -> Nat]]
<1>1. now \in Day /\ now \in Nat /\ Day \subseteq Nat /\ Day \subseteq 0..LastDay
  BY IngestAssumption DEF TypeOK, Day
<1>2. candles \subseteq Store!CandleRow /\ GateProofs!TypeOK
  BY SameGate DEF TypeOK, Store!TypeOK
<1>3. Store!Time = 0..LastDay /\ 0..LastDay \subseteq Nat
  BY IngestAssumption DEF Store!Time
<1>4. ASSUME NEW c \in candles
      PROVE  /\ c.instrument_uid \in Index /\ c.ts \in Day
             /\ c.source_version \in 1..MaxVersion
             /\ c.as_of \in 0..LastDay /\ c.as_of \in Nat
             /\ c.is_complete \in BOOLEAN
  BY <1>2, <1>3 DEF Store!CandleRow
<1> QED BY <1>1, <1>2, <1>4 DEF TypeOK

\* Nothing is stored, recorded or scanned at first.
LEMMA IngestInvInit == Init => IngestInv
<1> SUFFICES ASSUME Init PROVE IngestInv
  OBVIOUS
<1>1. GateProofs!Init /\ candles = {}
  BY SameGate DEF Init, Store!Init
<1>2. GateProofs!GateInv /\ GateProofs!Rows = {}
  <2>1. GateProofs!GateInv
    BY <1>1, GateAssumed, GateProofs!GateInvInit
  <2> QED BY <1>1, <2>1 DEF GateProofs!Init, GateProofs!Rows
<1>3. TypeOK
  <2>1. Store!TypeOK
    BY <1>1, <1>2, SameGate DEF Store!TypeOK, GateProofs!GateInv
  <2>2. now \in Day /\ loads \in [Index -> [1..MaxVersion -> Nat]]
    <3>1. now = 1 /\ loads = [u \in Index |-> [v \in 1..MaxVersion |-> 0]]
      BY DEF Init
    <3> QED BY <3>1, IngestAssumption DEF Day
  <2> QED BY <2>1, <2>2 DEF TypeOK, Init
<1> QED BY <1>1, <1>2, <1>3 DEF IngestInv, CandleInv, ConflictInv, GapInv, Init, VersionsFollowTime

-----------------------------------------------------------------------------
(* The candles of a load. *)

\* The next version is above every version of the series.
LEMMA NextVersionIsFresh ==
  ASSUME TypeOK, NEW u \in Index, NextSourceVersion(u) <= MaxVersion
  PROVE  /\ NextSourceVersion(u) \in 1..MaxVersion
         /\ \A c \in RowsOf(u) : c.source_version < NextSourceVersion(u)
<1> DEFINE V == {0} \cup {c.source_version : c \in RowsOf(u)}
<1>1. \A c \in RowsOf(u) : c.source_version \in 1..MaxVersion
  BY IngestTypes DEF RowsOf
<1>2. V \subseteq 0..MaxVersion /\ V # {}
  BY <1>1, IngestAssumption
<1>3. Largest(V) \in V /\ \A v \in V : v <= Largest(V)
  <2> HIDE DEF V
  <2> QED BY <1>2, LargestIs, IngestAssumption
<1>4. Largest(V) \in 0..MaxVersion /\ NextSourceVersion(u) = Largest(V) + 1
  BY <1>2, <1>3 DEF NextSourceVersion
<1>5. NextSourceVersion(u) \in 1..MaxVersion
  BY <1>4, IngestAssumption
<1>6. ASSUME NEW c \in RowsOf(u) PROVE c.source_version < NextSourceVersion(u)
  <2>1. c.source_version <= Largest(V) /\ c.source_version \in 1..MaxVersion
    BY <1>1, <1>3
  <2> QED BY <1>4, <2>1
<1> QED BY <1>5, <1>6

SnapshotRow(u, d, version) ==
    [instrument_uid |-> u, ts |-> d, source_version |-> version,
     is_complete |-> IsComplete(d), is_stale |-> FALSE, as_of |-> now]

\* Storing a load, or the first bars of one, under the next version.
LEMMA StoreBarsInv ==
  ASSUME TypeOK, CandleInv, NEW u \in Index, NEW days \in SUBSET Day, days # {},
         NextSourceVersion(u) <= MaxVersion, StoreBars(u, days, NextSourceVersion(u)),
         now' = now
  PROVE  /\ candles' \subseteq Store!CandleRow
         /\ loads' \in [Index -> [1..MaxVersion -> Nat]]
         /\ CandleInv'
         /\ candles \subseteq candles'
         /\ \A d \in days : \E c \in RowsOf(u)' : c.ts = d
<1> DEFINE v == NextSourceVersion(u)
           rows == Snapshots(u, days, v)
<1>1. v \in 1..MaxVersion /\ \A c \in RowsOf(u) : c.source_version < v
  BY NextVersionIsFresh
<1> HIDE DEF v
<1>2. candles' = candles \cup rows /\ loads' = [loads EXCEPT ![u][v] = @ + 1]
  BY DEF StoreBars, v
<1>3. ASSUME NEW c \in rows
      PROVE  /\ c \in Store!CandleRow /\ c.instrument_uid = u /\ c.ts \in days
             /\ c.source_version = v /\ c.as_of = now
             /\ c.is_complete => c.ts < now
  <2>1. PICK d \in days : c = SnapshotRow(u, d, v)
    BY DEF Snapshots, SnapshotRow
  <2>2. now \in Store!Time /\ IsComplete(d) \in BOOLEAN
    BY IngestTypes DEF Store!Time, IsComplete
  <2>3. c \in Store!CandleRow
    BY <1>1, <2>1, <2>2 DEF SnapshotRow, Store!CandleRow
  <2>4. /\ c.instrument_uid = u /\ c.ts = d /\ c.source_version = v /\ c.as_of = now
        /\ c.is_complete = IsComplete(d)
    BY <2>1 DEF SnapshotRow
  <2> QED BY <2>3, <2>4 DEF IsComplete
<1>4. ASSUME NEW d \in days PROVE \E c \in rows : c.ts = d
  <2>1. SnapshotRow(u, d, v) \in rows
    BY DEF Snapshots, SnapshotRow
  <2>2. SnapshotRow(u, d, v).ts = d
    BY DEF SnapshotRow
  <2> QED BY <2>1, <2>2
<1> HIDE DEF rows
<1>5. \A d \in days : \E c \in RowsOf(u)' : c.ts = d
  BY <1>2, <1>3, <1>4 DEF RowsOf
<1>6. candles' \subseteq Store!CandleRow
  BY <1>2, <1>3, IngestTypes
<1>7. /\ loads' \in [Index -> [1..MaxVersion -> Nat]]
      /\ loads'[u][v] = loads[u][v] + 1
      /\ \A w \in Index, x \in 1..MaxVersion :
            w # u \/ x # v => loads'[w][x] = loads[w][x]
  <2> DEFINE f == [loads[u] EXCEPT ![v] = @ + 1]
  <2>1. loads \in [Index -> [1..MaxVersion -> Nat]] /\ loads' = [loads EXCEPT ![u] = f]
    BY <1>2, IngestTypes
  <2>2. /\ f \in [1..MaxVersion -> Nat] /\ f[v] = loads[u][v] + 1
        /\ \A x \in 1..MaxVersion : x # v => f[x] = loads[u][x]
    <3> DEFINE g == loads[u]
    <3>1. g \in [1..MaxVersion -> Nat]
      BY <2>1
    <3> HIDE DEF g
    <3>2. g[v] + 1 \in Nat
      BY <1>1, <3>1
    <3>3. [g EXCEPT ![v] = g[v] + 1] \in [1..MaxVersion -> Nat]
      BY <3>1, <3>2
    <3> QED BY <1>1, <3>1, <3>3 DEF g
  <2> HIDE DEF f
  <2> QED BY <1>1, <2>1, <2>2
<1>8. \A c \in candles' : c.as_of <= now' /\ (c.is_complete => c.ts < c.as_of)
  BY <1>2, <1>3, IngestTypes DEF CandleInv
<1>9. VersionsFollowTime'
  <2> SUFFICES ASSUME NEW c \in candles', NEW k \in candles',
                      c.instrument_uid = k.instrument_uid, c.source_version < k.source_version
               PROVE  c.as_of <= k.as_of
    BY DEF VersionsFollowTime
  <2>1. CASE c \in candles /\ k \in candles
    BY <2>1 DEF CandleInv, VersionsFollowTime
  <2>2. CASE k \in rows
    BY <1>2, <1>3, <2>2, IngestTypes DEF CandleInv
  <2>3. CASE c \in rows /\ k \in candles
    <3>1. c.source_version = v /\ k \in RowsOf(u)
      BY <1>3, <2>3 DEF RowsOf
    <3>2. k.source_version < v /\ k.source_version \in 1..MaxVersion
      BY <1>1, <2>3, <3>1, IngestTypes
    <3> QED BY <1>1, <3>1, <3>2
  <2> QED BY <1>2, <2>1, <2>2, <2>3
<1>10. ASSUME NEW w \in Index, NEW x \in 1..MaxVersion
       PROVE  /\ loads'[w][x] <= 1
              /\ loads'[w][x] > 0 => \E c \in RowsOf(w)' : c.source_version = x
  <2>1. CASE w = u /\ x = v
    <3>1. ~(loads[u][v] > 0)
      <4> SUFFICES ASSUME loads[u][v] > 0 PROVE FALSE
        OBVIOUS
      <4>1. PICK c \in RowsOf(u) : c.source_version = v
        BY <1>1 DEF CandleInv
      <4> QED BY <1>1, <4>1
    <3>2. loads[u][v] \in Nat
      BY <1>1, IngestTypes
    <3>3. \E c \in RowsOf(u)' : c.source_version = v
      <4>1. PICK d \in days : TRUE
        OBVIOUS
      <4>2. PICK c \in rows : c.ts = d
        BY <1>4
      <4> QED BY <1>2, <1>3, <4>2 DEF RowsOf
    <3> QED BY <1>7, <2>1, <3>1, <3>2, <3>3
  <2>2. CASE w # u \/ x # v
    <3>1. loads'[w][x] = loads[w][x]
      BY <1>7, <2>2
    <3> QED BY <1>2, <3>1 DEF CandleInv, RowsOf
  <2> QED BY <2>1, <2>2
<1>11. CandleInv'
  BY <1>8, <1>9, <1>10 DEF CandleInv
<1> QED BY <1>2, <1>5, <1>6, <1>7, <1>11

-----------------------------------------------------------------------------
(* The missing bars of a load. *)

Open(u, d) == GateProofs!OpenIds(u, d, "missing_bar")

\* The rows that receive the missing days without an open row.
FreshRows(row, u, days) ==
    /\ row \in [{d \in days : Open(u, d) = {}} -> ConflictId \ GateProofs!Rows]
    /\ \A d, e \in {x \in days : Open(u, x) = {}} : row[d] = row[e] => d = e

\* What RecordMissingBars does to each id.
LEMMA MissingBarRows ==
  ASSUME TypeOK, ConflictInv, NEW u \in Index, NEW days \in SUBSET Day,
         RecordMissingBars(u, days)
  PROVE  \E row :
           /\ FreshRows(row, u, days)
           /\ \A d \in days : Open(u, d) = {} =>
                conflicts'[row[d]] = GateProofs!NewRow(u, d, "missing_bar", now)
           /\ \A id \in GateProofs!Rows :
                \/ conflicts'[id] = conflicts[id]
                \/ /\ \E d \in days : id \in Open(u, d)
                   /\ conflicts'[id] = [conflicts[id] EXCEPT
                                         !.as_of = GateProofs!Earliest(conflicts[id].as_of, now)]
           /\ \A id \in ConflictId \ GateProofs!Rows :
                \/ conflicts'[id] = NoRow
                \/ \E d \in days : Open(u, d) = {} /\ row[d] = id
           /\ DOMAIN conflicts' = ConflictId
           /\ conflicts' = [id \in ConflictId |-> conflicts'[id]]
<1> DEFINE fresh == {d \in days : Gate!OpenIds(u, d, "missing_bar") = {}}
           New(row, id) ==
             IF \E d \in fresh : row[d] = id
             THEN Gate!NewRow(u, CHOOSE d \in fresh : row[d] = id, "missing_bar", now)
             ELSE IF \E d \in days : id \in Gate!OpenIds(u, d, "missing_bar")
             THEN [conflicts[id] EXCEPT !.as_of = Gate!Earliest(@, now)]
             ELSE conflicts[id]
<1>0. \E row \in [fresh -> ConflictId \ Gate!Rows] :
        /\ \A d, e \in fresh : row[d] = row[e] => d = e
        /\ conflicts' = [id \in ConflictId |-> New(row, id)]
  BY Zenon DEF RecordMissingBars
<1>1. PICK row \in [fresh -> ConflictId \ GateProofs!Rows] :
        /\ \A d, e \in fresh : row[d] = row[e] => d = e
        /\ conflicts' = [id \in ConflictId |-> New(row, id)]
  <2> HIDE DEF fresh, New
  <2> QED BY <1>0, SameGate
<1>2. fresh = {d \in days : Open(u, d) = {}} /\ FreshRows(row, u, days)
  <2>1. fresh = {d \in days : Open(u, d) = {}}
    BY SameGate DEF Open
  <2> HIDE DEF fresh, New
  <2> QED BY <1>1, <2>1 DEF FreshRows
<1>3. \A id \in ConflictId : conflicts'[id] = New(row, id)
  <2> HIDE DEF New
  <2> QED BY <1>1
<1>4. ASSUME NEW d \in days, Open(u, d) = {}
      PROVE  conflicts'[row[d]] = GateProofs!NewRow(u, d, "missing_bar", now)
  <2>1. d \in fresh /\ row[d] \in ConflictId
    BY <1>1, <1>2, <1>4
  <2>2. (CHOOSE e \in fresh : row[e] = row[d]) = d
    <3> HIDE DEF fresh
    <3> QED BY <1>1, <2>1
  <2>3. New(row, row[d]) = Gate!NewRow(u, d, "missing_bar", now)
    <3> HIDE DEF fresh
    <3> QED BY <2>1, <2>2
  <2> QED BY <1>3, <2>1, <2>3, SameGate
<1>5. ASSUME NEW id \in GateProofs!Rows
      PROVE  \/ conflicts'[id] = conflicts[id]
             \/ /\ \E d \in days : id \in Open(u, d)
                /\ conflicts'[id] = [conflicts[id] EXCEPT
                                      !.as_of = GateProofs!Earliest(conflicts[id].as_of, now)]
  <2>1. id \in ConflictId /\ ~\E d \in fresh : row[d] = id
    <3> HIDE DEF fresh
    <3> QED BY <1>1 DEF GateProofs!Rows
  <2>2. \A d : Open(u, d) = Gate!OpenIds(u, d, "missing_bar")
    BY SameGate DEF Open
  <2>3. Gate!Earliest(conflicts[id].as_of, now) = GateProofs!Earliest(conflicts[id].as_of, now)
    BY SameGate
  <2>4. \/ New(row, id) = conflicts[id]
        \/ /\ \E d \in days : id \in Open(u, d)
           /\ New(row, id) = [conflicts[id] EXCEPT
                                !.as_of = GateProofs!Earliest(conflicts[id].as_of, now)]
    <3> HIDE DEF fresh
    <3> QED BY <2>1, <2>2, <2>3
  <2> QED BY <1>3, <2>1, <2>4
<1>6. ASSUME NEW id \in ConflictId \ GateProofs!Rows
      PROVE  conflicts'[id] = NoRow \/ \E d \in days : Open(u, d) = {} /\ row[d] = id
  <2>1. conflicts[id] = NoRow /\ ~\E d \in days : id \in Gate!OpenIds(u, d, "missing_bar")
    BY SameGate DEF GateProofs!Rows, GateProofs!OpenIds
  <2>2. New(row, id) = NoRow \/ \E d \in fresh : row[d] = id
    <3> HIDE DEF fresh
    <3> QED BY <2>1
  <2> QED BY <1>2, <1>3, <2>2
<1>7. DOMAIN conflicts' = ConflictId /\ conflicts' = [id \in ConflictId |-> conflicts'[id]]
  BY <1>1
<1> HIDE DEF fresh, New
<1> QED BY <1>2, <1>4, <1>5, <1>6, <1>7

\* What the open rows and the marker need is kept, and every missing day has its row.
LEMMA RecordMissingBarsInv ==
  ASSUME TypeOK, ConflictInv, NEW u \in Index, NEW days \in SUBSET Day,
         RecordMissingBars(u, days),
         UNCHANGED <<data_status, skips, now>>, stamp' = now
  PROVE  /\ ConflictInv'
         /\ RowsKept
         /\ \A d \in days : \E id \in ConflictId : GapRow(id, u, d)'
<1> USE IngestTypes, GateAssumed
<1>0. /\ GateProofs!GateInv
      /\ conflicts \in [ConflictId -> GateProofs!ConflictRow \cup {NoRow}]
      /\ \A id \in GateProofs!Rows : id \in ConflictId /\ conflicts[id] \in GateProofs!ConflictRow
      /\ GateProofs!Time \subseteq Nat /\ now \in GateProofs!Time
      /\ NoRow \notin GateProofs!ConflictRow
  BY SameGate, IngestAssumption
     DEF ConflictInv, GateProofs!TypeOK, GateProofs!Rows, GateProofs!GateAssumption
<1>1. PICK row :
        /\ FreshRows(row, u, days)
        /\ \A d \in days : Open(u, d) = {} =>
             conflicts'[row[d]] = GateProofs!NewRow(u, d, "missing_bar", now)
        /\ \A id \in GateProofs!Rows :
             \/ conflicts'[id] = conflicts[id]
             \/ /\ \E d \in days : id \in Open(u, d)
                /\ conflicts'[id] = [conflicts[id] EXCEPT
                                      !.as_of = GateProofs!Earliest(conflicts[id].as_of, now)]
        /\ \A id \in ConflictId \ GateProofs!Rows :
             \/ conflicts'[id] = NoRow
             \/ \E d \in days : Open(u, d) = {} /\ row[d] = id
        /\ DOMAIN conflicts' = ConflictId
        /\ conflicts' = [id \in ConflictId |-> conflicts'[id]]
  BY MissingBarRows
\* A new row.
<1>2. ASSUME NEW d \in days, Open(u, d) = {}
      PROVE  /\ row[d] \in ConflictId \ GateProofs!Rows
             /\ conflicts'[row[d]] \in GateProofs!ConflictRow
             /\ conflicts'[row[d]].instrument_uid = u /\ conflicts'[row[d]].ts = d
             /\ conflicts'[row[d]].kind = "missing_bar"
             /\ conflicts'[row[d]].resolved = FALSE
             /\ conflicts'[row[d]].resolved_as_of = NULL
             /\ conflicts'[row[d]].as_of = now
  <2>1. row[d] \in ConflictId \ GateProofs!Rows
    BY <1>1, <1>2 DEF FreshRows
  <2>2. conflicts'[row[d]] = GateProofs!NewRow(u, d, "missing_bar", now) /\ d \in Day
    BY <1>1, <1>2
  <2> QED BY <1>0, <2>1, <2>2 DEF GateProofs!NewRow, GateProofs!ConflictRow
\* An old row.
<1>3. ASSUME NEW id \in GateProofs!Rows
      PROVE  /\ conflicts'[id] \in GateProofs!ConflictRow
             /\ conflicts'[id].instrument_uid = conflicts[id].instrument_uid
             /\ conflicts'[id].ts = conflicts[id].ts
             /\ conflicts'[id].kind = conflicts[id].kind
             /\ conflicts'[id].resolved = conflicts[id].resolved
             /\ conflicts'[id].resolved_as_of = conflicts[id].resolved_as_of
             /\ conflicts'[id].as_of <= conflicts[id].as_of
  <2>1. conflicts[id] \in GateProofs!ConflictRow /\ conflicts[id].as_of \in Nat
    BY <1>0 DEF GateProofs!ConflictRow
  <2>2. CASE conflicts'[id] = conflicts[id]
    BY <2>1, <2>2
  <2>3. CASE conflicts'[id] = [conflicts[id] EXCEPT
                                !.as_of = GateProofs!Earliest(conflicts[id].as_of, now)]
    <3> DEFINE a == GateProofs!Earliest(conflicts[id].as_of, now)
    <3>1. a \in GateProofs!Time /\ a <= conflicts[id].as_of
      BY <1>0, <2>1 DEF GateProofs!Earliest, GateProofs!ConflictRow
    <3> HIDE DEF a
    <3> QED BY <2>1, <2>3, <3>1 DEF GateProofs!ConflictRow, a
  <2> QED BY <1>1, <2>2, <2>3
<1>4. /\ GateProofs!Rows \subseteq GateProofs!Rows'
      /\ \A id \in GateProofs!Rows' :
           id \in GateProofs!Rows \/ \E d \in days : Open(u, d) = {} /\ row[d] = id
      /\ \A d \in days : Open(u, d) = {} => row[d] \in GateProofs!Rows'
  <2>1. ASSUME NEW id \in GateProofs!Rows PROVE id \in GateProofs!Rows'
    BY <1>0, <1>3 DEF GateProofs!Rows
  <2>2. ASSUME NEW id \in GateProofs!Rows', id \notin GateProofs!Rows
        PROVE  \E d \in days : Open(u, d) = {} /\ row[d] = id
    <3>1. id \in ConflictId \ GateProofs!Rows /\ conflicts'[id] # NoRow
      BY <2>2 DEF GateProofs!Rows
    <3> QED BY <1>1, <3>1
  <2>3. ASSUME NEW d \in days, Open(u, d) = {} PROVE row[d] \in GateProofs!Rows'
    BY <1>0, <1>2, <2>3 DEF GateProofs!Rows
  <2> QED BY <2>1, <2>2, <2>3
<1>5. RowsKept
  BY <1>3, <1>4 DEF RowsKept
<1>6. \A d \in days : \E id \in ConflictId : GapRow(id, u, d)'
  <2> SUFFICES ASSUME NEW d \in days PROVE \E id \in ConflictId : GapRow(id, u, d)'
    OBVIOUS
  <2>1. CASE Open(u, d) = {}
    BY <1>2, <1>4, <2>1 DEF GapRow
  <2>2. CASE Open(u, d) # {}
    <3>1. PICK id \in GateProofs!Rows : GateProofs!HasKey(conflicts[id], u, d, "missing_bar")
      BY <2>2 DEF Open, GateProofs!OpenIds
    <3> QED BY <1>0, <1>3, <1>4, <3>1 DEF GapRow, GateProofs!HasKey
  <2> QED BY <2>1, <2>2
<1>7. GateProofs!TypeOK'
  <2>1. ASSUME NEW id \in ConflictId
        PROVE  conflicts'[id] \in GateProofs!ConflictRow \cup {NoRow}
    <3>1. CASE id \in GateProofs!Rows
      BY <1>3, <3>1
    <3>2. CASE id \notin GateProofs!Rows
      BY <1>1, <1>2, <3>2
    <3> QED BY <3>1, <3>2
  <2>2. conflicts' \in [ConflictId -> GateProofs!ConflictRow \cup {NoRow}]
    BY <1>1, <2>1
  <2> QED BY <1>0, <2>2 DEF GateProofs!TypeOK, GateProofs!GateInv
<1>8. GateProofs!OneOpenPerKey'
  <2>1. ASSUME NEW i \in GateProofs!Rows', NEW j \in GateProofs!Rows',
               GateProofs!Open(i)', GateProofs!Open(j)',
               GateProofs!HasKey(conflicts'[i], conflicts'[j].instrument_uid,
                                 conflicts'[j].ts, conflicts'[j].kind)
        PROVE  i = j
    <3>1. ASSUME NEW x \in GateProofs!Rows, NEW d \in days, Open(u, d) = {}, GateProofs!Open(x)',
                 conflicts'[x].instrument_uid = u, conflicts'[x].ts = d,
                 conflicts'[x].kind = "missing_bar"
          PROVE  FALSE
      <4>1. GateProofs!Open(x)
        BY <1>3, <3>1 DEF GateProofs!Open
      <4> QED BY <1>3, <3>1, <4>1 DEF Open, GateProofs!OpenIds, GateProofs!HasKey
    <3>2. CASE i \in GateProofs!Rows /\ j \in GateProofs!Rows
      <4>1. GateProofs!Open(i) /\ GateProofs!Open(j)
        BY <1>3, <2>1, <3>2 DEF GateProofs!Open
      <4>2. GateProofs!HasKey(conflicts[i], conflicts[j].instrument_uid,
                              conflicts[j].ts, conflicts[j].kind)
        BY <1>3, <2>1, <3>2 DEF GateProofs!HasKey
      <4> QED BY <1>0, <3>2, <4>1, <4>2 DEF GateProofs!GateInv, GateProofs!OneOpenPerKey
    <3>3. CASE i \notin GateProofs!Rows
      <4>1. PICK d \in days : Open(u, d) = {} /\ row[d] = i
        BY <1>4, <3>3
      <4>2. conflicts'[j].instrument_uid = u /\ conflicts'[j].ts = d
            /\ conflicts'[j].kind = "missing_bar"
        BY <1>2, <2>1, <4>1 DEF GateProofs!HasKey
      <4>3. PICK e \in days : Open(u, e) = {} /\ row[e] = j
        BY <1>4, <2>1, <3>1, <4>1, <4>2
      <4> QED BY <1>2, <4>1, <4>2, <4>3
    <3>4. CASE i \in GateProofs!Rows /\ j \notin GateProofs!Rows
      <4>1. PICK d \in days : Open(u, d) = {} /\ row[d] = j
        BY <1>4, <3>4
      <4>2. conflicts'[i].instrument_uid = u /\ conflicts'[i].ts = d
            /\ conflicts'[i].kind = "missing_bar"
        BY <1>2, <2>1, <4>1 DEF GateProofs!HasKey
      <4> QED BY <2>1, <3>1, <3>4, <4>1, <4>2
    <3> QED BY <3>2, <3>3, <3>4
  <2>2. ASSUME NEW i \in GateProofs!Rows'
        PROVE  IF conflicts'[i].resolved
                 THEN conflicts'[i].resolved_as_of \in GateProofs!Time
                      /\ conflicts'[i].resolved_as_of >= conflicts'[i].as_of
                 ELSE conflicts'[i].resolved_as_of = NULL
    <3>1. CASE i \in GateProofs!Rows
      <4>1. IF conflicts[i].resolved
              THEN conflicts[i].resolved_as_of \in GateProofs!Time
                   /\ conflicts[i].resolved_as_of >= conflicts[i].as_of
              ELSE conflicts[i].resolved_as_of = NULL
        BY <1>0, <3>1 DEF GateProofs!GateInv, GateProofs!OneOpenPerKey
      <4>2. conflicts[i].as_of \in Nat /\ conflicts'[i].as_of \in Nat
        BY <1>0, <1>3, <3>1 DEF GateProofs!ConflictRow
      <4>3. /\ conflicts'[i].resolved = conflicts[i].resolved
            /\ conflicts'[i].resolved_as_of = conflicts[i].resolved_as_of
            /\ conflicts'[i].as_of <= conflicts[i].as_of
        BY <1>3, <3>1
      <4>4. ASSUME NEW x \in GateProofs!Time, NEW a \in Nat, NEW b \in Nat, x >= a, b <= a
            PROVE  x >= b
        BY <1>0, <4>4
      <4> QED BY <4>1, <4>2, <4>3, <4>4
    <3>2. CASE i \notin GateProofs!Rows
      <4>1. PICK d \in days : Open(u, d) = {} /\ row[d] = i
        BY <1>4, <3>2
      <4>2. conflicts'[i].resolved = FALSE /\ conflicts'[i].resolved_as_of = NULL
        BY <1>2, <4>1
      <4> QED BY <4>2
    <3> QED BY <3>1, <3>2
  <2> QED BY <2>1, <2>2 DEF GateProofs!OneOpenPerKey, GateProofs!Time
<1>9. GateProofs!OpenRowBehindMarker' /\ GateProofs!SkipsJustified'
  BY <1>0, <1>3, <1>4
     DEF GateProofs!GateInv, GateProofs!OpenRowBehindMarker, GateProofs!SkipsJustified,
         GateProofs!RowsOf
<1>10. \A id \in GateProofs!Rows' : conflicts'[id].as_of <= now'
  <2> SUFFICES ASSUME NEW id \in GateProofs!Rows' PROVE conflicts'[id].as_of <= now
    OBVIOUS
  <2>1. CASE id \in GateProofs!Rows
    <3>1. conflicts[id].as_of \in Nat /\ conflicts'[id].as_of \in Nat /\ conflicts[id].as_of <= now
      BY <1>0, <1>3, <2>1 DEF GateProofs!ConflictRow, ConflictInv
    <3> QED BY <1>3, <2>1, <3>1
  <2>2. CASE id \notin GateProofs!Rows
    <3>1. PICK d \in days : Open(u, d) = {} /\ row[d] = id
      BY <1>4, <2>2
    <3>2. conflicts'[id].as_of = now
      BY <1>2, <3>1
    <3> QED BY <3>2
  <2> QED BY <2>1, <2>2
<1> QED BY <1>5, <1>6, <1>7, <1>8, <1>9, <1>10 DEF ConflictInv, GateProofs!GateInv

-----------------------------------------------------------------------------
(* The scan and the steps. *)

\* What a load answers for it has scanned: the refusal bounds the finalized window by the
\* calendar's first day and by its coverage, and between the two a truthful calendar lacks
\* no session that is over.
LEMMA ScanIsComplete ==
  ASSUME TypeOK, NEW window \in Window \cup {NULL}, NEW fetch \in SUBSET Day, fetch # {},
         NEW calendar \in Calendars, NEW coverage \in Day,
         calendar # {} => CalendarCovers(fetch, window, calendar, coverage),
         NEW s \in AnsweredFor(fetch, window, calendar, coverage)
  PROVE  s \in ScanDays(fetch, window, calendar)
<1> DEFINE start == ScanStart(fetch, window)
           end == ScanEnd(fetch, window)
           final == FinalizedEnd(fetch, window)
<1> SUFFICES ASSUME calendar # {}, Truthful(calendar, coverage),
                    s \in Session, start <= s, s <= final
             PROVE  s \in ScanDays(fetch, window, calendar)
  BY DEF AnsweredFor
<1>1. Day \subseteq Nat /\ Day \subseteq 0..LastDay /\ s \in Nat /\ now \in Nat
      /\ LastDay \in Nat /\ coverage \in Nat
  BY IngestTypes, IngestAssumption
<1>2. /\ fetch \subseteq Nat /\ fetch \subseteq 0..LastDay /\ calendar \subseteq Nat
  BY <1>1, IngestAssumption DEF Calendars
<1>3. start \in Nat
  <2>1. CASE window = NULL
    BY <1>2, <2>1, SmallestIs DEF ScanStart
  <2>2. CASE window # NULL
    BY <1>1, <2>2 DEF ScanStart, Window
  <2> QED BY <2>1, <2>2
<1>4. end \in Nat
  <2>1. CASE window = NULL
    BY <1>1, <1>2, <2>1, LargestIs DEF ScanEnd
  <2>2. CASE window # NULL
    BY <1>1, <2>2 DEF ScanEnd, Window
  <2> QED BY <2>1, <2>2
<1>5. final \in Int /\ final <= now - 1
  <2> HIDE DEF end
  <2>1. final = IF end <= now - 1 THEN end ELSE now - 1
    BY DEF FinalizedEnd, end
  <2> HIDE DEF final
  <2> QED BY <1>1, <1>4, <2>1
<1>6. Smallest(calendar) \in Nat
  BY <1>2, SmallestIs
<1>7. final >= start => Smallest(calendar) <= start /\ coverage >= final
  BY DEF CalendarCovers
<1>8. Smallest(calendar) <= s /\ s <= coverage /\ s < now
  <2> HIDE DEF start, final
  <2> QED BY <1>1, <1>3, <1>5, <1>6, <1>7
<1>9. s \in calendar
  BY <1>8 DEF Truthful
<1> QED BY <1>9 DEF ScanDays

\* A session explained before a write is explained after it.
LEMMA GapKept ==
  ASSUME RowsKept, candles \subseteq candles', NEW u, NEW d,
         \/ \E c \in RowsOf(u) : c.ts = d
         \/ \E id \in ConflictId : GapRow(id, u, d)
  PROVE  \/ \E c \in RowsOf(u)' : c.ts = d
         \/ \E id \in ConflictId : GapRow(id, u, d)'
<1>1. CASE \E c \in RowsOf(u) : c.ts = d
  BY <1>1 DEF RowsOf
<1>2. CASE \E id \in ConflictId : GapRow(id, u, d)
  BY <1>2 DEF RowsKept, GapRow
<1> QED BY <1>1, <1>2

\* So a write that scans nothing keeps every scanned session explained.
LEMMA GapsKept ==
  ASSUME GapInv, RowsKept, candles \subseteq candles', scanned' = scanned
  PROVE  GapInv'
<1> SUFFICES ASSUME NEW p \in scanned
             PROVE  \/ \E c \in RowsOf(p[1])' : c.ts = p[2]
                    \/ \E id \in ConflictId : GapRow(id, p[1], p[2])'
  BY DEF GapInv, GapRow, RowsOf
<1> DEFINE w == p[1]
           d == p[2]
<1>1. \/ \E c \in RowsOf(w) : c.ts = d
      \/ \E id \in ConflictId : GapRow(id, w, d)
  BY DEF GapInv
<1> HIDE DEF w, d
<1>2. \/ \E c \in RowsOf(w)' : c.ts = d
      \/ \E id \in ConflictId : GapRow(id, w, d)'
  BY <1>1, GapKept
<1> QED BY <1>2 DEF w, d

\* The store's type follows from the gate's and the candles'.
LEMMA StoreTyped ==
  ASSUME GateProofs!TypeOK', candles' \subseteq Store!CandleRow
  PROVE  Store!TypeOK'
<1>1. Store!Gate!TypeOK'
  BY DEF Store!Gate!TypeOK, GateProofs!TypeOK, Store!Gate!Time, GateProofs!Time,
         Store!Gate!ConflictRow, GateProofs!ConflictRow
<1>2. Store!CandleRow' = Store!CandleRow
  BY DEF Store!CandleRow, Store!Time
<1> QED BY <1>1, <1>2 DEF Store!TypeOK

\* A load that passes its checks.
LEMMA IngestStep ==
  ASSUME IngestInv, NEW u \in Index, NEW window, NEW fetch \in SUBSET Day,
         NEW calendar \in Calendars, NEW coverage,
         AnsweredFor(fetch, window, calendar, coverage)
           \subseteq ScanDays(fetch, window, calendar),
         Ingest(u, fetch, window, calendar, coverage)
  PROVE  IngestInv'
<1> DEFINE missing == ExpectedMissing(fetch, window, calendar)
           seen == AnsweredFor(fetch, window, calendar, coverage)
<1>1. /\ fetch # {} /\ NextSourceVersion(u) <= MaxVersion
      /\ StoreBars(u, fetch, NextSourceVersion(u)) /\ RecordMissingBars(u, missing)
      /\ scanned' = scanned \cup ({u} \X seen)
      /\ stamp' = now /\ UNCHANGED <<data_status, skips, now, partial>>
  BY Zenon DEF Ingest
<1>2. missing \in SUBSET Day /\ seen \subseteq Session
  BY IngestAssumption DEF ExpectedMissing, ScanDays, AnsweredFor, Calendars
<1>3. /\ candles' \subseteq Store!CandleRow
      /\ loads' \in [Index -> [1..MaxVersion -> Nat]]
      /\ CandleInv'
      /\ candles \subseteq candles'
      /\ \A d \in fetch : \E c \in RowsOf(u)' : c.ts = d
  BY <1>1, StoreBarsInv DEF IngestInv
<1>4. ConflictInv' /\ RowsKept /\ \A d \in missing : \E id \in ConflictId : GapRow(id, u, d)'
  <2> HIDE DEF missing
  <2> QED BY <1>1, <1>2, RecordMissingBarsInv DEF IngestInv
<1>5. GapInv'
  <2> SUFFICES ASSUME NEW p \in scanned'
               PROVE  \/ \E c \in RowsOf(p[1])' : c.ts = p[2]
                      \/ \E id \in ConflictId : GapRow(id, p[1], p[2])'
    BY DEF GapInv, GapRow, RowsOf
  <2>1. CASE p \in scanned
    <3> DEFINE w == p[1]
               d == p[2]
    <3>1. \/ \E c \in RowsOf(w) : c.ts = d
          \/ \E id \in ConflictId : GapRow(id, w, d)
      BY <2>1 DEF IngestInv, GapInv
    <3> HIDE DEF w, d
    <3>2. \/ \E c \in RowsOf(w)' : c.ts = d
          \/ \E id \in ConflictId : GapRow(id, w, d)'
      BY <1>3, <1>4, <3>1, GapKept
    <3> QED BY <3>2 DEF w, d
  <2>2. CASE p \notin scanned
    <3>1. p \in {u} \X seen
      BY <1>1, <2>2
    <3>2. p[1] = u /\ p[2] \in seen
      BY <3>1
    <3>3. p[2] \in ScanDays(fetch, window, calendar)
      BY <3>1, <3>2
    <3>4. p[2] \in missing \/ p[2] \in fetch
      BY <3>3 DEF ExpectedMissing
    <3> HIDE DEF missing
    <3> QED BY <1>3, <1>4, <3>2, <3>4
  <2> QED BY <2>1, <2>2
<1>6. TypeOK'
  <2>1. Store!TypeOK'
    BY <1>3, <1>4, StoreTyped DEF ConflictInv, GateProofs!GateInv
  <2>2. scanned' \subseteq Index \X Session
    BY <1>1, <1>2 DEF IngestInv, TypeOK
  <2> QED BY <1>1, <1>3, <2>1, <2>2 DEF IngestInv, TypeOK
<1> QED BY <1>3, <1>4, <1>5, <1>6 DEF IngestInv

\* A load that raises after its first bars.
LEMMA RaiseStep ==
  ASSUME IngestInv, NEW u \in Index, NEW stored \in SUBSET Day, stored # {},
         IngestRaises(u, stored)
  PROVE  IngestInv'
<1>1. /\ NextSourceVersion(u) <= MaxVersion /\ StoreBars(u, stored, NextSourceVersion(u))
      /\ partial' = partial \cup {<<u, NextSourceVersion(u)>>}
      /\ stamp' = now /\ UNCHANGED <<conflicts, data_status, skips, now, scanned>>
  BY DEF IngestRaises, gateVars
<1>2. /\ candles' \subseteq Store!CandleRow
      /\ loads' \in [Index -> [1..MaxVersion -> Nat]]
      /\ CandleInv'
      /\ candles \subseteq candles'
  BY <1>1, StoreBarsInv DEF IngestInv
<1>3. GateProofs!GateInv'
  <2>1. now \in GateProofs!Time
    BY IngestTypes, SameGate DEF IngestInv
  <2>2. GateProofs!TypeOK'
    BY <1>1, <2>1 DEF IngestInv, ConflictInv, GateProofs!GateInv, GateProofs!TypeOK
  <2> QED BY <1>1, <2>2
          DEF IngestInv, ConflictInv, GateProofs!GateInv, GateProofs!OneOpenPerKey,
              GateProofs!OpenRowBehindMarker, GateProofs!SkipsJustified, GateProofs!Open,
              GateProofs!Rows, GateProofs!RowsOf
<1>4. ConflictInv' /\ RowsKept
  BY <1>1, <1>3 DEF IngestInv, ConflictInv, RowsKept, GateProofs!Rows
<1>5. GapInv'
  BY <1>1, <1>2, <1>4, GapsKept DEF IngestInv
<1>6. TypeOK'
  <2>1. Store!TypeOK'
    BY <1>2, <1>3, StoreTyped DEF GateProofs!GateInv
  <2>2. NextSourceVersion(u) \in 1..MaxVersion
    BY <1>1, NextVersionIsFresh DEF IngestInv
  <2> QED BY <1>1, <1>2, <2>1, <2>2 DEF IngestInv, TypeOK
<1> QED BY <1>2, <1>4, <1>5, <1>6 DEF IngestInv

\* Another user's write of the gate is one of its steps, stamped now.
LEMMA OtherWriterIsGate ==
  ASSUME TypeOK, OtherWriter
  PROVE  GateProofs!Next /\ stamp' = now
<1>1. now \in GateProofs!Time
  BY IngestTypes, SameGate
<1>2. CASE \E u \in Index, b \in Session :
             Gate!RecordPersistentDataConflict(u, b, "missing_bar", now)
  <2>1. PICK u \in Index, b \in Session :
               GateProofs!RecordPersistentDataConflict(u, b, "missing_bar", now)
    BY <1>2, SameWrites
  <2>2. b \in Day /\ "missing_bar" \in {"missing_bar"}
    BY IngestAssumption
  <2> QED BY <1>1, <2>1, <2>2 DEF GateProofs!Next, GateProofs!GateNext,
                                  GateProofs!RecordPersistentDataConflict
<1>3. CASE \E id \in ConflictId : Gate!ResolveDataConflict(id, now)
  <2>1. PICK id \in ConflictId : GateProofs!ResolveDataConflict(id, now)
    BY <1>3, SameWrites
  <2> QED BY <1>1, <2>1 DEF GateProofs!Next, GateProofs!GateNext,
                            GateProofs!ResolveDataConflict
<1> QED BY <1>2, <1>3 DEF OtherWriter

\* The other users of the gate, at the current time.
LEMMA OtherWriterStep == IngestInv /\ OtherWriter => IngestInv'
<1> SUFFICES ASSUME IngestInv, OtherWriter PROVE IngestInv'
  OBVIOUS
<1>1. UNCHANGED <<candles, now, scanned, loads, partial>>
  BY DEF OtherWriter, ghostVars
<1>2. now \in GateProofs!Time /\ now \in Nat /\ GateProofs!Time \subseteq Nat
  BY IngestTypes, SameGate, IngestAssumption DEF IngestInv
<1>3. GateProofs!GateInv /\ GateProofs!GateInv'
  <2>1. GateProofs!GateInv /\ GateProofs!Next
    BY OtherWriterIsGate DEF IngestInv, ConflictInv
  <2> QED BY <2>1, GateAssumed, GateProofs!GateInvStep
<1>4. \A id \in GateProofs!Rows : conflicts[id].as_of <= now /\ conflicts[id].as_of \in Nat
  BY <1>2, <1>3
     DEF IngestInv, ConflictInv, GateProofs!GateInv, GateProofs!TypeOK, GateProofs!Rows,
         GateProofs!ConflictRow
<1>5. /\ GateProofs!GateInv' /\ RowsKept
      /\ \A id \in GateProofs!Rows' : conflicts'[id].as_of <= now
  <2>1. CASE \E u \in Index, d \in Session :
               Gate!RecordPersistentDataConflict(u, d, "missing_bar", now)
    <3>1. PICK u \in Index, d \in Session :
                 GateProofs!RecordPersistentDataConflict(u, d, "missing_bar", now)
      BY <2>1, SameWrites
    <3>2. d \in Day /\ "missing_bar" \in {"missing_bar"}
      BY IngestAssumption
    <3>3. GateProofs!RecordRow(u, d, "missing_bar", now)
      BY <3>1 DEF GateProofs!RecordPersistentDataConflict
    <3>4. /\ GateProofs!Rows \subseteq GateProofs!Rows'
          /\ \A id \in GateProofs!Rows :
               /\ GateProofs!HasKey(conflicts'[id], conflicts[id].instrument_uid,
                                    conflicts[id].ts, conflicts[id].kind)
               /\ conflicts'[id].as_of <= conflicts[id].as_of
          /\ \A id \in GateProofs!Rows' \ GateProofs!Rows :
               conflicts'[id] = GateProofs!NewRow(u, d, "missing_bar", now)
      BY <1>2, <1>3, <3>2, <3>3, GateAssumed, GateProofs!RecordStepInv
    <3>5. RowsKept
      BY <3>4 DEF RowsKept, GateProofs!HasKey
    <3>6. ASSUME NEW id \in GateProofs!Rows' PROVE conflicts'[id].as_of <= now
      <4>1. CASE id \in GateProofs!Rows
        <5>1. conflicts'[id].as_of \in Nat
          BY <1>2, <1>3 DEF GateProofs!GateInv, GateProofs!TypeOK, GateProofs!Rows,
                            GateProofs!ConflictRow
        <5> QED BY <1>2, <1>4, <3>4, <4>1, <5>1
      <4>2. CASE id \notin GateProofs!Rows
        BY <1>2, <3>4, <4>2 DEF GateProofs!NewRow
      <4> QED BY <4>1, <4>2
    <3> QED BY <1>3, <3>5, <3>6
  <2>2. CASE \E id \in ConflictId : Gate!ResolveDataConflict(id, now)
    <3>1. PICK id \in ConflictId : GateProofs!ResolveDataConflict(id, now)
      BY <2>2, SameWrites
    <3>2. /\ GateProofs!Rows' = GateProofs!Rows
          /\ \A i \in GateProofs!Rows \ {id} : conflicts'[i] = conflicts[i]
          /\ GateProofs!HasKey(conflicts'[id], conflicts[id].instrument_uid,
                               conflicts[id].ts, conflicts[id].kind)
          /\ conflicts'[id].as_of = conflicts[id].as_of
      BY <1>2, <1>3, <3>1, GateAssumed, GateProofs!ResolveStepInv
    <3>3. RowsKept
      BY <3>2 DEF RowsKept, GateProofs!HasKey
    <3>4. \A i \in GateProofs!Rows' : conflicts'[i].as_of <= now
      BY <1>4, <3>2
    <3> QED BY <1>3, <3>3, <3>4
  <2> QED BY <2>1, <2>2 DEF OtherWriter
<1>6. ConflictInv'
  BY <1>1, <1>5 DEF ConflictInv
<1>7. CandleInv'
  BY <1>1 DEF IngestInv, CandleInv, VersionsFollowTime, RowsOf
<1>8. GapInv'
  BY <1>1, <1>5, GapsKept DEF IngestInv
<1>9. TypeOK'
  <2>1. Store!TypeOK'
    BY <1>1, <1>5, StoreTyped, IngestTypes DEF IngestInv, GateProofs!GateInv
  <2> QED BY <1>1, <2>1 DEF IngestInv, TypeOK
<1> QED BY <1>6, <1>7, <1>8, <1>9 DEF IngestInv

\* A new day, or nothing.
LEMMA QuietStep ==
  ASSUME IngestInv, UNCHANGED <<storeVars, ghostVars>>, now' = now \/ NextDay
  PROVE  IngestInv'
<1>1. UNCHANGED <<conflicts, data_status, skips, stamp, candles, scanned, loads, partial>>
  BY DEF storeVars, gateVars, ghostVars
<1>2. now' \in Day /\ now' \in Nat /\ now <= now' /\ now \in Nat
  BY IngestTypes, IngestAssumption DEF IngestInv, NextDay, Day
<1>3. GateProofs!GateInv'
  BY <1>1 DEF IngestInv, ConflictInv, GateProofs!GateInv, GateProofs!TypeOK,
              GateProofs!OneOpenPerKey, GateProofs!OpenRowBehindMarker,
              GateProofs!SkipsJustified, GateProofs!Open, GateProofs!Rows, GateProofs!RowsOf
<1>4. ConflictInv'
  <2>1. \A id \in GateProofs!Rows : conflicts[id].as_of \in Nat
    BY SameGate, IngestAssumption
       DEF IngestInv, ConflictInv, GateProofs!GateInv, GateProofs!TypeOK, GateProofs!Rows,
           GateProofs!ConflictRow
  <2> QED BY <1>1, <1>2, <1>3, <2>1 DEF IngestInv, ConflictInv, GateProofs!Rows
<1>5. CandleInv'
  BY <1>1, <1>2, IngestTypes DEF IngestInv, CandleInv, VersionsFollowTime, RowsOf
<1>6. GapInv'
  BY <1>1 DEF IngestInv, GapInv, GapRow, RowsOf, GateProofs!Rows
<1>7. TypeOK'
  <2>1. Store!TypeOK'
    BY <1>1, <1>3, StoreTyped, IngestTypes DEF IngestInv, GateProofs!GateInv
  <2> QED BY <1>1, <1>2, <2>1 DEF IngestInv, TypeOK
<1> QED BY <1>4, <1>5, <1>6, <1>7 DEF IngestInv

\* Every step keeps the invariant.
LEMMA IngestInvStep == IngestInv /\ [Next]_vars => IngestInv'
<1> SUFFICES ASSUME IngestInv, [Next]_vars PROVE IngestInv'
  OBVIOUS
<1>1. CASE Load
  <2>1. PICK u \in Index, window \in {w \in Window : w.from <= w.till} \cup {NULL} :
          \E fetch \in (SUBSET Printed(window)) \ {{}} :
             \/ \E calendar \in Calendars, coverage \in Day :
                   Ingest(u, fetch, window, calendar, coverage)
             \/ \E refused \in fetch, stored \in SUBSET fetch :
                   stored # {} /\ refused \notin stored /\ IngestRaises(u, stored)
    BY <1>1, Zenon DEF Load
  <2>2. PICK fetch \in (SUBSET Printed(window)) \ {{}} :
             \/ \E calendar \in Calendars, coverage \in Day :
                   Ingest(u, fetch, window, calendar, coverage)
             \/ \E refused \in fetch, stored \in SUBSET fetch :
                   stored # {} /\ refused \notin stored /\ IngestRaises(u, stored)
    BY <2>1
  <2>3. fetch \in SUBSET Day /\ fetch # {} /\ window \in Window \cup {NULL}
    BY IngestAssumption DEF Printed
  <2>4. CASE \E calendar \in Calendars, coverage \in Day :
               Ingest(u, fetch, window, calendar, coverage)
    <3>1. PICK calendar \in Calendars, coverage \in Day :
               Ingest(u, fetch, window, calendar, coverage)
      BY <2>4
    <3>2. calendar # {} => CalendarCovers(fetch, window, calendar, coverage)
      BY <3>1, Zenon DEF Ingest
    <3>3. AnsweredFor(fetch, window, calendar, coverage)
            \subseteq ScanDays(fetch, window, calendar)
      BY <2>3, <3>2, ScanIsComplete DEF IngestInv
    <3> QED BY <2>3, <3>1, <3>3, IngestStep
  <2>5. CASE \E refused \in fetch, stored \in SUBSET fetch :
               stored # {} /\ refused \notin stored /\ IngestRaises(u, stored)
    BY <2>3, <2>5, RaiseStep
  <2> QED BY <2>2, <2>4, <2>5
<1>2. CASE NextDay
  BY <1>2, QuietStep DEF NextDay
<1>3. CASE OtherWriter
  BY <1>3, OtherWriterStep
<1>4. CASE UNCHANGED vars
  BY <1>4, QuietStep DEF vars
<1> QED BY <1>1, <1>2, <1>3, <1>4 DEF Next

\* So it holds in every reachable state.
LEMMA IngestInvariant == Spec => []IngestInv
  BY IngestInvInit, IngestInvStep, PTL DEF Spec

-----------------------------------------------------------------------------
(* The theorems. *)

\* Tables, clock and ghosts keep to their types.
THEOREM IngestTypeCorrect == Spec => []TypeOK
<1>1. IngestInv => TypeOK
  BY DEF IngestInv
<1> QED BY <1>1, IngestInvariant, PTL

\* A session inside a window some load scanned has its bar, or a missing_bar row that
\* blocks entries from now on while it is unresolved.
THEOREM NoSilentGapEver == Spec => []NoSilentGap
<1>1. ASSUME IngestInv PROVE NoSilentGap
  <2> SUFFICES ASSUME NEW p \in scanned, ~\E c \in RowsOf(p[1]) : c.ts = p[2]
               PROVE  \E id \in Gate!RowsOf(p[1]) :
                        /\ conflicts[id].ts = p[2]
                        /\ conflicts[id].kind = "missing_bar"
                        /\ conflicts[id].resolved \/ Gate!Blocked(p[1], now)
    BY DEF NoSilentGap
  <2>1. PICK id \in ConflictId : GapRow(id, p[1], p[2])
    BY <1>1 DEF IngestInv, GapInv
  <2>2. id \in Gate!RowsOf(p[1]) /\ conflicts[id].as_of <= now
    BY <1>1, <2>1, SameGate DEF IngestInv, ConflictInv, GapRow, Gate!RowsOf
  <2>3. conflicts[id].resolved \/ Gate!Blocked(p[1], now)
    BY <2>2 DEF Gate!Blocked, Gate!InForce
  <2> QED BY <2>1, <2>2, <2>3 DEF GapRow
<1> QED BY <1>1, IngestInvariant, PTL

\* An entry-safe read never holds a bar stored during its own session, nor a bar of the
\* day it is dated.
THEOREM NoLookaheadEver == Spec => []NoLookahead
<1>1. ASSUME IngestInv PROVE NoLookahead
  <2> SUFFICES ASSUME NEW u \in Index, NEW d \in Day, NEW c \in Store!Window(u, d, LastDay),
                      Store!EntrySafe(c, d)
               PROVE  c.ts < c.as_of /\ c.ts < d
    BY DEF NoLookahead
  <2>1. c \in candles /\ c.as_of <= d /\ c.is_complete
    BY DEF Store!Window, Store!Latest, Store!Known, Store!EntrySafe
  <2>2. c.ts < c.as_of
    BY <1>1, <2>1 DEF IngestInv, CandleInv
  <2>3. c.ts \in Nat /\ c.as_of \in Nat /\ d \in Nat
    BY <1>1, <2>1, IngestTypes DEF IngestInv
  <2> QED BY <2>1, <2>2, <2>3
<1> QED BY <1>1, IngestInvariant, PTL

\* No two loads of an index, raised or not, store bars under one version.
THEOREM VersionAlwaysFresh == Spec => []FreshVersion
<1>1. IngestInv => FreshVersion
  BY DEF IngestInv, CandleInv, FreshVersion
<1> QED BY <1>1, IngestInvariant, PTL

\* A higher version was stored no earlier.
THEOREM VersionsAlwaysFollowTime == Spec => []VersionsFollowTime
<1>1. IngestInv => VersionsFollowTime
  BY DEF IngestInv, CandleInv
<1> QED BY <1>1, IngestInvariant, PTL

-----------------------------------------------------------------------------
(* What a step does to the reads of a day before it. *)

\* A read as of d is made from the rows known at d and from the gate's answer at d.
LEMMA ReadsFollow ==
  ASSUME NEW u, NEW d, NEW limit,
         Store!Known(u, d)' = Store!Known(u, d),
         Store!Gate!Blocked(u, d)' = Store!Gate!Blocked(u, d)
  PROVE  /\ Store!AuditRead(u, d, limit)' = Store!AuditRead(u, d, limit)
         /\ Store!EntryRead(u, d, limit)' = Store!EntryRead(u, d, limit)
<1>1. Store!Latest(u, d)' = Store!Latest(u, d)
  BY DEF Store!Latest
<1>2. Store!Window(u, d, limit)' = Store!Window(u, d, limit)
  BY <1>1 DEF Store!Window
<1>3. \A c \in Store!Window(u, d, limit) : c.instrument_uid = u
  BY DEF Store!Window, Store!Latest, Store!Known
<1>4. \A c \in Store!Window(u, d, limit) : Store!EntrySafe(c, d)' = Store!EntrySafe(c, d)
  BY <1>3 DEF Store!EntrySafe
<1>5. Store!AuditRead(u, d, limit)' = Store!AuditRead(u, d, limit)
  BY <1>2 DEF Store!AuditRead, Store!CandleKey
<1>6. Store!EntryRead(u, d, limit)' = Store!EntryRead(u, d, limit)
  BY <1>2, <1>4 DEF Store!EntryRead, Store!CandleKey
<1> QED BY <1>5, <1>6

\* A load's bars are stamped now, so no earlier day knows them.
LEMMA BarsUnknownBefore ==
  ASSUME TypeOK, NEW u, NEW days, NEW version, StoreBars(u, days, version),
         NEW w, NEW d \in Day, d < now
  PROVE  Store!Known(w, d)' = Store!Known(w, d)
<1>1. candles' = candles \cup Snapshots(u, days, version)
  BY DEF StoreBars
<1>2. \A c \in Snapshots(u, days, version) : ~(c.as_of <= d)
  BY IngestTypes DEF Snapshots
<1> QED BY <1>1, <1>2 DEF Store!Known

\* A conflict already in the table is not redated, since no row is dated after today;
\* a new one is dated today.
LEMMA MissingBarsAfter ==
  ASSUME TypeOK, ConflictInv, NEW u \in Index, NEW days \in SUBSET Day,
         RecordMissingBars(u, days)
  PROVE  /\ GateProofs!Rows \subseteq GateProofs!Rows'
         /\ \A id \in GateProofs!Rows : conflicts'[id] = conflicts[id]
         /\ \A id \in GateProofs!Rows' \ GateProofs!Rows : conflicts'[id].as_of = now
<1>1. PICK row :
        /\ FreshRows(row, u, days)
        /\ \A d \in days : Open(u, d) = {} =>
             conflicts'[row[d]] = GateProofs!NewRow(u, d, "missing_bar", now)
        /\ \A id \in GateProofs!Rows :
             \/ conflicts'[id] = conflicts[id]
             \/ /\ \E d \in days : id \in Open(u, d)
                /\ conflicts'[id] = [conflicts[id] EXCEPT
                                      !.as_of = GateProofs!Earliest(conflicts[id].as_of, now)]
        /\ \A id \in ConflictId \ GateProofs!Rows :
             \/ conflicts'[id] = NoRow
             \/ \E d \in days : Open(u, d) = {} /\ row[d] = id
        /\ DOMAIN conflicts' = ConflictId
        /\ conflicts' = [id \in ConflictId |-> conflicts'[id]]
  BY MissingBarRows
<1>2. ASSUME NEW id \in GateProofs!Rows
      PROVE  conflicts'[id] = conflicts[id]
  <2>1. conflicts[id] \in GateProofs!ConflictRow /\ conflicts[id].as_of <= now
    BY DEF ConflictInv, GateProofs!GateInv, GateProofs!TypeOK, GateProofs!Rows
  <2>2. GateProofs!Earliest(conflicts[id].as_of, now) = conflicts[id].as_of
    BY <2>1 DEF GateProofs!Earliest
  <2>3. [conflicts[id] EXCEPT !.as_of = conflicts[id].as_of] = conflicts[id]
    BY <2>1 DEF GateProofs!ConflictRow
  <2> QED BY <1>1, <2>2, <2>3
<1>3. GateProofs!Rows \subseteq GateProofs!Rows'
  BY <1>2 DEF GateProofs!Rows
<1>4. ASSUME NEW id \in GateProofs!Rows' \ GateProofs!Rows
      PROVE  conflicts'[id].as_of = now
  <2>1. id \in ConflictId \ GateProofs!Rows /\ conflicts'[id] # NoRow
    BY DEF GateProofs!Rows
  <2>2. PICK d \in days : Open(u, d) = {} /\ row[d] = id
    BY <1>1, <2>1
  <2>3. conflicts'[id] = GateProofs!NewRow(u, d, "missing_bar", now)
    BY <1>1, <2>2
  <2> QED BY <2>3 DEF GateProofs!NewRow
<1> QED BY <1>2, <1>3, <1>4

\* So the gate answers for an earlier day as it did.
LEMMA MissingBarsHistory ==
  ASSUME TypeOK, ConflictInv, NEW u \in Index, NEW days \in SUBSET Day,
         RecordMissingBars(u, days), NEW w, NEW d \in Day, d < now
  PROVE  Store!Gate!Blocked(w, d)' = Store!Gate!Blocked(w, d)
<1>1. /\ GateProofs!Rows \subseteq GateProofs!Rows'
      /\ \A id \in GateProofs!Rows : conflicts'[id] = conflicts[id]
      /\ \A id \in GateProofs!Rows' \ GateProofs!Rows : conflicts'[id].as_of = now
  BY MissingBarsAfter
<1>2. d \in Nat /\ now \in Nat
  BY IngestTypes
<1>3. \A id \in GateProofs!Rows' \ GateProofs!Rows : ~(conflicts'[id].as_of <= d)
  BY <1>1, <1>2
<1>4. Store!Gate!Rows = GateProofs!Rows /\ Store!Gate!Rows' = GateProofs!Rows'
  BY DEF Store!Gate!Rows, GateProofs!Rows
<1> QED
  BY <1>1, <1>3, <1>4 DEF Store!Gate!Blocked, Store!Gate!RowsOf, Store!Gate!InForce

\* Another user's write of the gate leaves its answer for an earlier day alone.
LEMMA OtherWriterHistory ==
  ASSUME IngestInv, OtherWriter, NEW w \in Index, NEW d \in Day, d < now
  PROVE  Store!Gate!Blocked(w, d)' = Store!Gate!Blocked(w, d)
<1>1. d \in GateProofs!Time /\ now \in Nat /\ d \in Nat
  BY IngestTypes, SameGate DEF IngestInv
<1>2. GateProofs!Next /\ stamp' = now
  BY OtherWriterIsGate DEF IngestInv
<1>3. GateProofs!Blocked(w, d)' # GateProofs!Blocked(w, d) => d >= stamp'
  BY <1>1, <1>2, GateAssumed, GateProofs!GateHistoryStep DEF IngestInv, ConflictInv
<1>4. GateProofs!Blocked(w, d)' = GateProofs!Blocked(w, d)
  BY <1>1, <1>2, <1>3
<1>5. /\ Store!Gate!Blocked(w, d) = GateProofs!Blocked(w, d)
      /\ Store!Gate!Blocked(w, d)' = GateProofs!Blocked(w, d)'
  BY DEF Store!Gate!Blocked, GateProofs!Blocked, Store!Gate!RowsOf, GateProofs!RowsOf,
         Store!Gate!Rows, GateProofs!Rows, Store!Gate!InForce, GateProofs!InForce
<1> QED BY <1>4, <1>5

\* A load, one that raises, or a step of another kind.
LEMMA LoadIs ==
  ASSUME Load
  PROVE  \E u \in Index :
           \/ \E version : \E days \in SUBSET Day, missing \in SUBSET Day :
                StoreBars(u, days, version) /\ RecordMissingBars(u, missing)
           \/ \E days, version : StoreBars(u, days, version) /\ UNCHANGED conflicts
<1>1. PICK u \in Index, window \in {w \in Window : w.from <= w.till} \cup {NULL} :
        \E fetch \in (SUBSET Printed(window)) \ {{}} :
           \/ \E coverage : \E calendar \in SUBSET Day : Ingest(u, fetch, window, calendar, coverage)
           \/ \E stored \in SUBSET fetch : IngestRaises(u, stored)
  <2>1. Calendars \subseteq SUBSET Day
    BY IngestAssumption DEF Calendars
  <2> QED BY <2>1, Zenon DEF Load
<1>2. PICK fetch \in (SUBSET Printed(window)) \ {{}} :
           \/ \E coverage : \E calendar \in SUBSET Day : Ingest(u, fetch, window, calendar, coverage)
           \/ \E stored \in SUBSET fetch : IngestRaises(u, stored)
  BY <1>1
<1>3. CASE \E coverage : \E calendar \in SUBSET Day : Ingest(u, fetch, window, calendar, coverage)
  <2>1. PICK coverage : \E calendar \in SUBSET Day : Ingest(u, fetch, window, calendar, coverage)
    BY <1>3
  <2>2. PICK calendar \in SUBSET Day : Ingest(u, fetch, window, calendar, coverage)
    BY <2>1
  <2>3. /\ StoreBars(u, fetch, NextSourceVersion(u))
        /\ RecordMissingBars(u, ExpectedMissing(fetch, window, calendar))
    BY <2>2, Zenon DEF Ingest
  <2>4. fetch \in SUBSET Day /\ ExpectedMissing(fetch, window, calendar) \in SUBSET Day
    BY IngestAssumption DEF Printed, ExpectedMissing, ScanDays
  <2> QED BY <2>3, <2>4
<1>4. CASE \E stored \in SUBSET fetch : IngestRaises(u, stored)
  BY <1>4 DEF IngestRaises, gateVars
<1> QED BY <1>2, <1>3, <1>4

\* No step changes what a day before it reads.
LEMMA PastReadsStep ==
  ASSUME IngestInv, Next, NEW u \in Index, NEW d \in Day, NEW limit, d < now
  PROVE  /\ Store!AuditRead(u, d, limit)' = Store!AuditRead(u, d, limit)
         /\ Store!EntryRead(u, d, limit)' = Store!EntryRead(u, d, limit)
<1>1. Store!Known(u, d)' = Store!Known(u, d)
  <2>1. CASE Load
    BY <2>1, LoadIs, BarsUnknownBefore DEF IngestInv
  <2>2. CASE UNCHANGED candles
    BY <2>2 DEF Store!Known
  <2> QED BY <2>1, <2>2 DEF Next, NextDay, OtherWriter, storeVars
<1>2. Store!Gate!Blocked(u, d)' = Store!Gate!Blocked(u, d)
  <2>1. CASE UNCHANGED conflicts
    BY <2>1 DEF Store!Gate!Blocked, Store!Gate!RowsOf, Store!Gate!Rows, Store!Gate!InForce
  <2>2. CASE Load
    BY <2>1, <2>2, LoadIs, MissingBarsHistory DEF IngestInv
  <2>3. CASE OtherWriter
    BY <2>3, OtherWriterHistory
  <2>4. CASE NextDay
    BY <2>1, <2>4 DEF NextDay, storeVars, gateVars
  <2> QED BY <2>2, <2>3, <2>4 DEF Next
<1> QED BY <1>1, <1>2, ReadsFollow

\* What a decision of an earlier day read never changes, whatever is loaded, escalated or
\* resolved afterwards.
THEOREM PastReadsAlwaysKept == Spec => PastReadsKept
<1> DEFINE Kept == \A u \in Index, d \in Day, limit \in Day :
                     d < now => UNCHANGED <<Store!AuditRead(u, d, limit),
                                            Store!EntryRead(u, d, limit)>>
<1>1. IngestInv /\ [Next]_vars => [Kept]_vars
  BY PastReadsStep
<1> QED BY <1>1, IngestInvariant, PTL DEF Spec, PastReadsKept

-----------------------------------------------------------------------------
(* The gate under loads.  A load records a whole batch of missing bars in one       *)
(* transaction, which no single write of ConflictGate is: its promises are proved   *)
(* again for the batch.                                                             *)

\* The promises of the gate hold between the loads: one open row per key, a marker backed
\* by an open row that blocks, and no skipped decision without a conflict of its bar.
THEOREM GateHoldsUnderLoads ==
  Spec => [](/\ GateProofs!OneOpenPerKey
             /\ GateProofs!MarkerBackedByGate
             /\ GateProofs!SkipsJustified)
<1>1. IngestInv => /\ GateProofs!OneOpenPerKey
                   /\ GateProofs!MarkerBackedByGate
                   /\ GateProofs!SkipsJustified
  BY GateAssumed, GateProofs!MarkerBacked DEF IngestInv, ConflictInv, GateProofs!GateInv
<1> QED BY <1>1, IngestInvariant, PTL

\* A step of the whole system leaves each row of the gate as a write of the gate would.
LEMMA LoadsMature ==
  ASSUME IngestInv, Next
  PROVE  GateProofs!Mature
<1>1. /\ GateProofs!GateInv
      /\ \A id \in GateProofs!Rows : conflicts[id].as_of <= conflicts[id].as_of
  BY SameGate, IngestAssumption
     DEF IngestInv, ConflictInv, GateProofs!GateInv, GateProofs!TypeOK, GateProofs!Rows,
         GateProofs!ConflictRow
<1>2. CASE UNCHANGED conflicts
  BY <1>1, <1>2 DEF GateProofs!Mature, GateProofs!Rows, GateProofs!HasKey
<1>3. CASE Load
  <2>1. CASE \E u \in Index, missing \in SUBSET Day : RecordMissingBars(u, missing)
    BY <1>1, <2>1, MissingBarsAfter DEF IngestInv, GateProofs!Mature, GateProofs!HasKey
  <2> QED BY <1>2, <1>3, <2>1, LoadIs
<1>4. CASE OtherWriter
  BY <1>1, <1>4, OtherWriterIsGate, GateAssumed, GateProofs!MatureStep DEF IngestInv
<1> QED BY <1>2, <1>3, <1>4 DEF Next, NextDay, storeVars, gateVars

\* No load deletes, re-keys, redates later or reopens a conflict.
THEOREM RowsMatureUnderLoads == Spec => [][GateProofs!Mature]_vars
<1>1. IngestInv /\ [Next]_vars => [GateProofs!Mature]_vars
  BY LoadsMature
<1> QED BY <1>1, IngestInvariant, PTL DEF Spec

=============================================================================
