--------------------------- MODULE CandleStoreProofs ---------------------------
(***************************************************************************)
(* Proofs about CandleStore for any instruments, bars, versions and        *)
(* bounds.  The primary key is the point: mark_stale rewrites rows, and    *)
(* the limit of a read counts rows, so the windows before and after agree  *)
(* only because no two rows have one key.  What the gate contributes is    *)
(* taken from ConflictGateProofs.  Last, ReadIsNewestBars says what the    *)
(* nested queries of a read return.                                        *)
(***************************************************************************)
EXTENDS CandleStore, FiniteSetTheorems, TLAPS

GateProofs == INSTANCE ConflictGateProofs

KeysUnique == \A c, k \in candles : CandleKey(c) = CandleKey(k) => c = k

StoreInv ==
    /\ TypeOK
    /\ IsFiniteSet(candles)
    /\ KeysUnique
    /\ GateProofs!GateInv

-----------------------------------------------------------------------------
(* The gate here and in its proofs. *)

\* The gate's assumptions are among this module's.
LEMMA GateAssumed == GateProofs!GateAssumption
<1>1. Gate!Time = GateProofs!Time
  BY DEF Gate!Time, GateProofs!Time
<1>2. Gate!ConflictRow = GateProofs!ConflictRow
  BY <1>1 DEF Gate!ConflictRow, GateProofs!ConflictRow
<1> QED BY <1>2, StoreAssumption DEF Gate!GateAssumption, GateProofs!GateAssumption

\* Both instances of ConflictGate say the same.
LEMMA SameGate ==
  /\ Gate!Init <=> GateProofs!Init
  /\ Gate!GateNext <=> GateProofs!Next
  /\ GateProofs!TypeOK <=> Gate!TypeOK
  /\ \A u, d : Gate!Blocked(u, d) <=> GateProofs!Blocked(u, d)
<1>1. Gate!Init <=> GateProofs!Init
  BY DEF Gate!Init, GateProofs!Init
<1>2. Gate!Time = GateProofs!Time
  BY DEF Gate!Time, GateProofs!Time
<1>3. Gate!ConflictRow = GateProofs!ConflictRow
  BY <1>2 DEF Gate!ConflictRow, GateProofs!ConflictRow
<1>4. GateProofs!TypeOK <=> Gate!TypeOK
  BY <1>2, <1>3 DEF Gate!TypeOK, GateProofs!TypeOK
<1>5. \A u, d : Gate!Blocked(u, d) <=> GateProofs!Blocked(u, d)
  BY DEF Gate!Blocked, GateProofs!Blocked, Gate!RowsOf, GateProofs!RowsOf,
         Gate!Rows, GateProofs!Rows, Gate!InForce, GateProofs!InForce
<1>6. Gate!Rows = GateProofs!Rows /\ \A id : Gate!Open(id) <=> GateProofs!Open(id)
  BY DEF Gate!Rows, GateProofs!Rows, Gate!Open, GateProofs!Open
<1>7. ASSUME NEW u, NEW b, NEW k, NEW a
      PROVE  /\ Gate!OpenIds(u, b, k) = GateProofs!OpenIds(u, b, k)
             /\ Gate!NewRow(u, b, k, a) = GateProofs!NewRow(u, b, k, a)
             /\ Gate!Earliest(b, a) = GateProofs!Earliest(b, a)
  BY <1>6 DEF Gate!OpenIds, GateProofs!OpenIds, Gate!HasKey, GateProofs!HasKey, Gate!NewRow,
              GateProofs!NewRow, Gate!Earliest, GateProofs!Earliest
<1>8. ASSUME NEW u, NEW b, NEW k, NEW a
      PROVE  Gate!RecordRow(u, b, k, a) <=> GateProofs!RecordRow(u, b, k, a)
  <2>1. \A s, t : Gate!Earliest(s, t) = GateProofs!Earliest(s, t)
    BY DEF Gate!Earliest, GateProofs!Earliest
  <2> QED BY <1>6, <1>7, <2>1 DEF Gate!RecordRow, GateProofs!RecordRow
<1>9. ASSUME NEW id, NEW a
      PROVE  Gate!ResolveDataConflict(id, a) <=> GateProofs!ResolveDataConflict(id, a)
  <2>1. \A u : Gate!RowsOf(u) = GateProofs!RowsOf(u)
    BY <1>6 DEF Gate!RowsOf, GateProofs!RowsOf
  <2>2. Gate!ResolutionTime(id, a) = GateProofs!ResolutionTime(id, a)
    BY DEF Gate!ResolutionTime, GateProofs!ResolutionTime
  <2> QED BY <1>6, <2>1, <2>2 DEF Gate!ResolveDataConflict, GateProofs!ResolveDataConflict
<1>10. Gate!GateNext <=> GateProofs!Next
  BY <1>2, <1>8, <1>9
     DEF Gate!GateNext, GateProofs!Next, GateProofs!GateNext, Gate!RecordDataConflict,
         GateProofs!RecordDataConflict, Gate!RecordPersistentDataConflict,
         GateProofs!RecordPersistentDataConflict
<1> QED BY <1>1, <1>4, <1>5, <1>10

\* The gate's invariant speaks of the gate's tables, and of the stamp by its type only.
LEMMA GateUntouched ==
  ASSUME GateProofs!GateInv, UNCHANGED gateVars, stamp' \in Time
  PROVE  /\ GateProofs!GateInv'
         /\ \A u, d : Gate!Blocked(u, d)' = Gate!Blocked(u, d)
<1>1. GateProofs!TypeOK'
  BY DEF GateProofs!GateInv, GateProofs!TypeOK, gateVars, GateProofs!Time, Time
<1>2. GateProofs!OneOpenPerKey' /\ GateProofs!OpenRowBehindMarker' /\ GateProofs!SkipsJustified'
  BY DEF gateVars, GateProofs!GateInv, GateProofs!OneOpenPerKey,
         GateProofs!OpenRowBehindMarker, GateProofs!SkipsJustified, GateProofs!Open,
         GateProofs!Rows, GateProofs!RowsOf, GateProofs!Time
<1>3. \A u, d : Gate!Blocked(u, d)' = Gate!Blocked(u, d)
  BY DEF gateVars, Gate!Blocked, Gate!RowsOf, Gate!Rows, Gate!InForce
<1> QED BY <1>1, <1>2, <1>3 DEF GateProofs!GateInv

-----------------------------------------------------------------------------
(* What mark_stale does to the rows a read looks at. *)

StaleRow(k, c) == IF CandleKey(c) = k THEN [c EXCEPT !.is_stale = TRUE] ELSE c

Marked(k, S) == {StaleRow(k, c) : c \in S}

\* Marking keeps every column but is_stale.
LEMMA StaleRowKeeps ==
  ASSUME NEW k, NEW c \in CandleRow
  PROVE  /\ StaleRow(k, c) \in CandleRow
         /\ StaleRow(k, c).instrument_uid = c.instrument_uid
         /\ StaleRow(k, c).ts = c.ts
         /\ StaleRow(k, c).source_version = c.source_version
         /\ StaleRow(k, c).is_complete = c.is_complete
         /\ StaleRow(k, c).as_of = c.as_of
         /\ CandleKey(StaleRow(k, c)) = CandleKey(c)
         /\ ~StaleRow(k, c).is_stale => StaleRow(k, c) = c
<1>1. CASE CandleKey(c) = k
  BY <1>1 DEF StaleRow, CandleRow, CandleKey
<1>2. CASE CandleKey(c) # k
  BY <1>2 DEF StaleRow
<1> QED BY <1>1, <1>2

\* By the primary key no two rows become one, so no count of rows changes.
LEMMA MarkedCardinality ==
  ASSUME StoreInv, NEW k, NEW S \in SUBSET candles
  PROVE  IsFiniteSet(Marked(k, S)) /\ Cardinality(Marked(k, S)) = Cardinality(S)
<1>1. IsFiniteSet(S)
  BY FS_Subset DEF StoreInv
<1> DEFINE f == [c \in S |-> StaleRow(k, c)]
<1>2. f \in [S -> Marked(k, S)]
  BY DEF Marked
<1>3. ASSUME NEW a \in S, NEW b \in S, f[a] = f[b]
      PROVE  a = b
  <2>1. a \in CandleRow /\ b \in CandleRow
    BY DEF StoreInv, TypeOK
  <2>2. CandleKey(a) = CandleKey(b)
    BY <1>3, <2>1, StaleRowKeeps
  <2> QED BY <2>2 DEF StoreInv, KeysUnique
<1>4. f \in Injection(S, Marked(k, S))
  BY <1>2, <1>3 DEF Injection, IsInjective
<1>5. \A t \in Marked(k, S) : \E c \in S : f[c] = t
  BY DEF Marked
<1>6. ExistsBijection(S, Marked(k, S))
  BY <1>2, <1>4, <1>5 DEF ExistsBijection, Bijection, Surjection
<1> QED BY <1>1, <1>6, FS_Bijection

\* The reads after a mark_stale select the marked rows of those before it.
LEMMA MarkStaleReads ==
  ASSUME StoreInv, NEW key, MarkStale(key), NEW u \in Instrument, NEW d \in Time, NEW limit
  PROVE  Window(u, d, limit)' = Marked(key, Window(u, d, limit))
<1>1. \A c \in candles : c \in CandleRow
  BY DEF StoreInv, TypeOK
<1>2. candles' = Marked(key, candles)
  BY DEF MarkStale, Marked, StaleRow
<1>3. Known(u, d)' = Marked(key, Known(u, d))
  BY <1>1, <1>2, StaleRowKeeps DEF Known, Marked
<1>4. Known(u, d) \subseteq candles /\ Latest(u, d) \subseteq Known(u, d)
  BY DEF Known, Latest
<1>5. ASSUME NEW c \in Known(u, d)
      PROVE  (\A k \in Known(u, d)' :
                 k.ts = StaleRow(key, c).ts => k.source_version <= StaleRow(key, c).source_version)
             <=> c \in Latest(u, d)
  BY <1>1, <1>3, <1>4, StaleRowKeeps DEF Latest, Marked
<1>6. Latest(u, d)' = Marked(key, Latest(u, d))
  BY <1>3, <1>4, <1>5 DEF Latest, Marked
<1>7. ASSUME NEW c \in Latest(u, d)
      PROVE  Cardinality({k \in Latest(u, d)' : k.ts > StaleRow(key, c).ts})
               = Cardinality({k \in Latest(u, d) : k.ts > c.ts})
  <2> DEFINE Later == {k \in Latest(u, d) : k.ts > c.ts}
  <2>1. {k \in Latest(u, d)' : k.ts > StaleRow(key, c).ts} = Marked(key, Later)
    BY <1>1, <1>4, <1>6, StaleRowKeeps DEF Marked
  <2>2. Later \in SUBSET candles
    BY <1>4
  <2> HIDE DEF Later
  <2> QED BY <2>1, <2>2, MarkedCardinality DEF Later
<1> QED BY <1>6, <1>7 DEF Window, Marked

-----------------------------------------------------------------------------
(* The invariant. *)

\* The empty tables satisfy it.
LEMMA StoreInvInit == Init => StoreInv
<1> SUFFICES ASSUME Init PROVE StoreInv
  OBVIOUS
<1>1. GateProofs!GateInv
  BY SameGate, GateAssumed, GateProofs!GateInvInit DEF Init
<1>2. TypeOK
  BY <1>1, SameGate DEF Init, TypeOK, GateProofs!GateInv
<1> QED BY <1>1, <1>2, FS_EmptySet DEF Init, StoreInv, KeysUnique

\* An insert of a free key keeps it.
LEMMA StoreCandleInv ==
  ASSUME StoreInv, NEW c \in CandleRow, StoreCandle(c)
  PROVE  StoreInv'
<1>1. UNCHANGED gateVars /\ stamp' \in Time
  BY DEF StoreCandle, CandleRow
<1>2. GateProofs!GateInv'
  BY <1>1, GateUntouched DEF StoreInv
<1>3. Gate!TypeOK'
  BY <1>1 DEF StoreInv, TypeOK, Gate!TypeOK, gateVars, Gate!Time, Time
<1>4. TypeOK'
  BY <1>3 DEF StoreInv, TypeOK, StoreCandle, CandleRow, Time
<1>5. IsFiniteSet(candles')
  BY FS_AddElement DEF StoreInv, StoreCandle
<1>6. KeysUnique'
  BY DEF StoreInv, KeysUnique, StoreCandle, Keys, CandleKey
<1> QED BY <1>2, <1>4, <1>5, <1>6 DEF StoreInv

\* So does marking the rows of a key.
LEMMA MarkStaleInv ==
  ASSUME StoreInv, NEW key, MarkStale(key)
  PROVE  StoreInv'
<1>1. UNCHANGED gateVars /\ stamp' \in Time
  BY SameGate DEF MarkStale, StoreInv, TypeOK, Gate!TypeOK, Gate!Time, Time
<1>2. GateProofs!GateInv'
  BY <1>1, GateUntouched DEF StoreInv
<1>3. \A c \in candles : c \in CandleRow
  BY DEF StoreInv, TypeOK
<1>4. candles' = Marked(key, candles)
  BY DEF MarkStale, Marked, StaleRow
<1>5. Gate!TypeOK'
  BY <1>1 DEF StoreInv, TypeOK, Gate!TypeOK, gateVars, Gate!Time, Time
<1>6. candles' \subseteq CandleRow
  BY <1>3, <1>4, StaleRowKeeps DEF Marked
<1>7. TypeOK'
  BY <1>5, <1>6 DEF TypeOK, CandleRow, Time
<1>8. IsFiniteSet(candles')
  BY <1>4, MarkedCardinality
<1>9. KeysUnique'
  <2> SUFFICES ASSUME NEW a \in candles', NEW b \in candles', CandleKey(a) = CandleKey(b)
               PROVE  a = b
    BY DEF KeysUnique, CandleKey
  <2>1. PICK c \in candles, k \in candles : a = StaleRow(key, c) /\ b = StaleRow(key, k)
    BY <1>4 DEF Marked
  <2>2. CandleKey(c) = CandleKey(k)
    BY <1>3, <2>1, StaleRowKeeps
  <2> QED BY <2>1, <2>2 DEF StoreInv, KeysUnique
<1> QED BY <1>2, <1>7, <1>8, <1>9 DEF StoreInv

\* A write of the gate, and the gate's own step in its proofs.
LEMMA GateStepInv ==
  ASSUME StoreInv, Gate!GateNext, UNCHANGED candles
  PROVE  StoreInv'
<1>1. GateProofs!Next
  BY SameGate
<1>2. GateProofs!GateInv'
  BY <1>1, GateAssumed, GateProofs!GateInvStep DEF StoreInv
<1>3. Gate!TypeOK'
  <2>1. GateProofs!TypeOK'
    BY <1>2 DEF GateProofs!GateInv
  <2> QED
    BY <2>1 DEF Gate!TypeOK, GateProofs!TypeOK, Gate!Time, GateProofs!Time, Gate!ConflictRow,
                GateProofs!ConflictRow
<1>4. TypeOK'
  BY <1>3 DEF StoreInv, TypeOK
<1> QED BY <1>2, <1>4 DEF StoreInv, KeysUnique

\* Every reachable state satisfies it.
LEMMA StoreInvariant == Spec => []StoreInv
<1>1. StoreInv /\ [Next]_vars => StoreInv'
  <2> SUFFICES ASSUME StoreInv, [Next]_vars PROVE StoreInv'
    OBVIOUS
  <2>1. CASE \E c \in CandleRow : StoreCandle(c)
    BY <2>1, StoreCandleInv
  <2>2. CASE \E k \in Keys : MarkStale(k)
    BY <2>2, MarkStaleInv
  <2>3. CASE Gate!GateNext /\ UNCHANGED candles
    BY <2>3, GateStepInv
  <2>4. CASE UNCHANGED vars
    <3>1. UNCHANGED gateVars /\ stamp' \in Time /\ UNCHANGED <<stamp, candles>>
      BY <2>4 DEF vars, StoreInv, TypeOK, Gate!TypeOK, Gate!Time, Time
    <3>2. GateProofs!GateInv'
      BY <3>1, GateUntouched DEF StoreInv
    <3> QED
      BY <3>1, <3>2 DEF StoreInv, TypeOK, Gate!TypeOK, gateVars, KeysUnique
  <2> QED BY <2>1, <2>2, <2>3, <2>4 DEF Next
<1> QED BY <1>1, StoreInvInit, PTL DEF Spec

\* Every column keeps to its type.
THEOREM StoreTypeCorrect == Spec => []TypeOK
<1>1. StoreInv => TypeOK
  BY DEF StoreInv
<1> QED BY <1>1, StoreInvariant, PTL

-----------------------------------------------------------------------------
(* What one step does to the reads as of d. *)

\* A snapshot stamped after d is not among what was known at d.
LEMMA StoreCandleReads ==
  ASSUME StoreInv, NEW c \in CandleRow, StoreCandle(c),
         NEW u \in Instrument, NEW d \in Time, d < stamp'
  PROVE  /\ \A limit : Window(u, d, limit)' = Window(u, d, limit)
         /\ \A e : EntrySafe(e, d)' <=> EntrySafe(e, d)
<1>1. ~(c.as_of <= d)
  BY StoreAssumption DEF StoreCandle, CandleRow, Time, Gate!GateAssumption
<1>2. Known(u, d)' = Known(u, d)
  BY <1>1 DEF StoreCandle, Known
<1>3. Latest(u, d)' = Latest(u, d)
  BY <1>2 DEF Latest
<1>4. \A v, t : Gate!Blocked(v, t)' = Gate!Blocked(v, t)
  BY GateUntouched DEF StoreCandle, CandleRow, StoreInv
<1> QED BY <1>3, <1>4 DEF Window, EntrySafe

\* A write of the gate leaves every window alone, and the bars of an instrument stay as
\* entry safe as they were unless the write is stamped at or before d.
LEMMA GateStepReads ==
  ASSUME StoreInv, Gate!GateNext, UNCHANGED candles,
         NEW u \in Instrument, NEW d \in Time, NEW limit
  PROVE  /\ Window(u, d, limit)' = Window(u, d, limit)
         /\ (d < stamp' \/ UNCHANGED conflicts) =>
              \A e \in Window(u, d, limit) : EntrySafe(e, d)' <=> EntrySafe(e, d)
<1>1. Known(u, d)' = Known(u, d)
  BY DEF Known
<1>2. Latest(u, d)' = Latest(u, d)
  BY <1>1 DEF Latest
<1>3. Window(u, d, limit)' = Window(u, d, limit)
  BY <1>2 DEF Window
<1>4. ASSUME d < stamp' \/ UNCHANGED conflicts
      PROVE  Gate!Blocked(u, d)' = Gate!Blocked(u, d)
  <2>1. CASE UNCHANGED conflicts
    BY <2>1 DEF Gate!Blocked, Gate!RowsOf, Gate!Rows, Gate!InForce
  <2>2. CASE d < stamp'
    <3>1. GateProofs!Blocked(u, d)' # GateProofs!Blocked(u, d) => d >= stamp'
      <4>1. GateProofs!GateInv /\ GateProofs!Next /\ d \in GateProofs!Time
        BY SameGate DEF StoreInv, GateProofs!Time, Time
      <4> QED BY <4>1, GateAssumed, GateProofs!GateHistoryStep
    <3>2. d \in Nat /\ stamp' \in Nat
      BY GateStepInv, StoreAssumption DEF StoreInv, TypeOK, Gate!TypeOK, Gate!Time, Time
    <3>3. GateProofs!Blocked(u, d)' = GateProofs!Blocked(u, d)
      BY <2>2, <3>1, <3>2
    <3>4. Gate!Blocked(u, d)' = GateProofs!Blocked(u, d)' /\ Gate!Blocked(u, d) = GateProofs!Blocked(u, d)
      BY DEF Gate!Blocked, GateProofs!Blocked, Gate!RowsOf, GateProofs!RowsOf,
             Gate!Rows, GateProofs!Rows, Gate!InForce, GateProofs!InForce
    <3> QED BY <3>3, <3>4
  <2> QED BY <1>4, <2>1, <2>2
<1>5. \A e \in Window(u, d, limit) : e.instrument_uid = u
  BY DEF Window, Latest, Known
<1> QED BY <1>3, <1>4, <1>5 DEF EntrySafe

\* An audit of decision time d is changed by snapshots stamped at or before d only.
THEOREM AuditReadsAlwaysKept == Spec => AuditReadsKept
<1> DEFINE Kept == \A u \in Instrument, d \in Time, limit \in Limit :
                     (d < stamp' \/ UNCHANGED Keys) => UNCHANGED AuditRead(u, d, limit)
<1>1. ASSUME StoreInv, Next PROVE Kept
  <2> SUFFICES ASSUME NEW u \in Instrument, NEW d \in Time, NEW limit,
                      d < stamp' \/ UNCHANGED Keys
               PROVE  AuditRead(u, d, limit)' = AuditRead(u, d, limit)
    OBVIOUS
  <2>1. CASE \E c \in CandleRow : StoreCandle(c)
    <3>1. PICK c \in CandleRow : StoreCandle(c)
      BY <2>1
    <3>2. ~UNCHANGED Keys
      BY <3>1 DEF StoreCandle, Keys, CandleKey
    <3> QED BY <1>1, <3>1, <3>2, StoreCandleReads DEF AuditRead, CandleKey
  <2>2. CASE \E k \in Keys : MarkStale(k)
    <3>1. PICK k \in Keys : MarkStale(k)
      BY <2>2
    <3>2. Window(u, d, limit)' = Marked(k, Window(u, d, limit))
      BY <1>1, <3>1, MarkStaleReads
    <3>3. \A c \in Window(u, d, limit) : c \in CandleRow
      BY <1>1 DEF Window, Latest, Known, StoreInv, TypeOK
    <3> QED BY <3>2, <3>3, StaleRowKeeps DEF AuditRead, Marked, CandleKey
  <2>3. CASE Gate!GateNext /\ UNCHANGED candles
    BY <1>1, <2>3, GateStepReads DEF AuditRead, CandleKey
  <2> QED BY <1>1, <2>1, <2>2, <2>3 DEF Next
<1>2. StoreInv /\ [Next]_vars => [Kept]_vars
  BY <1>1
<1> QED BY <1>2, StoreInvariant, PTL DEF Spec, AuditReadsKept

\* No later write, and no bar marked stale, adds evidence to an entry decision dated d.
THEOREM EntryReadsAlwaysShrink == Spec => EntryReadsOnlyShrink
<1> DEFINE Shrinks == \A u \in Instrument, d \in Time, limit \in Limit :
                        (d < stamp' \/ UNCHANGED <<Keys, conflicts>>)
                          => EntryRead(u, d, limit)' \subseteq EntryRead(u, d, limit)
<1>1. ASSUME StoreInv, Next PROVE Shrinks
  <2> SUFFICES ASSUME NEW u \in Instrument, NEW d \in Time, NEW limit,
                      d < stamp' \/ UNCHANGED <<Keys, conflicts>>
               PROVE  EntryRead(u, d, limit)' \subseteq EntryRead(u, d, limit)
    OBVIOUS
  <2>1. CASE \E c \in CandleRow : StoreCandle(c)
    <3>1. PICK c \in CandleRow : StoreCandle(c)
      BY <2>1
    <3>2. ~UNCHANGED Keys
      BY <3>1 DEF StoreCandle, Keys, CandleKey
    <3> QED BY <1>1, <3>1, <3>2, StoreCandleReads DEF EntryRead, CandleKey
  <2>2. CASE \E k \in Keys : MarkStale(k)
    <3>1. PICK k \in Keys : MarkStale(k)
      BY <2>2
    <3>2. Window(u, d, limit)' = Marked(k, Window(u, d, limit))
      BY <1>1, <3>1, MarkStaleReads
    <3>3. \A c \in Window(u, d, limit) : c \in CandleRow
      BY <1>1 DEF Window, Latest, Known, StoreInv, TypeOK
    <3>4. \A v, t : Gate!Blocked(v, t)' = Gate!Blocked(v, t)
      <4>1. UNCHANGED gateVars /\ stamp' \in Time
        BY <1>1, <3>1 DEF MarkStale, StoreInv, TypeOK, Gate!TypeOK, Gate!Time, Time
      <4> QED BY <1>1, <4>1, GateUntouched DEF StoreInv
    <3>5. ASSUME NEW c \in Window(u, d, limit), EntrySafe(StaleRow(k, c), d)'
          PROVE  EntrySafe(c, d)
      BY <3>3, <3>4, <3>5, StaleRowKeeps DEF EntrySafe, StaleRow, CandleKey
    <3> QED BY <3>2, <3>3, <3>5, StaleRowKeeps DEF EntryRead, Marked, CandleKey
  <2>3. CASE Gate!GateNext /\ UNCHANGED candles
    BY <1>1, <2>3, GateStepReads DEF EntryRead, CandleKey
  <2> QED BY <1>1, <2>1, <2>2, <2>3 DEF Next
<1>2. StoreInv /\ [Next]_vars => [Shrinks]_vars
  BY <1>1
<1> QED BY <1>2, StoreInvariant, PTL DEF Spec, EntryReadsOnlyShrink

-----------------------------------------------------------------------------
(* What a read returns: counting the rows after a row puts them in order. *)

RowsAfter(S, key, c) == {k \in S : key[k] > key[c]}

\* In a finite set whose keys differ, the number of rows after a row is its position from
\* the end.
LEMMA PositionsFromTheEnd ==
  ASSUME NEW S, IsFiniteSet(S), NEW key \in [S -> Int],
         \A c, k \in S : key[c] = key[k] => c = k
  PROVE  [c \in S |-> Cardinality(RowsAfter(S, key, c))]
           \in Bijection(S, 0 .. Cardinality(S) - 1)
<1> DEFINE N == Cardinality(S)
           f == [c \in S |-> Cardinality(RowsAfter(S, key, c))]
<1>1. N \in Nat /\ \A c \in S : /\ IsFiniteSet(RowsAfter(S, key, c))
                                /\ Cardinality(RowsAfter(S, key, c)) \in Nat
                                /\ key[c] \in Int
  <2>1. \A c \in S : RowsAfter(S, key, c) \in SUBSET S
    BY DEF RowsAfter
  <2> QED BY <2>1, FS_Subset, FS_CardinalityType
<1>2. ASSUME NEW c \in S, NEW k \in S, key[c] < key[k]
      PROVE  f[k] < f[c]
  <2>1. RowsAfter(S, key, k) \cup {k} \in SUBSET RowsAfter(S, key, c)
    <3>1. key[k] > key[c] /\ \A x \in RowsAfter(S, key, k) : key[x] > key[c]
      BY <1>1, <1>2 DEF RowsAfter
    <3> QED BY <3>1 DEF RowsAfter
  <2>2. k \notin RowsAfter(S, key, k)
    BY <1>1 DEF RowsAfter
  <2>3. Cardinality(RowsAfter(S, key, k) \cup {k}) = Cardinality(RowsAfter(S, key, k)) + 1
    BY <1>1, <2>2, FS_AddElement
  <2>4. Cardinality(RowsAfter(S, key, k)) + 1 <= Cardinality(RowsAfter(S, key, c))
    BY <1>1, <2>1, <2>3, FS_Subset
  <2> QED BY <1>1, <2>4
<1>3. ASSUME NEW c \in S PROVE f[c] \in 0 .. N - 1
  <2>1. RowsAfter(S, key, c) \in SUBSET (S \ {c})
    BY <1>1 DEF RowsAfter
  <2>2. IsFiniteSet(S \ {c}) /\ Cardinality(S \ {c}) = N - 1
    BY FS_RemoveElement
  <2>3. Cardinality(RowsAfter(S, key, c)) <= N - 1
    BY <2>1, <2>2, FS_Subset
  <2> HIDE DEF N
  <2> QED BY <1>1, <2>3
<1>4. f \in Injection(S, 0 .. N - 1)
  <2>1. ASSUME NEW c \in S, NEW k \in S, f[c] = f[k] PROVE c = k
    <3>1. ~(key[c] < key[k]) /\ ~(key[k] < key[c])
      <4>1. f[c] \in Nat /\ f[k] \in Nat
        BY <1>1
      <4> HIDE DEF f
      <4> QED BY <1>2, <2>1, <4>1
    <3> QED BY <1>1, <3>1
  <2> QED BY <1>3, <2>1 DEF Injection, IsInjective
<1>5. IsFiniteSet(0 .. N - 1) /\ Cardinality(0 .. N - 1) = N
  <2> HIDE DEF N
  <2>1. 0 \in Int /\ N - 1 \in Int
    BY <1>1
  <2>2. /\ IsFiniteSet(0 .. N - 1)
        /\ Cardinality(0 .. N - 1) = IF 0 > N - 1 THEN 0 ELSE N - 1 - 0 + 1
    BY <2>1, FS_Interval
  <2> QED BY <1>1, <2>2
<1>6. f \in Surjection(S, 0 .. N - 1)
  <2> HIDE DEF f
  <2> QED BY <1>4, <1>5, FS_Injection
<1> QED BY <1>4, <1>6 DEF Bijection

\* So a nonempty set has a last row,
LEMMA LastRow ==
  ASSUME NEW S, IsFiniteSet(S), S # {}, NEW key \in [S -> Int],
         \A c, k \in S : key[c] = key[k] => c = k
  PROVE  \E c \in S : \A k \in S : key[k] <= key[c]
<1> DEFINE f == [c \in S |-> Cardinality(RowsAfter(S, key, c))]
<1>1. f \in Bijection(S, 0 .. Cardinality(S) - 1)
  BY PositionsFromTheEnd
<1>2. 0 \in 0 .. Cardinality(S) - 1
  <2>1. Cardinality(S) \in Nat /\ Cardinality(S) # 0
    BY FS_CardinalityType, FS_EmptySet
  <2> QED BY <2>1
<1>3. PICK c \in S : f[c] = 0
  BY <1>1, <1>2 DEF Bijection, Surjection
<1>4. RowsAfter(S, key, c) = {}
  <2>1. IsFiniteSet(RowsAfter(S, key, c))
    BY FS_Subset DEF RowsAfter
  <2> QED BY <1>3, <2>1, FS_EmptySet
<1>5. ASSUME NEW k \in S PROVE key[k] <= key[c]
  <2>1. ~(key[k] > key[c]) /\ key[k] \in Int /\ key[c] \in Int
    BY <1>4 DEF RowsAfter
  <2> QED BY <2>1
<1> QED BY <1>5

\* and the rows with fewer than limit after them are limit rows, or all there are.
LEMMA LastRows ==
  ASSUME NEW S, IsFiniteSet(S), NEW key \in [S -> Int], NEW limit \in Nat,
         \A c, k \in S : key[c] = key[k] => c = k
  PROVE  Cardinality({c \in S : Cardinality(RowsAfter(S, key, c)) < limit})
           = IF Cardinality(S) <= limit THEN Cardinality(S) ELSE limit
<1> DEFINE N == Cardinality(S)
           f == [c \in S |-> Cardinality(RowsAfter(S, key, c))]
           m == IF N <= limit THEN N ELSE limit
           W == {c \in S : f[c] < limit}
           g == [c \in W |-> f[c]]
<1>1. N \in Nat /\ f \in Bijection(S, 0 .. N - 1)
  BY PositionsFromTheEnd, FS_CardinalityType
<1>2. W = {c \in S : Cardinality(RowsAfter(S, key, c)) < limit} /\ IsFiniteSet(W)
  BY FS_Subset
<1> HIDE DEF N, f
<1>3. /\ f \in [S -> 0 .. N - 1]
      /\ \A c, k \in S : f[c] = f[k] => c = k
      /\ \A i \in 0 .. N - 1 : \E c \in S : f[c] = i
  BY <1>1 DEF Bijection, Injection, IsInjective, Surjection
<1>4. g \in Bijection(W, 0 .. m - 1)
  <2>1. ASSUME NEW c \in W PROVE g[c] \in 0 .. m - 1
    <3>1. f[c] \in 0 .. N - 1 /\ f[c] < limit
      BY <1>3
    <3> QED BY <1>1, <3>1
  <2>2. ASSUME NEW i \in 0 .. m - 1 PROVE \E c \in W : g[c] = i
    <3>1. i \in 0 .. N - 1 /\ i < limit
      BY <1>1
    <3> QED BY <1>3, <3>1
  <2>3. \A c, k \in W : g[c] = g[k] => c = k
    BY <1>3
  <2> HIDE DEF W, g, m
  <2>4. g \in [W -> 0 .. m - 1]
    BY <2>1 DEF g
  <2> QED BY <2>2, <2>3, <2>4 DEF Bijection, Injection, IsInjective, Surjection
<1>5. ExistsBijection(W, 0 .. m - 1)
  BY <1>4 DEF ExistsBijection
<1>6. Cardinality(0 .. m - 1) = m
  <2>1. m \in Nat /\ 0 \in Int /\ m - 1 \in Int
    BY <1>1
  <2> HIDE DEF m
  <2>2. Cardinality(0 .. m - 1) = IF 0 > m - 1 THEN 0 ELSE m - 1 - 0 + 1
    BY <2>1, FS_Interval
  <2> QED BY <2>1, <2>2
<1>7. Cardinality(W) = m
  <2> HIDE DEF W, m
  <2> QED BY <1>2, <1>5, <1>6, FS_Bijection
<1> QED BY <1>2, <1>7 DEF N

\* What read_latest_candles promises of a decision time d: of every bar known at d one row,
\* the one of its highest version known at d; and of these the newest, limit of them or all.
NewestBars(u, d, limit) ==
    /\ \A c \in Known(u, d) :
          \E k \in Latest(u, d) : k.ts = c.ts /\ c.source_version <= k.source_version
    /\ \A c, k \in Latest(u, d) : c.ts = k.ts => c = k
    /\ \A c \in Window(u, d, limit), k \in Latest(u, d) \ Window(u, d, limit) : k.ts < c.ts
    /\ Cardinality(Window(u, d, limit))
         = IF Cardinality(Latest(u, d)) <= limit THEN Cardinality(Latest(u, d)) ELSE limit

\* The common table "latest" has one row of each bar that is known, so the window counts
\* bars and not rows.
LEMMA LatestRows ==
  ASSUME StoreInv, NEW u \in Instrument, NEW d \in Time
  PROVE  /\ IsFiniteSet(Latest(u, d))
         /\ \A c \in Latest(u, d) : c \in candles /\ c.ts \in Int
         /\ \A c, k \in Latest(u, d) : c.ts = k.ts => c = k
         /\ \A c \in Known(u, d) :
               \E k \in Latest(u, d) : k.ts = c.ts /\ c.source_version <= k.source_version
<1>1. /\ IsFiniteSet(Known(u, d)) /\ IsFiniteSet(Latest(u, d))
      /\ Latest(u, d) \subseteq Known(u, d) /\ Known(u, d) \subseteq candles
  <2>1. Known(u, d) \in SUBSET candles /\ Latest(u, d) \in SUBSET candles
    BY DEF Known, Latest
  <2> QED BY <2>1, FS_Subset DEF StoreInv, Latest
<1>2. ASSUME NEW c \in candles PROVE c.ts \in Int /\ c.source_version \in Int
  <2>1. c \in CandleRow
    BY DEF StoreInv, TypeOK
  <2>2. c.ts \in Bar /\ c.source_version \in 1..MaxVersion
    BY <2>1 DEF CandleRow
  <2>3. Bar \subseteq Int
    BY StoreAssumption DEF Time, Gate!GateAssumption
  <2>4. 1..MaxVersion \subseteq Int
    BY StoreAssumption
  <2> QED BY <2>2, <2>3, <2>4
<1>3. ASSUME NEW c \in Known(u, d), NEW k \in Known(u, d),
             c.ts = k.ts, c.source_version = k.source_version
      PROVE  c = k
  BY <1>1, <1>3 DEF Known, StoreInv, KeysUnique, CandleKey
<1>4. ASSUME NEW c \in Latest(u, d), NEW k \in Latest(u, d), c.ts = k.ts PROVE c = k
  <2>1. c.source_version <= k.source_version /\ k.source_version <= c.source_version
    BY <1>1, <1>4 DEF Latest
  <2> QED BY <1>1, <1>2, <1>3, <1>4, <2>1
<1>5. ASSUME NEW c \in Known(u, d)
      PROVE  \E k \in Latest(u, d) : k.ts = c.ts /\ c.source_version <= k.source_version
  <2> DEFINE S == {k \in Known(u, d) : k.ts = c.ts}
             version == [k \in S |-> k.source_version]
  <2>1. IsFiniteSet(S) /\ c \in S
    BY <1>1, FS_Subset
  <2>2. version \in [S -> Int] /\ \A x, y \in S : version[x] = version[y] => x = y
    BY <1>1, <1>2, <1>3
  <2>3. \E k \in S : \A x \in S : version[x] <= version[k]
    <3> HIDE DEF S, version
    <3> QED BY <2>1, <2>2, LastRow
  <2>4. PICK k \in S : \A x \in S : x.source_version <= k.source_version
    BY <2>3
  <2>5. k \in Latest(u, d)
    BY <2>4 DEF Latest
  <2> QED BY <2>1, <2>4, <2>5
<1> QED BY <1>1, <1>2, <1>4, <1>5

\* In every reachable state, of every instrument, decision time and limit.
THEOREM ReadIsNewestBars ==
  Spec => [](\A u \in Instrument, d \in Time, limit \in Nat : NewestBars(u, d, limit))
<1>1. ASSUME StoreInv, NEW u \in Instrument, NEW d \in Time, NEW limit \in Nat
      PROVE  NewestBars(u, d, limit)
  <2> DEFINE S == Latest(u, d)
             ts == [c \in S |-> c.ts]
  <2>1. /\ IsFiniteSet(S)
        /\ \A c \in S : c.ts \in Int
        /\ \A c, k \in S : c.ts = k.ts => c = k
        /\ \A c \in Known(u, d) : \E k \in S : k.ts = c.ts /\ c.source_version <= k.source_version
    BY <1>1, LatestRows
  <2> HIDE DEF S
  <2>2. ts \in [S -> Int] /\ \A c, k \in S : ts[c] = ts[k] => c = k
    BY <2>1
  <2>3. \A c \in S : RowsAfter(S, ts, c) = {k \in S : k.ts > c.ts}
    BY DEF RowsAfter
  <2>4. Window(u, d, limit) = {c \in S : Cardinality(RowsAfter(S, ts, c)) < limit}
    BY <2>3 DEF Window, S
  <2>5. Cardinality(Window(u, d, limit)) = IF Cardinality(S) <= limit THEN Cardinality(S) ELSE limit
    <3> HIDE DEF ts
    <3> QED BY <2>1, <2>2, <2>4, LastRows
  <2>6. ASSUME NEW c \in Window(u, d, limit), NEW k \in S \ Window(u, d, limit)
        PROVE  k.ts < c.ts
    <3>1. c \in S /\ c.ts \in Int /\ k.ts \in Int
      BY <2>1, <2>4
    <3>2. ~(k.ts > c.ts)
      <4> SUFFICES ASSUME k.ts > c.ts PROVE FALSE
        OBVIOUS
      <4>1. RowsAfter(S, ts, k) \in SUBSET RowsAfter(S, ts, c)
        <5>1. ASSUME NEW x \in S, x.ts > k.ts PROVE x.ts > c.ts
          BY <2>1, <3>1, <5>1
        <5> QED BY <2>3, <3>1, <5>1
      <4>2. IsFiniteSet(RowsAfter(S, ts, c)) /\ IsFiniteSet(RowsAfter(S, ts, k))
        BY <2>1, FS_Subset DEF RowsAfter
      <4>3. /\ Cardinality(RowsAfter(S, ts, k)) <= Cardinality(RowsAfter(S, ts, c))
            /\ Cardinality(RowsAfter(S, ts, k)) \in Nat /\ Cardinality(RowsAfter(S, ts, c)) \in Nat
        BY <4>1, <4>2, FS_Subset, FS_CardinalityType
      <4>4. Cardinality(RowsAfter(S, ts, c)) < limit /\ ~(Cardinality(RowsAfter(S, ts, k)) < limit)
        BY <2>4
      <4> QED BY <4>3, <4>4
    <3>3. k.ts # c.ts
      BY <2>1, <3>1
    <3> QED BY <3>1, <3>2, <3>3
  <2> QED BY <2>1, <2>5, <2>6 DEF NewestBars, S
<1>2. StoreInv => \A u \in Instrument, d \in Time, limit \in Nat : NewestBars(u, d, limit)
  BY <1>1
<1> QED BY <1>2, StoreInvariant, PTL

=============================================================================
