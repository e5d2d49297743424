----------------------------- MODULE RegistryProofs -----------------------------
(***************************************************************************)
(* Proofs about Registry for any tickers, statuses, uids and number of     *)
(* changes.  OneUidPerTicker and JournalExplainsStatus are inductive with  *)
(* the types: a planned uid is an unused one or the ticker's own share row *)
(* (pass 1), and a journal that explained the old status of a row explains *)
(* the new one, because an entry is appended only when the two differ.     *)
(***************************************************************************)
EXTENDS Registry, SequenceTheorems, TLAPS

RegistryInv == TypeOK /\ OneUidPerTicker /\ JournalExplainsStatus

\* A change of u's row to the status the lists give its ticker t.
ChangedRow(lists, u, t) ==
    /\ StatusOf(lists, t) \in Status
    /\ u \in Rows => /\ reference[u].instrument_kind = "share"
                     /\ reference[u].ticker = t
                     /\ reference[u].whitelist_status # StatusOf(lists, t)
    /\ \A v \in RowsOfKind("share") : reference[v].ticker = t => v = u
    /\ reference'[u] = NewRow(lists, u, t)
    /\ journal'[u] = Append(journal[u], JournalEntry(lists, u, t))

-----------------------------------------------------------------------------
\* A listed ticker has a status, and its planned uid is one.
LEMMA PlanTypes ==
  ASSUME NEW lists \in Lists, NEW uids \in Supplied, NEW t \in Listed(lists)
  PROVE  /\ t \in Ticker
         /\ StatusOf(lists, t) \in Status
         /\ PlannedUid(uids, t) \in Uid
<1>1. t \in Ticker /\ StatusOf(lists, t) \in Status
  <2>1. PICK s \in Status : t \in lists[s]
    BY DEF Listed
  <2>2. t \in Ticker
    BY <2>1 DEF Lists
  <2> QED BY <2>1, <2>2 DEF StatusOf
<1>2. PlannedUid(uids, t) \in Uid
  <2>1. PICK T \in SUBSET Ticker : uids \in [T -> Uid]
    BY DEF Supplied
  <2> QED BY <1>1, <2>1, RegistryAssumption DEF PlannedUid
<1> QED BY <1>1, <1>2

\* What a materialization does to each uid: nothing, or one change of the row planned for
\* one ticker.
LEMMA MaterializeRows ==
  ASSUME NEW lists \in Lists, NEW uids \in Supplied,
         MaterializeUniverseRegistry(lists, uids)
  PROVE  /\ reference' = [u \in Uid |-> reference'[u]]
         /\ journal' = [u \in Uid |-> journal'[u]]
         /\ \A u \in Uid :
              \/ reference'[u] = reference[u] /\ journal'[u] = journal[u]
              \/ \E t \in Ticker : u = PlannedUid(uids, t) /\ ChangedRow(lists, u, t)
<1> DEFINE changed == Changed(lists, uids)
           ticker(u) == CHOOSE t \in changed : PlannedUid(uids, t) = u
           targets == {PlannedUid(uids, t) : t \in changed}
<1>1. /\ \A t \in Listed(lists) : Plannable(lists, uids, t)
      /\ reference' = [u \in Uid |-> IF u \in targets THEN NewRow(lists, u, ticker(u))
                                                     ELSE reference[u]]
      /\ journal' = [u \in Uid |->
                       IF u \in targets
                       THEN Append(journal[u], JournalEntry(lists, u, ticker(u)))
                       ELSE journal[u]]
  BY Zenon DEF MaterializeUniverseRegistry
<1>2. ASSUME NEW u \in Uid, u \in targets
      PROVE  \E t \in Ticker : u = PlannedUid(uids, t) /\ ChangedRow(lists, u, t)
  <2> DEFINE t == ticker(u)
  <2>1. t \in changed /\ PlannedUid(uids, t) = u
    <3>1. \E x \in changed : PlannedUid(uids, x) = u
      BY <1>2
    <3> QED BY <3>1
  <2>2. /\ reference'[u] = NewRow(lists, u, t)
        /\ journal'[u] = Append(journal[u], JournalEntry(lists, u, t))
    <3> HIDE DEF targets, t
    <3>1. \A v \in Uid : v \in targets => /\ reference'[v] = NewRow(lists, v, ticker(v))
                                          /\ journal'[v] = Append(journal[v],
                                                                  JournalEntry(lists, v, ticker(v)))
      <4> HIDE DEF ticker
      <4> QED BY <1>1
    <3> QED BY <1>2, <3>1 DEF t
  <2> HIDE DEF t
  <2>3. /\ t \in Listed(lists)
        /\ u \in Rows => reference[u].whitelist_status # StatusOf(lists, t)
    BY <2>1 DEF Changed
  <2>4. Plannable(lists, uids, t)
    BY <1>1, <2>3
  <2>5. t \in Ticker /\ StatusOf(lists, t) \in Status
    BY <2>3, PlanTypes
  <2> QED BY <2>1, <2>2, <2>3, <2>4, <2>5 DEF Plannable, ChangedRow
<1>3. ASSUME NEW u \in Uid, u \notin targets
      PROVE  reference'[u] = reference[u] /\ journal'[u] = journal[u]
  <2> HIDE DEF targets, ticker
  <2> QED BY <1>1, <1>3
<1> HIDE DEF targets, ticker
<1> QED BY <1>1, <1>2, <1>3

\* Seeding gives one unused uid a row of its own.
LEMMA SeedRow ==
  ASSUME TypeOK, NEW t \in Ticker, NEW given \in Uid \cup {NULL},
         SeedIndexReference(t, SeedUid(t, given))
  PROVE  \E u \in Uid \ Rows :
           /\ \A v \in RowsOfKind("index") : reference[v].ticker # t
           /\ reference' = [reference EXCEPT ![u] =
                 [ticker |-> t, instrument_kind |-> "index",
                  whitelist_status |-> NULL, source_version |-> 1]]
           /\ journal' = journal
<1>1. SeedUid(t, given) \in Uid
  BY RegistryAssumption DEF SeedUid
<1> QED BY <1>1 DEF SeedIndexReference

-----------------------------------------------------------------------------
(* The journal. *)

\* The part of JournalExplainsStatus about one uid, for its row r and its changes.
Replays(changes) ==
    /\ \A i \in 1..Len(changes) : changes[i].old_status =
                                     IF i = 1 THEN NULL ELSE changes[i - 1].new_status
    /\ \A i \in 1..Len(changes) : changes[i].new_status # changes[i].old_status

Explained(u) ==
    /\ Replays(journal[u])
    /\ u \in RowsOfKind("share") =>
         /\ Len(journal[u]) > 0
         /\ reference[u].source_version = Len(journal[u])
         /\ reference[u].whitelist_status = journal[u][Len(journal[u])].new_status
    /\ u \notin RowsOfKind("share") => Len(journal[u]) = 0

\* The property is that of every uid.
LEMMA ExplainedIsProperty == JournalExplainsStatus <=> \A u \in Uid : Explained(u)
  BY DEF JournalExplainsStatus, Explained, Replays

\* A journal that replays still does after a change from the status it ends in.
LEMMA ReplayExtends ==
  ASSUME NEW changes \in Seq(Change), Replays(changes), NEW e \in Change,
         e.new_status # e.old_status,
         e.old_status = IF Len(changes) = 0 THEN NULL
                        ELSE changes[Len(changes)].new_status
  PROVE  /\ Append(changes, e) \in Seq(Change)
         /\ Len(Append(changes, e)) = Len(changes) + 1
         /\ Append(changes, e)[Len(changes) + 1] = e
         /\ Replays(Append(changes, e))
<1> DEFINE n == Len(changes)
           more == Append(changes, e)
<1>1. /\ more \in Seq(Change) /\ Len(more) = n + 1 /\ n \in Nat
      /\ \A i \in 1..n : more[i] = changes[i]
      /\ more[n + 1] = e
  BY AppendProperties, LenProperties
<1> HIDE DEF more
<1>2. ASSUME NEW i \in 1..n + 1
      PROVE  /\ more[i].old_status = IF i = 1 THEN NULL ELSE more[i - 1].new_status
             /\ more[i].new_status # more[i].old_status
  <2>1. CASE i = n + 1
    <3>1. n > 0 => more[n] = changes[n]
      BY <1>1
    <3>2. (n = 0 <=> i = 1) /\ i - 1 = n
      BY <1>1, <2>1
    <3> QED BY <1>1, <2>1, <3>1, <3>2
  <2>2. CASE i # n + 1
    <3>1. i \in 1..n /\ (i # 1 => i - 1 \in 1..n)
      BY <1>1, <2>2
    <3> QED BY <1>1, <3>1 DEF Replays
  <2> QED BY <2>1, <2>2
<1>3. Replays(more)
  BY <1>1, <1>2 DEF Replays
<1> QED BY <1>1, <1>3 DEF more

-----------------------------------------------------------------------------
(* The steps. *)

\* The change of a row: a share row of its ticker, journaled by one entry.
LEMMA ChangedRowInv ==
  ASSUME TypeOK, NEW u \in Uid, Explained(u), NEW lists, NEW t \in Ticker,
         ChangedRow(lists, u, t)
  PROVE  /\ reference'[u] \in Row /\ reference'[u] # NoRow
         /\ reference'[u].instrument_kind = "share"
         /\ reference'[u].ticker = t
         /\ reference'[u].whitelist_status \in Status
         /\ journal'[u] \in Seq(Change)
         /\ Explained(u)'
         /\ Len(journal'[u]) = Len(journal[u]) + 1
         /\ u \in Rows => journal'[u][Len(journal'[u])]
                            = [old_status |-> reference[u].whitelist_status,
                               new_status |-> reference'[u].whitelist_status]
<1> DEFINE z == StatusOf(lists, t)
           e == JournalEntry(lists, u, t)
           n == Len(journal[u])
<1>1. /\ journal[u] \in Seq(Change) /\ n \in Nat
      /\ NULL \notin Status /\ NoRow \notin Row
      /\ u \in Rows => reference[u] \in Row /\ u \in RowsOfKind("share")
      /\ u \notin Rows => u \notin RowsOfKind("share")
      /\ u \in Uid
  BY LenProperties, RegistryAssumption DEF TypeOK, Rows, RowsOfKind, ChangedRow
<1>2. z \in Status /\ (u \in Rows => reference[u].whitelist_status # z)
  BY DEF ChangedRow
<1>3. u \in Rows => n > 0 /\ reference[u].source_version = n
                    /\ reference[u].whitelist_status = journal[u][n].new_status
  BY <1>1 DEF Explained
<1>4. u \notin Rows => n = 0
  BY <1>1 DEF Explained
<1>5. /\ e.new_status = z
      /\ e.old_status = IF u \in Rows THEN reference[u].whitelist_status ELSE NULL
      /\ e = [old_status |-> IF u \in Rows THEN reference[u].whitelist_status ELSE NULL,
              new_status |-> z]
  BY DEF JournalEntry
<1>6. /\ reference'[u].ticker = t /\ reference'[u].instrument_kind = "share"
      /\ reference'[u].whitelist_status = z
      /\ reference'[u].source_version = IF u \in Rows THEN reference[u].source_version + 1 ELSE 1
      /\ reference'[u] = [ticker |-> t, instrument_kind |-> "share", whitelist_status |-> z,
                          source_version |-> IF u \in Rows THEN reference[u].source_version + 1
                                                           ELSE 1]
  BY DEF ChangedRow, NewRow
<1>7. journal'[u] = Append(journal[u], e)
  BY DEF ChangedRow
<1> HIDE DEF z, e, n
<1>8. e \in Change
  BY <1>1, <1>2, <1>5 DEF Change, Row
<1>9. e.new_status # e.old_status
  BY <1>1, <1>2, <1>5
<1>10. e.old_status = IF n = 0 THEN NULL ELSE journal[u][n].new_status
  BY <1>1, <1>3, <1>4, <1>5
<1>11. /\ journal'[u] \in Seq(Change) /\ Len(journal'[u]) = n + 1
       /\ journal'[u][n + 1] = e /\ Replays(journal'[u])
  <2>1. Replays(journal[u])
    BY DEF Explained
  <2> QED BY <1>1, <1>7, <1>8, <1>9, <1>10, <2>1, ReplayExtends DEF n
<1>12. reference'[u] \in Row /\ reference'[u] # NoRow
  <2>1. reference'[u].source_version \in Nat
    BY <1>1, <1>3, <1>6
  <2> QED BY <1>1, <1>2, <1>6, <2>1 DEF Row, Kind
<1>13. u \in RowsOfKind("share")'
  BY <1>1, <1>6, <1>12 DEF Rows, RowsOfKind
<1>14. reference'[u].source_version = n + 1
  BY <1>1, <1>3, <1>4, <1>6
<1>15. Explained(u)'
  BY <1>1, <1>5, <1>6, <1>11, <1>13, <1>14 DEF Explained, Replays
<1> QED BY <1>1, <1>2, <1>5, <1>6, <1>11, <1>12, <1>15 DEF n

\* A row nothing happens to stays explained.
LEMMA UnchangedRowInv ==
  ASSUME NEW u \in Uid, Explained(u), reference'[u] = reference[u], journal'[u] = journal[u]
  PROVE  Explained(u)'
<1>1. u \in RowsOfKind("share")' <=> u \in RowsOfKind("share")
  BY DEF RowsOfKind, Rows
<1> QED BY <1>1 DEF Explained, Replays

\* The empty registry.
LEMMA RegistryInvInit == Init => RegistryInv
<1> SUFFICES ASSUME Init PROVE RegistryInv
  OBVIOUS
<1>1. Rows = {} /\ \A u \in Uid : journal[u] = << >>
  BY DEF Init, Rows
<1>2. TypeOK /\ OneUidPerTicker
  <2>1. << >> \in Seq(Change)
    BY EmptySeq
  <2> QED BY <1>1, <2>1 DEF Init, TypeOK, OneUidPerTicker
<1>3. ASSUME NEW u \in Uid PROVE Explained(u)
  <2>1. Len(journal[u]) = 0
    BY <1>1, EmptySeq
  <2> QED BY <1>1, <2>1 DEF Explained, Replays, RowsOfKind
<1> QED BY <1>2, <1>3, ExplainedIsProperty DEF RegistryInv

\* A materialization: rows of two tickers never meet in one uid, nor one ticker in two.
LEMMA MaterializeInv ==
  ASSUME RegistryInv, NEW lists \in Lists, NEW uids \in Supplied,
         MaterializeUniverseRegistry(lists, uids)
  PROVE  RegistryInv'
<1>1. /\ reference' = [u \in Uid |-> reference'[u]]
      /\ journal' = [u \in Uid |-> journal'[u]]
      /\ \A u \in Uid :
           \/ reference'[u] = reference[u] /\ journal'[u] = journal[u]
           \/ \E t \in Ticker : u = PlannedUid(uids, t) /\ ChangedRow(lists, u, t)
  BY MaterializeRows
<1>2. TypeOK /\ \A u \in Uid : Explained(u)
  BY ExplainedIsProperty DEF RegistryInv
<1>3. ASSUME NEW u \in Uid
      PROVE  /\ reference'[u] \in Row \cup {NoRow}
             /\ u \in Rows' => (reference'[u].instrument_kind = "index"
                                  <=> reference'[u].whitelist_status = NULL)
             /\ journal'[u] \in Seq(Change)
             /\ Explained(u)'
  <2>1. CASE reference'[u] = reference[u] /\ journal'[u] = journal[u]
    BY <1>2, <2>1, UnchangedRowInv DEF TypeOK, Rows
  <2>2. CASE \E t \in Ticker : u = PlannedUid(uids, t) /\ ChangedRow(lists, u, t)
    BY <1>2, <2>2, ChangedRowInv, RegistryAssumption
  <2> QED BY <1>1, <2>1, <2>2
<1>4. TypeOK'
  <2>1. reference' \in [Uid -> Row \cup {NoRow}]
    BY <1>1, <1>3
  <2>2. \A u \in Rows' : u \in Uid
    BY DEF Rows
  <2> QED BY <1>3, <2>1, <2>2 DEF TypeOK
<1>5. OneUidPerTicker'
  <2> SUFFICES ASSUME NEW u \in Rows', NEW v \in Rows',
                      reference'[u].ticker = reference'[v].ticker,
                      reference'[u].instrument_kind = reference'[v].instrument_kind
               PROVE  u = v
    BY DEF OneUidPerTicker
  <2>1. u \in Uid /\ v \in Uid
    BY DEF Rows
  \* The ticker of a changed row is in no other row, changed or not.
  <2>2. ASSUME NEW x \in Rows', NEW y \in Rows', NEW t \in Ticker, x = PlannedUid(uids, t),
               ChangedRow(lists, x, t), reference'[x].ticker = reference'[y].ticker,
               reference'[x].instrument_kind = reference'[y].instrument_kind
        PROVE  x = y
    <3>1. x \in Uid /\ y \in Uid
      BY DEF Rows
    <3>2. reference'[x].ticker = t /\ reference'[x].instrument_kind = "share"
      BY <1>2, <2>2, <3>1, ChangedRowInv
    <3>3. CASE reference'[y] = reference[y]
      <4>1. y \in RowsOfKind("share") /\ reference[y].ticker = t
        BY <2>2, <3>2, <3>3 DEF Rows, RowsOfKind
      <4> QED BY <2>2, <4>1 DEF ChangedRow
    <3>4. CASE \E z \in Ticker : y = PlannedUid(uids, z) /\ ChangedRow(lists, y, z)
      <4>1. PICK z \in Ticker : y = PlannedUid(uids, z) /\ ChangedRow(lists, y, z)
        BY <3>4
      <4>2. reference'[y].ticker = z
        BY <1>2, <3>1, <4>1, ChangedRowInv
      <4> QED BY <2>2, <3>2, <4>1, <4>2
    <3> QED BY <1>1, <3>1, <3>3, <3>4
  <2>3. CASE \E t \in Ticker : u = PlannedUid(uids, t) /\ ChangedRow(lists, u, t)
    BY <2>2, <2>3
  <2>4. CASE \E t \in Ticker : v = PlannedUid(uids, t) /\ ChangedRow(lists, v, t)
    BY <2>2, <2>4
  <2>5. CASE reference'[u] = reference[u] /\ reference'[v] = reference[v]
    BY <2>5 DEF RegistryInv, OneUidPerTicker, Rows
  <2> QED BY <1>1, <2>1, <2>3, <2>4, <2>5
<1>6. (\A u \in Uid : Explained(u))' => JournalExplainsStatus'
  BY DEF JournalExplainsStatus, Explained, Replays
<1> QED BY <1>3, <1>4, <1>5, <1>6 DEF RegistryInv

\* A seeded index row: its uid was unused, so it has no history.
LEMMA SeedInv ==
  ASSUME RegistryInv, NEW t \in Ticker, NEW given \in Uid \cup {NULL},
         SeedIndexReference(t, SeedUid(t, given))
  PROVE  RegistryInv'
<1> DEFINE seeded == [ticker |-> t, instrument_kind |-> "index",
                      whitelist_status |-> NULL, source_version |-> 1]
<1>1. TypeOK /\ OneUidPerTicker /\ \A u \in Uid : Explained(u)
  BY ExplainedIsProperty DEF RegistryInv
<1>2. PICK u \in Uid \ Rows :
        /\ \A v \in RowsOfKind("index") : reference[v].ticker # t
        /\ reference' = [reference EXCEPT ![u] = seeded]
        /\ journal' = journal
  BY <1>1, SeedRow
<1>3. seeded \in Row /\ seeded # NoRow /\ seeded.ticker = t
      /\ seeded.instrument_kind = "index" /\ seeded.whitelist_status = NULL
  BY RegistryAssumption DEF Row, Kind
<1> HIDE DEF seeded
<1>4. /\ reference' \in [Uid -> Row \cup {NoRow}]
      /\ reference'[u] = seeded
      /\ \A v \in Uid : v # u => reference'[v] = reference[v]
      /\ Rows' = Rows \cup {u}
  <2>1. /\ reference' \in [Uid -> Row \cup {NoRow}]
        /\ reference'[u] = seeded
        /\ \A v \in Uid : v # u => reference'[v] = reference[v]
    BY <1>1, <1>2, <1>3 DEF TypeOK
  <2> QED BY <1>3, <2>1 DEF Rows
<1>5. TypeOK'
  BY <1>1, <1>2, <1>3, <1>4 DEF TypeOK, Rows
<1>6. OneUidPerTicker'
  BY <1>1, <1>2, <1>3, <1>4 DEF OneUidPerTicker, Rows, RowsOfKind
<1>7. ASSUME NEW v \in Uid PROVE Explained(v)'
  <2>1. v \in RowsOfKind("share")' <=> v \in RowsOfKind("share")
    BY <1>2, <1>3, <1>4 DEF RowsOfKind, Rows
  <2>2. v \in RowsOfKind("share") => reference'[v] = reference[v]
    BY <1>2, <1>4 DEF RowsOfKind, Rows
  <2> QED BY <1>1, <1>2, <2>1, <2>2 DEF Explained, Replays
<1>8. (\A v \in Uid : Explained(v))' => JournalExplainsStatus'
  BY DEF JournalExplainsStatus, Explained, Replays
<1> QED BY <1>5, <1>6, <1>7, <1>8 DEF RegistryInv

\* Every step keeps the invariant.
LEMMA RegistryInvStep == RegistryInv /\ [Next]_vars => RegistryInv'
<1> SUFFICES ASSUME RegistryInv, [Next]_vars PROVE RegistryInv'
  OBVIOUS
<1>1. CASE \E lists \in Lists, uids \in Supplied : MaterializeUniverseRegistry(lists, uids)
  BY <1>1, MaterializeInv
<1>2. CASE \E t \in Ticker, given \in Uid \cup {NULL} : SeedIndexReference(t, SeedUid(t, given))
  BY <1>2, SeedInv
<1>3. CASE UNCHANGED vars
  BY <1>3 DEF vars, RegistryInv, TypeOK, OneUidPerTicker, JournalExplainsStatus, Rows, RowsOfKind
<1> QED BY <1>1, <1>2, <1>3 DEF Next

\* So it holds in every reachable state.
LEMMA RegistryInvariant == Spec => []RegistryInv
  BY RegistryInvInit, RegistryInvStep, PTL DEF Spec

-----------------------------------------------------------------------------
(* The theorems. *)

\* Rows and journal keep to their columns.
THEOREM RegistryTypeCorrect == Spec => []TypeOK
<1>1. RegistryInv => TypeOK
  BY DEF RegistryInv
<1> QED BY <1>1, RegistryInvariant, PTL

\* No sequence of configs, supplied uids and seeds brings a ticker under two uids.
THEOREM OneUidPerTickerAlways == Spec => []OneUidPerTicker
<1>1. RegistryInv => OneUidPerTicker
  BY DEF RegistryInv
<1> QED BY <1>1, RegistryInvariant, PTL

\* The journal of a row replays to its status, and source_version counts its entries.
THEOREM JournalAlwaysExplains == Spec => []JournalExplainsStatus
<1>1. RegistryInv => JournalExplainsStatus
  BY DEF RegistryInv
<1> QED BY <1>1, RegistryInvariant, PTL

\* No row is deleted, given to another instrument or changed but by one journaled change.
THEOREM ChangesNeverSilent == Spec => NoSilentChange
<1> DEFINE Journaled ==
             \A u \in Rows :
               /\ u \in Rows'
               /\ reference'[u].ticker = reference[u].ticker
               /\ reference'[u].instrument_kind = reference[u].instrument_kind
               /\ reference'[u] # reference[u] =>
                    /\ Len(journal'[u]) = Len(journal[u]) + 1
                    /\ journal'[u][Len(journal'[u])]
                         = [old_status |-> reference[u].whitelist_status,
                            new_status |-> reference'[u].whitelist_status]
<1>1. ASSUME RegistryInv, Next PROVE Journaled
  <2> SUFFICES ASSUME NEW u \in Rows
               PROVE  \/ reference'[u] = reference[u]
                      \/ /\ u \in Rows'
                         /\ reference'[u].ticker = reference[u].ticker
                         /\ reference'[u].instrument_kind = reference[u].instrument_kind
                         /\ Len(journal'[u]) = Len(journal[u]) + 1
                         /\ journal'[u][Len(journal'[u])]
                              = [old_status |-> reference[u].whitelist_status,
                                 new_status |-> reference'[u].whitelist_status]
    BY DEF Rows
  <2>1. u \in Uid /\ TypeOK /\ Explained(u)
    BY <1>1, ExplainedIsProperty DEF Rows, RegistryInv
  <2>2. CASE \E lists \in Lists, uids \in Supplied : MaterializeUniverseRegistry(lists, uids)
    <3>1. PICK lists \in Lists, uids \in Supplied : MaterializeUniverseRegistry(lists, uids)
      BY <2>2
    <3>2. CASE \E t \in Ticker : u = PlannedUid(uids, t) /\ ChangedRow(lists, u, t)
      <4>1. PICK t \in Ticker : ChangedRow(lists, u, t)
        BY <3>2
      <4>2. reference[u].ticker = t /\ reference[u].instrument_kind = "share"
        BY <4>1 DEF ChangedRow
      <4>3. u \in Rows'
        BY <2>1, <4>1, ChangedRowInv DEF Rows
      <4> QED BY <2>1, <4>1, <4>2, <4>3, ChangedRowInv
    <3> QED BY <2>1, <3>1, <3>2, MaterializeRows
  <2>3. CASE \E t \in Ticker, given \in Uid \cup {NULL} :
               SeedIndexReference(t, SeedUid(t, given))
    BY <2>1, <2>3, SeedRow DEF TypeOK
  <2> QED BY <1>1, <2>2, <2>3 DEF Next
<1>2. RegistryInv /\ [Next]_vars => [Journaled]_vars
  BY <1>1
<1> QED BY <1>2, RegistryInvariant, PTL DEF Spec, NoSilentChange

=============================================================================
