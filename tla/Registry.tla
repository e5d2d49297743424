------------------------------- MODULE Registry -------------------------------
(***************************************************************************)
(* The managed registry of src/stonksbot/data/registry.py: the universe    *)
(* lists of the config materialized into instrument_reference, index rows  *)
(* seeded beside them, every status change journaled.                      *)
(*                                                                         *)
(* materialize_universe_registry plans on the rows it finds (pass 1, every *)
(* refusal) and then writes them (pass 2) in its caller's transaction: one *)
(* action, disabled where pass 1 raises.  The journal keeps, per uid, the  *)
(* changes in the order they were appended; tickers are normalized.        *)
(***************************************************************************)
EXTENDS Naturals, Sequences, FiniteSets

CONSTANTS
    Ticker, Status, Uid,
    ShareUid, IndexUid,     \* moex_synthetic_uid of each ticker, by kind
    MaxChanges,             \* bound on the changes of one row
    NULL, NoRow

Kind == {"share", "index"}

Row == [ticker : Ticker, instrument_kind : Kind,
        whitelist_status : Status \cup {NULL}, source_version : Nat]

Change == [old_status : Status \cup {NULL}, new_status : Status]

ASSUME RegistryAssumption ==
    /\ Status \subseteq {"approved", "managed_only", "watch_only", "blocked", "pending"}
    /\ ShareUid \in [Ticker -> Uid]
    /\ IndexUid \in [Ticker -> Uid]
    /\ \A t, s \in Ticker : /\ ShareUid[t] = ShareUid[s] => t = s
                            /\ IndexUid[t] = IndexUid[s] => t = s
                            /\ ShareUid[t] # IndexUid[s]
    /\ MaxChanges \in Nat
    /\ NULL \notin Status \cup Uid
    /\ NoRow \notin Row

VARIABLES
    reference,      \* instrument_reference: the row of each uid
    journal         \* the universe_status_change rows of each uid, in order

vars == <<reference, journal>>

Init ==
    /\ reference = [u \in Uid |-> NoRow]
    /\ journal = [u \in Uid |-> << >>]

-----------------------------------------------------------------------------
Rows == {u \in Uid : reference[u] # NoRow}

RowsOfKind(kind) == {u \in Rows : reference[u].instrument_kind = kind}

\* build_universe_status_map refuses a ticker two lists name, and maps the others.
OneStatusEach(lists) ==
    \A s, z \in Status : s # z => lists[s] \cap lists[z] = {}

Listed(lists) == UNION {lists[s] : s \in Status}

StatusOf(lists, t) == CHOOSE s \in Status : t \in lists[s]

\* The uid a ticker is planned under: uids_by_ticker's, or the synthetic one.
PlannedUid(uids, t) == IF t \in DOMAIN uids THEN uids[t] ELSE ShareUid[t]

\* Mutation: without the clash query.
Plannable_NoClashCheck(lists, uids, t) ==
    LET u == PlannedUid(uids, t)
    IN  /\ \A s \in Listed(lists) : PlannedUid(uids, s) = u => s = t
        /\ u \in Rows => /\ reference[u].instrument_kind = "share"
                         /\ reference[u].ticker = t

\* Mutation: an existing row of the uid is reused for the ticker.
Plannable_Repurposing(lists, uids, t) ==
    LET u == PlannedUid(uids, t)
    IN  /\ \A s \in Listed(lists) : PlannedUid(uids, s) = u => s = t
        /\ \A v \in RowsOfKind("share") : reference[v].ticker = t => v = u

\* Pass 1 does not raise on ticker t.
Plannable(lists, uids, t) ==
    LET u == PlannedUid(uids, t)
    IN  /\ \A s \in Listed(lists) : PlannedUid(uids, s) = u => s = t
        /\ \A v \in RowsOfKind("share") : reference[v].ticker = t => v = u
        /\ u \in Rows => /\ reference[u].instrument_kind = "share"
                         /\ reference[u].ticker = t

\* Mutation: without the check that the status changes.
Changed_All(lists, uids) == Listed(lists)

\* Pass 2: an insert, or an update of the status, for every planned ticker whose row
\* does not have its status yet.
Changed(lists, uids) ==
    {t \in Listed(lists) :
        LET u == PlannedUid(uids, t)
        IN  u \notin Rows \/ reference[u].whitelist_status # StatusOf(lists, t)}

NewRow(lists, u, t) ==
    [ticker |-> t, instrument_kind |-> "share", whitelist_status |-> StatusOf(lists, t),
     source_version |-> IF u \in Rows THEN reference[u].source_version + 1 ELSE 1]

\* _journal_status_change
JournalEntry(lists, u, t) ==
    [old_status |-> IF u \in Rows THEN reference[u].whitelist_status ELSE NULL,
     new_status |-> StatusOf(lists, t)]

MaterializeUniverseRegistry(lists, uids) ==
    /\ OneStatusEach(lists)
    /\ Listed(lists) # {}
    /\ \A t \in Listed(lists) : Plannable(lists, uids, t)
    /\ LET changed == Changed(lists, uids)
           ticker(u) == CHOOSE t \in changed : PlannedUid(uids, t) = u
           targets == {PlannedUid(uids, t) : t \in changed}
       IN  /\ \A u \in targets : Len(journal[u]) < MaxChanges
           /\ reference' = [u \in Uid |-> IF u \in targets THEN NewRow(lists, u, ticker(u))
                                                          ELSE reference[u]]
           /\ journal' = [u \in Uid |->
                            IF u \in targets
                            THEN Append(journal[u], JournalEntry(lists, u, ticker(u)))
                            ELSE journal[u]]

\* The uid given to seed_index_reference, or the synthetic one of the index.
SeedUid(t, given) == IF given = NULL THEN IndexUid[t] ELSE given

\* Mutation: the index row gets a whitelist status.
SeedIndexReference_Listed(t, u) ==
    /\ u \notin Rows
    /\ \A v \in RowsOfKind("index") : reference[v].ticker # t
    /\ \E s \in Status : reference' = [reference EXCEPT ![u] =
          [ticker |-> t, instrument_kind |-> "index",
           whitelist_status |-> s, source_version |-> 1]]
    /\ UNCHANGED journal

\* A row that already is this index is a no-op; any other use of the uid raises.
SeedIndexReference(t, u) ==
    /\ u \notin Rows
    /\ \A v \in RowsOfKind("index") : reference[v].ticker # t
    /\ reference' = [reference EXCEPT ![u] =
          [ticker |-> t, instrument_kind |-> "index",
           whitelist_status |-> NULL, source_version |-> 1]]
    /\ UNCHANGED journal

\* What a config may list, and the uids a caller may supply: any for some tickers.
Lists == [Status -> SUBSET Ticker]

Supplied == UNION {[T -> Uid] : T \in SUBSET Ticker}

Next ==
    \/ \E lists \in Lists, uids \in Supplied : MaterializeUniverseRegistry(lists, uids)
    \/ \E t \in Ticker, given \in Uid \cup {NULL} : SeedIndexReference(t, SeedUid(t, given))

Spec == Init /\ [][Next]_vars

-----------------------------------------------------------------------------
\* The rows the CHECKs of instrument_reference admit; the journal never runs past them.
TypeOK ==
    /\ reference \in [Uid -> Row \cup {NoRow}]
    /\ \A u \in Rows : reference[u].instrument_kind = "index"
                         <=> reference[u].whitelist_status = NULL
    /\ \A u \in Uid : journal[u] \in Seq(Change)

\* A ticker never ends up under two share uids, nor an index under two uids
\* (registry.py:113-116, ingest.py:60-65): across any sequence of configs, supplied uids
\* and seeds, and although no UNIQUE constraint says so.
OneUidPerTicker ==
    \A u, v \in Rows :
        (reference[u].ticker = reference[v].ticker
           /\ reference[u].instrument_kind = reference[v].instrument_kind) => u = v

\* The journal explains every status: replaying a row's changes from NULL, each one from
\* the status the previous left, ends in its present status, and source_version counts
\* them.  A row without changes is an index row or absent.
JournalExplainsStatus ==
    \A u \in Uid :
        LET changes == journal[u]
            n == Len(changes)
        IN  /\ \A i \in 1..n : changes[i].old_status =
                                  IF i = 1 THEN NULL ELSE changes[i - 1].new_status
            /\ \A i \in 1..n : changes[i].new_status # changes[i].old_status
            /\ u \in RowsOfKind("share") => /\ n > 0
                                            /\ reference[u].source_version = n
                                            /\ reference[u].whitelist_status
                                                 = changes[n].new_status
            /\ u \notin RowsOfKind("share") => n = 0

\* The registry law (registry.py:8-10): rows are never deleted or given to another
\* instrument, and a row changes only by one journaled status change.
NoSilentChange ==
    [][\A u \in Rows :
         /\ u \in Rows'
         /\ reference'[u].ticker = reference[u].ticker
         /\ reference'[u].instrument_kind = reference[u].instrument_kind
         /\ reference'[u] # reference[u] =>
              /\ Len(journal'[u]) = Len(journal[u]) + 1
              /\ journal'[u][Len(journal'[u])]
                   = [old_status |-> reference[u].whitelist_status,
                      new_status |-> reference'[u].whitelist_status]]_vars

=============================================================================
