# Verification of stonksbot

TLA+ models of the stonksbot repository, checked by TLC and, in part, proved by
TLAPS. stonksbot is a long-only, confirm-first trading bot for MOEX shares. At this
commit it holds the M0/M1 layers: the SQLite schema with its triggers, the versioned
data store, the MOEX ISS reader, the index ingest, the managed registry, and pure
policy functions. Broker, order state machine, reconciliation, backtest and dashboard
exist only as contract documents. `tools/` holds development tooling, of which the
fan-out orchestrator is the one concurrent program.

Product paths below are relative to the repository root; Python sources are under
`src/stonksbot/`.

## 1. Inventory

| Component | State it keeps | Operations | Talks to | What is hard | What makes it correct |
| --- | --- | --- | --- | --- | --- |
| Decision chain (`db.py` SCHEMA) | tables `signals`, `proposals`, `orders`, `positions`, `audit_journal` | any SQL INSERT/UPDATE/DELETE that CHECKs, foreign keys and 10 triggers let through | every later component writes through it | the confirmed chain spans three tables; each trigger sees one statement; several writers | a buy order always rests on a confirmed decision; that decision is frozen; journal references resolve |
| Schema bootstrap (`db.py`) | the schema, `user_version`, `guard_state` | `bootstrap_database` | SQLite, other processes on the file | each DDL statement commits by itself; crash, concurrent bootstrap | the version stamp is never ahead of the schema; older files are left alone |
| Data-conflict gate (`data/store.py`) | `data_conflicts`, `instrument_reference.data_status`, skipped `signals` | record, record persistent, resolve; the entry gate of the as-of read | candle reads, ingest | re-detection, recurrence, double resolution, any `as_of` | one open row per key; marker backed by a blocking row; past answers never change |
| Candle store (`data/store.py`) | `candles`, versioned | store, mark stale, as-of read (audit / entry safe) | gate | versions, as-of, limit, in-place stale mark | no hindsight; entry evidence only shrinks |
| Index ingest (`data/ingest.py`) | none of its own | `ingest_index_candles`, `next_source_version` | candle store, gate, calendar, ISS | omitted bars, unfinished session, re-loads, refusal midway | no session vanishes silently; no lookahead; one version per load |
| MOEX ISS fetch (`data/moex_iss.py`) | offset and bars of one fetch | `fetch_daily_candles`, `parse_candles` | HTTP server | the server changes or errs between pages | complete or refused; ends |
| Managed registry (`data/registry.py`) | `instrument_reference`, status-change rows of `audit_journal` | `materialize_universe_registry`, `seed_index_reference` | config, store | two passes; supplied and synthetic uids; repeated configs | one uid per ticker; the journal explains every status |
| Trading calendar (`data/calendar.py`) | an immutable set of day labels | `load_trading_calendar`, `build_trading_calendar`, membership and bisecting lookups | ISS fetch, ingest, dividends, session policy | the window may begin late or end early, and the calendar grows old | a lookup returns the session it names or raises |
| Dividends (`data/store.py`) | `dividends`, versioned | `store_dividend_snapshot`, `read_dividends_known_as_of` | calendar | ex_date derived from a calendar; versions and declared dates | a derived ex_date is the next session; no hindsight |
| Session policy (`session_policy.py`) | none (pure) | `resolve_daily_run` and its thresholds | calendar, config | timezones, the auction shift, the threshold minutes, a stale calendar | runs on closed sessions only, and misses none |
| Config (`config.py`) | none (pure) | `load_settings` and its refusals | registry, policy, guard | fields valid one by one and wrong together | a schedule or account it accepts is one the rest can work with |
| Account guard (`account_guard.py`) | reads `guard_state.last_account_id` | `evaluate_account_guard` | bootstrap, config | restarts, bootstraps and runs without an account between two accounts | no unconfirmed change of account |
| Fan-out orchestrator (`tools/codex-orchestrator/fanout.mjs`) | lanes, children, timers, results | `runSpec`, `runPool`, `runUnit`, `writeSummary` | child processes | timeouts racing exits, failing spawns, streams held open | limit held; summary complete and truthful; the run ends |
| Gates and hooks (`tools/*.mjs`, `.codex/hooks`) | none | one-shot scripts | git | - | - |

Every hazard found while reading is listed in `PROJECT.json` with its line and the
properties aimed at it, or the reason none is.

## 2. Modules

| Module | Models | Composes |
| --- | --- | --- |
| `EntryAuthority` | what the decision chain promises: entries rest on authorities that are never withdrawn under them | - |
| `OrderChain` | the four decision tables and the journal, one action per SQL statement | refines `EntryAuthority` |
| `ConflictGate` | conflicts, the data-status marker, skipped signals | - |
| `CandleStore` | candle snapshots and the as-of reads | `ConflictGate` |
| `IndexIngest` | daily loads with the missing-bar scan, over days | `CandleStore`, `ConflictGate` |
| `Registry` | registry rows and their status journal | - |
| `IssFetch` | the paging loop against a changing or wrong server | - |
| `TradingCalendar` | the lookups of the calendar's value object | - |
| `SessionPolicy` | when the daily cycle may run; the schedules the loader accepts | extends `TradingCalendar` |
| `Dividends` | dividend snapshots, their dating and the as-of read | extends `TradingCalendar` |
| `DailyCycle` | a calendar from its load to its uses, over days | `IssFetch`, `SessionPolicy`, `Dividends` |
| `WorkPool` | what a fan-out run promises: units taken in order, ended once, never more than the limit together | - |
| `Fanout` | lanes, children, timers and the summary | refines `WorkPool` |
| `Bootstrap` | processes bootstrapping one file, crashing and restarting | - |
| `Startup` | the account guard and the settings over a file that is bootstrapped again and again | extends `Bootstrap` |
| `OrderChainProofs`, `ConflictGateProofs`, `CandleStoreProofs`, `IndexIngestProofs`, `RegistryProofs`, `DailyCycleProofs`, `StartupProofs`, `FanoutProofs` | theorems and proofs | the module each is named after, `StartupProofs` also `Bootstrap`; `CandleStoreProofs` and `IndexIngestProofs` also use `ConflictGateProofs` |
| `MC*` | instances for TLC: constants, views, symmetry sets | - |

How state and actions correspond to the code:

- **OrderChain.** A table is a function from keys to rows or `NoRow`. An action is one
  statement: its guard is the conjunction of the CHECKs, keys and triggers that could
  ABORT it. "UPDATE OF column" is read as "the column changes". `positions` has no
  trigger, so `UpdatePosition` is free. The triggers and foreign keys have a blind spot:
  `INSERT OR REPLACE` (`UPDATE OR REPLACE`) on an occupied key, and one UPDATE that permutes
  several keys, put another row under a key that is referenced. No lock fires, since
  the locks watch columns and `recursive_triggers` is off, and the foreign keys hold again when
  the statement ends. The constant `Overwritten` names the tables where such statements are
  issued (`Insertable`, the `Rekey...` actions, `ReplaceJournal`). Writers are not distinguished: SQLite
  serialises them, and no trigger asks who writes. `fills`, `cash_events` and
  `reconciliations` only reference these tables and are left out, as are
  `control_state` and `guard_state`.
- **ConflictGate.** `data_conflicts` is a function from row ids. The upsert of
  `record_data_conflict` is `RecordRow`: it either inserts under an unused id or moves
  the open row's `as_of` to the earlier one (`MIN`). `as_of` is a parameter, as in the
  code: nothing assumes it is the current time. The history variable `stamp` remembers
  it for the properties.
- **CandleStore.** The table is a set of rows keyed by instrument, bar and version.
  `Known`, `Latest`, `Window`, `EntrySafe` are the WHERE clause, the `latest` and
  `windowed` common tables, and the entry filter of `read_latest_candles`, in the order
  the query applies them.
- **IndexIngest.** One `Ingest` action is one successful load: the validations are its
  guard; storing under the next version, and recording a `missing_bar` row for each
  expected session the feed omitted, are its effect. It is one action because the load
  runs in a single transaction from its first INSERT on; `IngestRaises` is the load a
  bad candle interrupts, which leaves rows in that transaction. The calendar is any set of
  IMOEX sessions that have begun, or none, and the coverage any day: one loaded on an earlier
  day with a later till, or one with a hole, passes the refusal of line 226 as it does in the
  code. `scanned`, `loads` and `partial` are history variables; `AnsweredFor` says which
  sessions a load answers for: every session of its finalized window if the calendar is
  what its coverage says (`Truthful`), otherwise the ones the calendar holds.
- **Registry.** Pass 1 (every refusal) is the guard, pass 2 the effect. Synthetic uids
  are injective per ticker and kind, as the string `moex:kind:ticker` is.
- **IssFetch.** One loop iteration is `Request` and an answer: a true one (`ReadTrue`,
  with any page size), any page and cursor at all (`ReadWrong`), or an exception
  (`ReadRaises`). `Publish` and `Withdraw` change what ISS holds between pages.
- **TradingCalendar.** A calendar is a set of day labels; an index into the tuple is a
  count of smaller labels, and a lookup is the set of the day it returns, empty where
  the code raises. Timestamps count minutes, so the flooring to a UTC day is arithmetic.
- **SessionPolicy.** `ResolveDailyRun` keeps the order of the tests of
  `resolve_daily_run`; a timezone is an offset in minutes. `ScheduleAccepted` is what
  `_validate_startup` demands of the run time. A schedule is not a variable: the
  invariants quantify over every schedule, minute and absence policy at once.
- **Dividends.** The rows of one instrument. `StoreDividendSnapshot` dates a row without
  ex_date by the session after `last_buy_date` and is disabled where the code raises.
- **DailyCycle.** `load_trading_calendar` is a fetch of `IssFetch` followed by
  `EndLoad`, which builds the calendar or raises. ISS holds a bar from the day of its
  session on; days pass at any point, also between two pages. `till` is the coverage
  the caller passes on. `held` is a history variable: what ISS held when a load it
  answered truly began.
- **Fanout.** Node runs callbacks to completion, promise continuations included:
  `Quiescent` guards every event on no lane being ready to continue. `Exit` and
  `StreamsClose` are the operating system's; `close` comes after both, so a timer can
  fire in between. A spawn can succeed, fail with an `error` event, or throw. The timer's
  signal may be undeliverable (`KillFails`): Node then emits `error` inside `child.kill`, and
  the handler settles the unit with its child still there. `LogBreaks` and `StdinBreaks` are
  the streams without an error listener; writing the summary may throw (`Finish`).
- **Bootstrap.** One action per statement, because `executescript` runs in autocommit;
  `Abort` is a crash or a busy timeout, and rolls back the uncommitted `guard_state` row
  only. Initial files are empty or left by an older release of the schema.
- **Startup.** `Prepare`, `CommitGuard` and `Restart` are the steps of `Bootstrap`;
  `Guard` is one start: the settings are loaded (or refused), the row of `guard_state`
  is read and compared, and on "ok" the account of the run is recorded.

The operators commented "Mutation" are deliberately wrong variants of the operator
below them, each a bug someone could introduce (a dropped trigger, a missing COALESCE,
a filter before a limit). No specification uses them. `PROJECT.json` pairs each with
the property that fails when it replaces the original, which shows that the property
depends on that piece of code.

## 3. Runs

| Run | Properties | What it shows | Bounds, and why they suffice |
| --- | --- | --- | --- |
| `order_chain` | `EntryChainSound`, `ReferencesResolve`, `ConfirmedDecisionFrozen`, `ImplementsAuthority` | no sequence of statements that overwrites neither signals nor proposals by key undoes a placed buy order's decision | two of each row but one position, so that a chain can be swapped to another signal, proposal, instrument or account; one journalled key; positions, orders and journal rows may be overwritten by key, signals and proposals may not (section 6); 182,387 states; the theorems cover all sizes |
| `conflict_gate` | `OneOpenPerKey`, `MarkerBackedByGate`, `SkipsJustified`, `RowsOnlyMature`, `GateHistoryKept` | detections and resolutions in any order, with any `as_of` | two instruments, two kinds, three row ids (open, resolved and recurring together), times 0..2 (before, at, after); theorems cover all sizes |
| `candle_store` | `AuditReadsKept`, `EntryReadsOnlyShrink` | no write adds hindsight to an as-of read | two bars and two versions: a revision, an older bar to slide into a window, three rows; one conflict. `StoreView` drops the marker, the skips and the stamp, which no action of the candles reads and the properties read only in the step that sets them |
| `index_ingest` | `NoSilentGap`, `NoLookahead`, `FreshVersion`, `VersionsFollowTime`, `PastReadsKept` | loads over days, with omissions, every window, any calendar (old, holed or none) and any coverage; what an earlier day read never changes | four days of which day 3 is not a session: gaps at head, middle and tail and a holiday; two versions: a re-load; two conflict ids. The view drops the marker, the skips and the stamp, which no guard and no property reads |
| `partial_load` (violation) | `NoPartialLoad` | a load can raise after storing rows | three days, one version |
| `registry` | `OneUidPerTicker`, `JournalExplainsStatus`, `NoSilentChange` | configs, supplied uids and seeds in any order | two tickers with their synthetic share and index uids and one supplied (opaque) uid to clash with; two statuses; `MaxChanges` = 3 changes of a row, a status there and back |
| `daily_cycle` | `CompleteIfHonest`, `OffsetCountsBars`, `FetchEnds`, `RunOnlyOnClosedSession`, `NoMissedCycle`, `ExDateWhenCovered`, `DividendReadsKept` | a calendar loaded page by page, and what is decided and dated with it | five days with a holiday on the third and the auction shift on the fourth; windows that begin before or on the holiday and end before or on the last day; pages of one to three; two events in two versions; the minutes next to every threshold, in Moscow and in UTC, where the local day may be the one before |
| `ex_date` (violation) | `ExDateIsNextSession` | a lookup before the window returns the first day of the window | as above |
| `iss_truncated` (violation) | `ReachesTotal` | an empty page without a cursor truncates | the fetch alone: four bars, pages of one to three |
| `fanout` | `LimitHeld`, `SummaryComplete`, `ImplementsPool`, `RunEnds`, `TakenUnitsSettle` | pool, timers, failures, signals that cannot be delivered; a unit settles once, whichever event comes second | three units on two lanes: one lane can starve or fail while the other takes the rest |
| `hard_timeout` (violation) | `HardTimeout` | the timeout is not hard | two units |
| `startup` | `VersionTruthful`, `ReadyMeansComplete`, `OlderFileKept`, `UnstampedFileRefused`, `AccountSwitchConfirmed` | concurrent and crashing bootstraps, then starts with any settings; a crash before the stamp leaves a file that is refused from then on | three processes, five objects, two of them core; two accounts, so that a run may switch there and back |

The passing runs of `OrderChain`, `ConflictGate`, `Registry` and `DailyCycle` also
check the module's type invariant; those of `CandleStore`, `IndexIngest`, `Startup` and
`Fanout` are proved only. Deadlock is checked except where
the system stops: a fetch that ended, a run that ended, a process that was refused, and
the ingest's clock at `LastDay`.

**The four violations** are disagreements between the repository's own words and its
code; each is a finding in `PROJECT.json` with the sentence it contradicts:

1. `calendar.py:104` bisects to the first day of the calendar for any timestamp before
   it, so `next_trading_day` of a window that begins too late returns a day that is not
   the next session, and a dividend is dated with it; the docstring says the lookup
   raises when the calendar does not cover the result.
2. `ingest.py:120` refuses a candle's source or interval inside the store loop, while its
   docstring says every validation runs before the first row is written.
3. `moex_iss.py:105` ends a fetch on an empty page without a cursor even when an earlier
   cursor announced more, while the roadmap says it fails closed on a missing cursor.
4. `fanout.mjs:193` signals once and waits for `close` without end, while the README of
   the orchestrator calls it a hard timeout.

## 4. Fairness

Only the fetch and `Fanout` claim liveness. `DailyCycle` assumes of the fetch that its
loop goes on (`Request`) and that a request is answered or raises (`Answer`): `urlopen`
has a timeout of 20 s. That timeout is one of each socket operation, so a body that trickles
in without end is answered by neither, and is outside the fairness assumed. The module assumes nothing of ISS, of the days or of those who use the
calendar. `Fanout`
assumes that Node serves each pending continuation, timer and event (weak fairness on
each handler): the event loop is a queue, and handlers are never disabled once pending
except by their own effect. `RunEnds` and `TakenUnitsSettle` need more, and say so:
`CooperativeSpec` adds that a child which got SIGTERM exits and that its streams close (of a
child the signal did not reach nothing is assumed: its unit has settled already).
Without that addition `HardTimeout` fails, which is finding 4. The other modules claim
safety only: nothing in the repository schedules their operations.

## 5. Proofs

TLAPS proves, for every value of the constants allowed by the modules' assumptions:

| Module | Theorems | Argument |
| --- | --- | --- |
| `OrderChainProofs` | `TypeCorrect`, `EntryChainAlwaysSound`, `ReferencesAlwaysResolve`, `ConfirmedDecisionAlwaysFrozen`, `JournaledRowsAlwaysKept`, `ChainImplementsAuthority` | the references come first: `RefInv` (`TypeOK` and `ReferencesResolve`) is inductive by itself, whatever is overwritten, since a statement that takes a row away puts another under its key or finds it unreferenced (`RekeyedRows`, `RekeyingKeeps`, `RefInvStep`). `EntryChainSound` alone is not inductive, since a deleted proposal would break it and only the references rule that out: `ChainInv` is their conjunction. It, the frozen decision and the refinement are proved under the hypothesis `DecisionsNotOverwritten` (no statement overwrites signals or proposals), `JournaledRowsAlwaysKept` under the hypothesis that none overwrites `audit_journal`; `TypeCorrect` and `ReferencesAlwaysResolve` need neither. The action properties and the refinement are step lemmas under `ChainInv`, one case per statement |
| `ConflictGateProofs` | `GateTypeCorrect`, `OneOpenRowAlways`, `MarkerAlwaysBacked`, `SkipsAlwaysJustified`, `RowsAlwaysMature`, `GateHistoryAlwaysKept` | `MarkerBackedByGate` speaks of blocked times; the invariant strengthens it to "an *open row* stands behind the marker" (`OpenRowBehindMarker`), which resolution preserves because it looks for the other open rows first |
| `CandleStoreProofs` | `StoreTypeCorrect`, `AuditReadsAlwaysKept`, `EntryReadsAlwaysShrink`, `ReadIsNewestBars` | a read counts rows, and `mark_stale` rewrites them: the invariant adds that `candles` is finite and no two rows have one key (`KeysUnique`), so marking is a bijection on every set of rows and no window changes (`MarkedCardinality`, `MarkStaleReads`). A snapshot stamped after d is not known at d. What the gate does to an entry is `GateHistoryStep` of `ConflictGateProofs`. `ReadIsNewestBars` says what the nested queries return: `LastRows` shows, over any injective numbering of a finite set, that "fewer than `limit` rows after it" picks the last `limit` |
| `IndexIngestProofs` | `IngestTypeCorrect`, `NoSilentGapEver`, `NoLookaheadEver`, `VersionAlwaysFresh`, `VersionsAlwaysFollowTime`, `PastReadsAlwaysKept`, `GateHoldsUnderLoads`, `RowsMatureUnderLoads` | `NoSilentGap` speaks of the current day; the invariant says what survives the days: a scanned session has a bar or a row of its own, dated at or before now (`GapInv`, `ConflictInv`), and no write of the gate deletes or re-keys a row (`RowsKept`). `ScanIsComplete` shows that a truthful calendar that passes the coverage refusal holds every session of the window; of another one the load answers only for the sessions it holds, which the scan compares with the feed. A version counts as loaded only if it has a bar, so the next one is fresh. `PastReadsKept` is a step property: new bars carry the current day and are unknown before it (`BarsUnknownBefore`), and the gate's answer for an earlier day is kept by a batch of missing bars (`MissingBarsHistory`) and by any other writer (`OtherWriterHistory`, from `GateHistoryStep`). `GateHoldsUnderLoads` and `RowsMatureUnderLoads` carry the gate's promises over to the loads, whose batch insert is no single action of `ConflictGate` |
| `RegistryProofs` | `RegistryTypeCorrect`, `OneUidPerTickerAlways`, `JournalAlwaysExplains`, `ChangesNeverSilent` | `TypeOK`, `OneUidPerTicker` and `JournalExplainsStatus` are inductive together: a uid pass 1 plans is unused or the ticker's own share row (`MaterializeRows`), and a journal that explains the old status explains the new one once the entry is appended (`ReplayExtends`); a row no list changes keeps both |
| `DailyCycleProofs` | `AddTradingDaysCounts`, `LookupRaisesOnlyUncovered`, `AddTradingDaysReturns`, `NextTradingDayIsNext`, `PreviousTradingDayIsPrevious`, `OneVersionPerDividend`, `CycleTypeCorrect`, `FetchAlwaysCompleteIfHonest`, `OffsetAlwaysCountsBars`, `ExDateAlwaysRightWhenCovered`, `RunAlwaysOnClosedSession`, `CycleNeverMissed`, `DividendReadsAlwaysKept` | the bisection by counting finite sets of labels: the index of a label is the number of smaller ones (`RankDifference`), each index below the size belongs to one label (`EveryIndexHasOneDay`), so `add_trading_days` is the n-th label after or before the timestamp's day and raises only where there are fewer; `CycleInv` then says what a fetch has collected (the offset counts its bars; as long as ISS is honest, it is on the server, and all that was asked for is in it at the end) and what the load left behind: `held` within the calendar within the sessions. The decisions follow by arithmetic on days and minutes |
| `StartupProofs` | `BootstrapTypeCorrect`, `VersionAlwaysTruthful`, `ReadyAlwaysComplete`, `OlderFileAlwaysKept`, `UnstampedFileAlwaysRefused`; `StartupBootstraps`, `StartupTypeCorrect`, `AccountSwitchAlwaysConfirmed` | `BootInv` records what each process has seen: with an older file no process gets past the version check; in a fresh file everything before a process's next object exists. Every step of the startup is a step of `Bootstrap` or leaves the file alone (`StartupBootstraps`), so the first five theorems hold of the whole program; the row of `guard_state` always names the account of the last start (`RowNamesLastStart`) |
| `FanoutProofs` | `FanoutTypeCorrect`, `LimitAlwaysHeld`, `SummaryAlwaysComplete`, `FanoutImplementsPool` | the invariant ties lanes and children together: each running child is awaited by a lane of its own, unless its signal could not be delivered (`LaneAwaits`), a settled one has its result (`ChildSettles`), and once the lanes are done every unit was taken (`AllTaken`). The refinement of `WorkPool` follows step by step: the lane that takes a unit awaits none, so the others await fewer than the limit (`RoomForOne`), and an event that comes second changes nothing (`SettleIsEnd`) |

Assumptions used: the named ASSUMEs of each module (vocabularies of the CHECKs, keys of
different tables distinct, days and minutes integers, `NULL` and `NoRow` outside the
data), which TLC also evaluates on every run. `DecisionsNotOverwritten` is no such assumption
but a hypothesis of the theorems that need it, stated in them.

Every safety property of the passing runs, action properties and refinements included, is
a theorem. Only model-checked are the liveness properties `FetchEnds`, `RunEnds` and
`TakenUnitsSettle`, since liveness under fairness is out of this prover's reach, and the four
violated claims, which are counterexamples. No module declares a RECURSIVE operator, and no
theorem needs induction over data.

## 6. Not modelled

- **The locks of the decision chain and overwriting statements.** `db-schema.md:416-417` and
  `:422` list the confirm-first entry and the append-only journal among the things the schema
  holds. It does not hold them against a statement that overwrites a row by key. With
  `Overwritten = {"signals"}` TLC refutes `EntryChainSound` in four statements: insert a
  selected signal, a confirmed proposal, a buy order, and replace the signal by a candidate;
  likewise with `{"proposals"}`. With `"audit_journal"` a replaced row drops its reference.
  Nothing in `src/` issues such a statement. The run leaves them out for signals and
  proposals, and the theorems that need it say so (section 5); `ReferencesResolve` needs no
  restriction (TLC passes it with all five tables overwritten, 706,467 states). Out of scope
  entirely: connections with other pragmas (foreign keys off, or deferred), and DDL.
- **Calendars that are not what their coverage says.** For them `NoSilentGap` claims the
  sessions the calendar holds and no more: a session the IMOEX feed omitted is missing from
  the calendar IMOEX itself is checked against, and vanishes without a row, as
  `ingest.py:27-30` says of IMOEX.
- **Children SIGTERM cannot be delivered to.** Their units settle as errors and their lanes
  go on, so more than the limit can run, and a summary can be written over them.
  `LimitHeld` and `SummaryComplete` except exactly these (`Abandoned`).
- **A failure inside pass 2 of the registry.** Status and journal entry are two statements of
  the caller's transaction; `Registry` has the pass as one step, done or rolled back.
- Fills, cash events, reconciliations and `control_state`: no logic relates them to other
  tables yet. A position that is closed or shrunk under a working sell order is a hazard
  without a property: `db-schema.md:218-219` leaves the re-check to execution code that
  does not exist yet.
- Payload parsing and price conversion; the TOML file, the environment and the `.env`
  file; the ranges of single settings. Of the configuration the models keep what relates
  fields: schedule and close, mode, account and token, the universe lists.
- The caller that records the account of a run is not in the source. `Startup` takes it
  to read and write the row in one transaction; two processes that compare before either
  records are not excluded by the code that exists.
- Timezones ahead of Moscow: the loader accepts any string, and in such a zone the
  threshold passes before the close. `RunOnlyOnClosedSession` excludes them and says so.
- A dividend moved to another `last_buy_date`: the row of the old date stays in later
  reads. The source has no withdrawal, so no property says what should happen.
- What should happen to an open `missing_bar` row when a later load stores its bar: the
  source leaves the row open, and so does `IndexIngest`; no property says it should close.
- The forward-looking calendar of the exchange; the scheduler that calls
  `resolve_daily_run`. The list form of `_next_trading_day` gives what the calendar
  lookup gives on midnight labels and has no model of its own.
- The orchestrator's run directory, so a repeated `--run-id` that finds an earlier
  `final.md` is only listed as a hazard; gates and hooks, which keep no state.
- Two loads running at once: nothing in the repository starts two, and
  `next_source_version` would let them collide.

Abstractions that could hide something: each write operation of the store is atomic
(its caller's transaction), rollbacks return to states already visited; times are a
small total order shared by bars, `as_of` and decisions.

## 7. Plan

1. *Done*: decision chain with its abstract specification and proofs; gate and candle
   store with proofs; ingest with proofs; registry; orchestrator with proofs; bootstrap
   and account guard with proofs; calendar, session policy and dividends composed with the ISS fetch, with
   proofs of all their safety.
2. *Done*: proofs of the registry, of what a read returns, of the calendar's lookups for any
   number of days, of past reads under loads, and of the orchestrator's refinement of
   `WorkPool`.
3. Extend when the code does: fills and positions in the decision chain, the caller of
   the account guard, the run directory of the orchestrator.
