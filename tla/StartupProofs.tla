----------------------------- MODULE StartupProofs -----------------------------
(***************************************************************************)
(* Proofs about Bootstrap, for any number of processes and any DDL, and    *)
(* about Startup on top of it, for any accounts.                           *)
(*                                                                         *)
(* BootInv remembers what the position of a process says about the file:   *)
(* past its script everything exists, past its stamp the version is there, *)
(* and in a file with an older object no process gets past the version     *)
(* check.  Every step of the startup is a step of the bootstrap or leaves  *)
(* the file alone, so BootInv holds there too; besides, the row of         *)
(* guard_state names the account of the last start, which is what a switch *)
(* is compared with.                                                       *)
(***************************************************************************)
EXTENDS Startup, TLAPS

(* The bootstrap. *)

OlderObject == \E o \in Object : schema[o] = "older"

AllCurrent == \A o \in Object : schema[o] = "current"

OlderFileRefused ==
    OlderObject => /\ \A o \in Core : schema[o] = "older"
                   /\ user_version # Current
                   /\ \A p \in Process : pc[p] \in {"idle", "core", "version", "refused"}

Progress(p) ==
    /\ pc[p] \in {"core", "version"} => next[p] = 1
    /\ pc[p] = "script" => \A o \in Object : o < next[p] => schema[o] = "current"
    /\ pc[p] = "stamp" => AllCurrent
    /\ pc[p] \in {"insert", "commit", "ready"} => user_version = Current
    /\ pc[p] = "ready" => guard

BootInv ==
    /\ TypeOK
    /\ VersionTruthful
    /\ OlderFileRefused
    /\ \A p \in Process : Progress(p)

\* Both kinds of initial file satisfy the invariant.
LEMMA BootInvInit == Init => BootInv
<1> SUFFICES ASSUME Init PROVE BootInv
  OBVIOUS
<1>1. TypeOK
  <2>1. user_version \in 0..Current
    BY BootstrapAssumption DEF Init
  <2>2. guard \in BOOLEAN
    BY DEF Init
  <2>3. schema \in [Object -> {"absent", "older", "current"}]
    BY DEF Init
  <2>4. next \in [Process -> Object]
    BY BootstrapAssumption DEF Init, Object
  <2>5. pc \in [Process -> Steps] /\ writer \in Process \cup {NULL}
    BY DEF Init, Steps
  <2> QED BY <2>1, <2>2, <2>3, <2>4, <2>5 DEF TypeOK
<1>2. user_version # Current
  BY BootstrapAssumption DEF Init
<1>3. OlderFileRefused
  BY <1>2, BootstrapAssumption DEF Init, OlderFileRefused, OlderObject
<1>4. \A p \in Process : Progress(p)
  BY DEF Init, Progress
<1> QED
  BY <1>1, <1>2, <1>3, <1>4 DEF BootInv, VersionTruthful

\* A step that writes no object and no version, and moves one process to a position whose
\* facts already hold, preserves the invariant.
LEMMA MoveInv ==
  ASSUME BootInv, NEW p \in Process, NEW step \in Steps,
         Go(p, step), UNCHANGED <<schema, user_version>>,
         guard' \in BOOLEAN, guard => guard',
         next' = next \/ next' = [next EXCEPT ![p] = 1],
         writer' \in Process \cup {NULL},
         OlderObject => step \in {"idle", "core", "version", "refused"},
         step \in {"core", "version"} => next'[p] = 1,
         step = "script" => \A o \in Object : o < next'[p] => schema[o] = "current",
         step = "stamp" => AllCurrent,
         step \in {"insert", "commit", "ready"} => user_version = Current,
         step = "ready" => guard'
  PROVE  BootInv'
<1>1. TypeOK'
  BY BootstrapAssumption DEF BootInv, TypeOK, Go, Object
<1>2. VersionTruthful'
  BY DEF BootInv, VersionTruthful
<1>3. OlderFileRefused'
  BY DEF BootInv, OlderFileRefused, OlderObject, TypeOK, Go
<1>4. ASSUME NEW q \in Process PROVE Progress(q)'
  <2>1. CASE q = p
    BY <2>1 DEF BootInv, Progress, TypeOK, Go, AllCurrent
  <2>2. CASE q # p
    BY <2>2 DEF BootInv, Progress, TypeOK, Go, AllCurrent
  <2> QED BY <2>1, <2>2
<1> QED
  BY <1>1, <1>2, <1>3, <1>4 DEF BootInv

\* A CREATE preserves the invariant: it only turns an absent object into a current one,
\* and nothing before the next object is ever absent again.
LEMMA CreateInv ==
  ASSUME BootInv, NEW p \in Process, Create(p)
  PROVE  BootInv'
<1>0. ~OlderObject
  BY DEF BootInv, OlderFileRefused, Create
<1>1. /\ next[p] \in Object
      /\ \A o \in Object : schema[o] \in {"absent", "current"}
  BY <1>0 DEF BootInv, TypeOK, OlderObject
<1>2. /\ schema' \in [Object -> {"absent", "older", "current"}]
      /\ schema'[next[p]] = "current"
      /\ \A o \in Object : schema'[o] \in {"absent", "current"}
      /\ \A o \in Object : schema[o] = "current" => schema'[o] = "current"
  BY <1>1 DEF BootInv, TypeOK, Create
<1>3. TypeOK'
  BY <1>1, <1>2, BootstrapAssumption DEF BootInv, TypeOK, Create, Go, Steps, Object
<1>4. VersionTruthful'
  BY <1>2 DEF BootInv, VersionTruthful, Create
<1>5. OlderFileRefused'
  BY <1>2 DEF OlderFileRefused, OlderObject
<1>6. ASSUME NEW q \in Process PROVE Progress(q)'
  <2>1. CASE q # p
    BY <1>2, <2>1 DEF BootInv, Progress, TypeOK, Create, Go, AllCurrent
  <2>2. CASE q = p /\ next[p] = Objects
    <3>1. pc'[p] = "stamp"
      BY <2>2 DEF BootInv, TypeOK, Create, Go
    <3>2. AllCurrent'
      BY <1>1, <1>2, <2>2, BootstrapAssumption DEF BootInv, Progress, Create, AllCurrent, Object
    <3> QED BY <2>2, <3>1, <3>2 DEF Progress
  <2>3. CASE q = p /\ next[p] # Objects
    <3>1. pc'[p] = "script" /\ next'[p] = next[p] + 1
      BY <2>3 DEF BootInv, TypeOK, Create
    <3>2. \A o \in Object : o < next[p] + 1 => schema'[o] = "current"
      BY <1>1, <1>2, BootstrapAssumption DEF BootInv, Progress, Create, Object
    <3> QED BY <2>3, <3>1, <3>2 DEF Progress
  <2> QED BY <2>1, <2>2, <2>3
<1> QED
  BY <1>3, <1>4, <1>5, <1>6 DEF BootInv

\* The stamp preserves the invariant: the process that stamps has seen every object exist.
LEMMA StampInv ==
  ASSUME BootInv, NEW p \in Process, Stamp(p)
  PROVE  BootInv'
<1>1. AllCurrent
  BY DEF BootInv, Progress, Stamp
<1>2. TypeOK'
  BY BootstrapAssumption DEF BootInv, TypeOK, Stamp, Go, Steps
<1>3. VersionTruthful' /\ OlderFileRefused'
  BY <1>1 DEF AllCurrent, VersionTruthful, OlderFileRefused, OlderObject, Stamp
<1>4. \A q \in Process : Progress(q)'
  BY <1>1 DEF BootInv, Progress, AllCurrent, TypeOK, Stamp, Go
<1> QED
  BY <1>2, <1>3, <1>4 DEF BootInv

\* The invariant is inductive.
LEMMA BootInvNext == BootInv /\ [Next]_vars => BootInv'
<1> SUFFICES ASSUME BootInv, [Next]_vars PROVE BootInv'
  OBVIOUS
<1>1. CASE UNCHANGED vars
  BY <1>1 DEF vars, file, BootInv, TypeOK, VersionTruthful, OlderFileRefused, OlderObject,
              Progress, AllCurrent
<1>2. CASE Next
  <2> PICK p \in Process :
        \/ Start(p) \/ CheckCore(p) \/ CheckVersion(p) \/ Create(p)
        \/ Stamp(p) \/ InsertGuard(p) \/ Commit(p) \/ Abort(p)
    BY <1>2 DEF Next
  <2>1. CASE Start(p)
    BY <2>1, MoveInv DEF Start, file, BootInv, TypeOK, Steps
  <2>2. CASE CheckCore(p)
    <3>1. next[p] = 1
      BY <2>2 DEF CheckCore, BootInv, Progress
    <3>2. CASE CoreSchemaExists
      BY <2>2, <3>1, <3>2, MoveInv DEF CheckCore, file, BootInv, TypeOK, Steps
    <3>3. CASE ~CoreSchemaExists
      <4>1. ~OlderObject
        BY <3>3, BootstrapAssumption
           DEF BootInv, OlderFileRefused, CoreSchemaExists, Object
      <4> QED
        BY <2>2, <3>1, <3>3, <4>1, MoveInv, BootstrapAssumption
           DEF CheckCore, file, BootInv, TypeOK, Steps, Object
    <3> QED BY <3>2, <3>3
  <2>3. CASE CheckVersion(p)
    <3>1. next[p] = 1
      BY <2>3 DEF CheckVersion, BootInv, Progress
    <3>2. OlderObject => user_version # Current
      BY DEF BootInv, OlderFileRefused
    <3>3. CASE user_version = Current
      BY <2>3, <3>1, <3>2, <3>3, MoveInv, BootstrapAssumption
         DEF CheckVersion, file, BootInv, TypeOK, Steps, Object
    <3>4. CASE user_version # Current
      BY <2>3, <3>4, MoveInv DEF CheckVersion, file, BootInv, TypeOK, Steps
    <3> QED BY <3>3, <3>4
  <2>4. CASE Create(p)
    BY <2>4, CreateInv
  <2>5. CASE Stamp(p)
    BY <2>5, StampInv
  <2>6. CASE InsertGuard(p)
    BY <2>6, MoveInv
       DEF InsertGuard, file, BootInv, TypeOK, Steps, OlderFileRefused, Progress
  <2>7. CASE Commit(p)
    BY <2>7, MoveInv
       DEF Commit, file, BootInv, TypeOK, Steps, OlderFileRefused, Progress
  <2>8. CASE Abort(p)
    BY <2>8, MoveInv DEF Abort, file, BootInv, TypeOK, Steps
  <2> QED BY <2>1, <2>2, <2>3, <2>4, <2>5, <2>6, <2>7, <2>8
<1> QED BY <1>1, <1>2

\* The invariant holds in every reachable state.
LEMMA BootInvAlways == Spec => []BootInv
<1> QED BY BootInvInit, BootInvNext, PTL DEF Spec

\* Every reachable state is well typed.
THEOREM BootstrapTypeCorrect == Spec => []TypeOK
<1>1. BootInv => TypeOK
  BY DEF BootInv
<1> QED BY <1>1, BootInvAlways, PTL

\* A file stamped with this version has every object of the DDL in its present form,
\* whatever processes bootstrap it and wherever they crash.
THEOREM VersionAlwaysTruthful == Spec => []VersionTruthful
<1>1. BootInv => VersionTruthful
  BY DEF BootInv
<1> QED BY <1>1, BootInvAlways, PTL

\* A process bootstrap_database returns to finds stamp, schema and guard_state row.
THEOREM ReadyAlwaysComplete == Spec => []ReadyMeansComplete
<1>1. BootInv => ReadyMeansComplete
  BY DEF BootInv, Progress, VersionTruthful, ReadyMeansComplete
<1> QED BY <1>1, BootInvAlways, PTL

\* No statement of any bootstrap writes to a file that holds an older object.
THEOREM OlderFileAlwaysKept == Spec => OlderFileKept
<1>1. BootInv /\ [Next]_vars => [OlderObject => UNCHANGED file]_vars
  <2> SUFFICES ASSUME BootInv, Next, OlderObject PROVE UNCHANGED file
    OBVIOUS
  <2>1. \A p \in Process : pc[p] \in {"idle", "core", "version", "refused"}
    BY DEF BootInv, OlderFileRefused
  <2> QED
    BY <2>1 DEF Next, Start, CheckCore, CheckVersion, Create, Stamp, InsertGuard, Commit,
                Abort, file
<1> QED
  BY <1>1, BootInvAlways, PTL DEF Spec, OlderFileKept, OlderObject

\* What a crash between the DDL and the stamp leaves is never written again, and refused by
\* every process that starts over: to get further, a process needs the version.
THEOREM UnstampedFileAlwaysRefused == Spec => UnstampedFileRefused
<1>1. BootInv /\ [Next]_vars => [Unstamped => Unstamped' /\ UNCHANGED file]_vars
  <2> SUFFICES ASSUME BootInv, Next, Unstamped PROVE Unstamped' /\ UNCHANGED file
    OBVIOUS
  <2>1. \A p \in Process : pc[p] \in {"idle", "core", "version", "refused"}
    BY DEF BootInv, TypeOK, Progress, Unstamped, Steps
  <2> PICK p \in Process :
        Start(p) \/ CheckCore(p) \/ CheckVersion(p) \/ Abort(p)
    BY <2>1 DEF Next, Create, Stamp, InsertGuard, Commit
  <2>2. UNCHANGED file
    BY DEF Start, CheckCore, CheckVersion, Abort
  <2>3. \E step \in {"idle", "core", "version", "refused"} : Go(p, step)
    BY DEF Start, CheckCore, CheckVersion, Abort, Unstamped
  <2>4. \A q \in Process : pc'[q] \in {"idle", "core", "version", "refused"}
    BY <2>1, <2>3 DEF Go, BootInv, TypeOK
  <2> QED BY <2>2, <2>4 DEF Unstamped, CoreSchemaExists, file
<1> QED
  BY <1>1, BootInvAlways, PTL DEF Spec, UnstampedFileRefused

-----------------------------------------------------------------------------
(* The startup. *)

RowNamesLastStart == started # NULL => last_account_id = started.account

StartupInv == BootInv /\ StartupTypeOK /\ RowNamesLastStart

\* An account the guard accepts or compares is one of the settings, or none at all.
LEMMA AccountIdType ==
  ASSUME NEW s \in Settings
  PROVE  AccountId(s) \in Account \cup {NULL}
<1> QED BY DEF Settings, AccountId

\* The guard lets a process start with an account only, and with a changed one only on
\* confirmation.
LEMMA OkMeansConfirmed ==
  ASSUME NEW s \in Settings, NEW confirmed \in BOOLEAN,
         EvaluateAccountGuard(s, confirmed) = "ok"
  PROVE  /\ AccountId(s) # NULL
         /\ last_account_id \notin {NULL, AccountId(s)} => confirmed
<1> QED BY DEF EvaluateAccountGuard, AccountChanged

\* Each step of the startup is a step of the bootstrap on the file, or a stutter.
LEMMA StartupStepBootstraps == StartupNext => [Next]_vars
<1> SUFFICES ASSUME StartupNext PROVE [Next]_vars
  OBVIOUS
<1> PICK p \in Process :
      \/ Prepare(p) \/ CommitGuard(p) \/ Restart(p)
      \/ \E s \in Settings, confirmed \in BOOLEAN : Guard(p, s, confirmed)
  BY DEF StartupNext
<1>1. CASE Prepare(p)
  BY <1>1 DEF Prepare, Next
<1>2. CASE CommitGuard(p)
  BY <1>2 DEF CommitGuard, Next
<1>3. CASE Restart(p)
  BY <1>3 DEF Restart, Next
<1>4. CASE \E s \in Settings, confirmed \in BOOLEAN : Guard(p, s, confirmed)
  BY <1>4 DEF Guard
<1> QED BY <1>1, <1>2, <1>3, <1>4

\* The initial file has no account and no start.
LEMMA StartupInvInit == StartupInit => StartupInv
<1> SUFFICES ASSUME StartupInit PROVE StartupInv
  OBVIOUS
<1>1. BootInv
  BY BootInvInit DEF StartupInit
<1>2. StartupTypeOK
  BY <1>1 DEF BootInv, StartupInit, StartupTypeOK
<1> QED BY <1>1, <1>2 DEF StartupInv, StartupInit, RowNamesLastStart

\* The guard preserves the invariant: a start and the row are written together.
LEMMA GuardInv ==
  ASSUME StartupInv, NEW p \in Process, NEW s \in Settings, NEW confirmed \in BOOLEAN,
         Guard(p, s, confirmed), BootInv'
  PROVE  StartupInv'
<1> DEFINE result == EvaluateAccountGuard(s, confirmed)
<1>1. result \in GuardStatus
  BY DEF EvaluateAccountGuard, GuardStatus
<1>2. status' \in [Process -> GuardStatus \cup {NULL}]
  BY <1>1 DEF Guard, StartupInv, StartupTypeOK
<1>3. CASE result = "ok"
  <2>1. AccountId(s) \in Account
    BY <1>3, AccountIdType, OkMeansConfirmed
  <2>2. /\ last_account_id' = AccountId(s)
        /\ started' = [account |-> AccountId(s), confirmed |-> confirmed]
    BY <1>3 DEF Guard
  <2> QED
    BY <1>2, <2>1, <2>2 DEF StartupInv, StartupTypeOK, BootInv, RowNamesLastStart
<1>4. CASE result # "ok"
  <2>1. UNCHANGED <<last_account_id, started>>
    BY <1>4 DEF Guard
  <2> QED BY <1>2, <2>1 DEF StartupInv, StartupTypeOK, BootInv, RowNamesLastStart
<1> QED BY <1>3, <1>4

\* The invariant is inductive.
LEMMA StartupInvNext == StartupInv /\ [StartupNext]_startupVars => StartupInv'
<1> SUFFICES ASSUME StartupInv, [StartupNext]_startupVars PROVE StartupInv'
  OBVIOUS
<1>1. [Next]_vars
  BY StartupStepBootstraps DEF startupVars
<1>2. BootInv'
  BY <1>1, BootInvNext DEF StartupInv
<1>3. CASE UNCHANGED startupVars
  BY <1>2, <1>3 DEF startupVars, StartupInv, StartupTypeOK, BootInv, RowNamesLastStart
<1>4. ASSUME NEW p \in Process, Prepare(p) \/ CommitGuard(p) PROVE StartupInv'
  BY <1>2, <1>4
     DEF Prepare, CommitGuard, UpsertedAccount, StartupInv, StartupTypeOK, BootInv,
         RowNamesLastStart
<1>5. ASSUME NEW p \in Process, Restart(p) PROVE StartupInv'
  BY <1>2, <1>5 DEF Restart, StartupInv, StartupTypeOK, BootInv, RowNamesLastStart
<1>6. ASSUME NEW p \in Process, NEW s \in Settings, NEW confirmed \in BOOLEAN,
             Guard(p, s, confirmed)
      PROVE  StartupInv'
  BY <1>2, <1>6, GuardInv
<1> QED BY <1>3, <1>4, <1>5, <1>6 DEF StartupNext

\* The invariant holds in every reachable state.
LEMMA StartupInvAlways == StartupSpec => []StartupInv
<1> QED BY StartupInvInit, StartupInvNext, PTL DEF StartupSpec

\* The startup implements the bootstrap: what is proved of Spec holds of StartupSpec too.
THEOREM StartupBootstraps == StartupSpec => Spec
<1>1. StartupInit => Init
  BY DEF StartupInit
<1>2. [StartupNext]_startupVars => [Next]_vars
  BY StartupStepBootstraps DEF startupVars
<1> QED BY <1>1, <1>2, PTL DEF StartupSpec, Spec

\* Every reachable state is well typed.
THEOREM StartupTypeCorrect == StartupSpec => []StartupTypeOK
<1>1. StartupInv => StartupTypeOK
  BY DEF StartupInv
<1> QED BY <1>1, StartupInvAlways, PTL

\* Whatever crashes, bootstraps and runs without an account lie between two starts, the
\* second is under the account of the first or was confirmed.
THEOREM AccountSwitchAlwaysConfirmed == StartupSpec => AccountSwitchConfirmed
<1> DEFINE Switch == started # NULL /\ started' # started
                       /\ started'.account # started.account
<1>1. StartupInv /\ [StartupNext]_startupVars => [Switch => started'.confirmed]_startupVars
  <2> SUFFICES ASSUME StartupInv, StartupNext, Switch PROVE started'.confirmed
    OBVIOUS
  <2>1. PICK p \in Process, s \in Settings, confirmed \in BOOLEAN : Guard(p, s, confirmed)
    BY DEF StartupNext, Prepare, CommitGuard, Restart
  <2>2. EvaluateAccountGuard(s, confirmed) = "ok"
    BY <2>1 DEF Guard
  <2>3. started' = [account |-> AccountId(s), confirmed |-> confirmed]
    BY <2>1, <2>2 DEF Guard
  <2>4. last_account_id \notin {NULL, AccountId(s)}
    <3>1. last_account_id = started.account /\ started \in [account : Account, confirmed : BOOLEAN]
      BY DEF StartupInv, RowNamesLastStart, StartupTypeOK
    <3> QED BY <2>3, <3>1, StartupAssumption
  <2>5. confirmed
    BY <2>2, <2>4, OkMeansConfirmed
  <2> QED BY <2>3, <2>5
<1> QED BY <1>1, StartupInvAlways, PTL DEF StartupSpec, AccountSwitchConfirmed

=============================================================================
