------------------------------- MODULE Bootstrap -------------------------------
(***************************************************************************)
(* bootstrap_database of src/stonksbot/db.py on one SQLite file, by        *)
(* several processes that may crash between any two statements and start   *)
(* again.  executescript leaves autocommit on, so each statement of the    *)
(* DDL commits by itself; only the guard_state row waits for the final     *)
(* commit.  An object is absent, of an older schema, or of this one.       *)
(***************************************************************************)
EXTENDS Naturals, FiniteSets

CONSTANTS
    Process,
    Objects,        \* how many tables, indexes and triggers the DDL creates, in its order
    Core,           \* those _core_schema_exists looks for
    Current,        \* SCHEMA_VERSION
    NULL

Object == 1..Objects

\* The first CREATE of the DDL is instrument_reference, one of the four core tables.
ASSUME BootstrapAssumption ==
    /\ Objects \in Nat \ {0}
    /\ Core \subseteq Object
    /\ 1 \in Core
    /\ Current \in Nat \ {0}
    /\ NULL \notin Process

VARIABLES
    schema,         \* the form of each object in the file
    user_version,   \* PRAGMA user_version
    guard,          \* is the guard_state row committed?
    pc,             \* where each process stands in bootstrap_database
    next,           \* the next object of each process's executescript
    writer          \* the process with the INSERT uncommitted: it holds SQLite's write lock

file == <<schema, user_version, guard>>
vars == <<file, pc, next, writer>>

Steps == {"idle", "core", "version", "script", "stamp", "insert", "commit", "ready", "refused"}

\* An empty file, or one an older release of this schema bootstrapped.
Init ==
    /\ \/ /\ schema = [o \in Object |-> "absent"]
          /\ user_version = 0
          /\ guard = FALSE
       \/ /\ schema \in [Object -> {"absent", "older"}]
          /\ \A o \in Core : schema[o] = "older"
          /\ user_version \in 0 .. Current - 1
          /\ guard \in BOOLEAN
    /\ pc = [p \in Process |-> "idle"]
    /\ next = [p \in Process |-> 1]
    /\ writer = NULL

-----------------------------------------------------------------------------
CoreSchemaExists == \E o \in Core : schema[o] # "absent"

Go(p, step) == pc' = [pc EXCEPT ![p] = step]

\* A statement that writes needs the write lock.
MayWrite(p) == writer \in {NULL, p}

Start(p) ==
    /\ pc[p] = "idle"
    /\ Go(p, "core")
    /\ next' = [next EXCEPT ![p] = 1]
    /\ UNCHANGED <<file, writer>>

\* Mutation: looks for the last object of the DDL instead of the core tables.
CheckCore_LastObject(p) ==
    /\ pc[p] = "core"
    /\ Go(p, IF schema[Objects] # "absent" THEN "version" ELSE "script")
    /\ UNCHANGED <<file, next, writer>>

\* _core_schema_exists
CheckCore(p) ==
    /\ pc[p] = "core"
    /\ Go(p, IF CoreSchemaExists THEN "version" ELSE "script")
    /\ UNCHANGED <<file, next, writer>>

\* Mutation: a stale version is migrated by running the DDL over it.
CheckVersion_Accepts(p) ==
    /\ pc[p] = "version"
    /\ Go(p, "script")
    /\ UNCHANGED <<file, next, writer>>

\* _reject_unsupported_existing_schema
CheckVersion(p) ==
    /\ pc[p] = "version"
    /\ Go(p, IF user_version = Current THEN "script" ELSE "refused")
    /\ UNCHANGED <<file, next, writer>>

\* One CREATE ... IF NOT EXISTS of the DDL, committed on its own.
Create(p) ==
    /\ pc[p] = "script"
    /\ schema[next[p]] = "absent" => MayWrite(p)
    /\ schema' = [schema EXCEPT ![next[p]] = IF @ = "absent" THEN "current" ELSE @]
    /\ IF next[p] = Objects
       THEN Go(p, "stamp") /\ UNCHANGED next
       ELSE next' = [next EXCEPT ![p] = @ + 1] /\ UNCHANGED pc
    /\ UNCHANGED <<user_version, guard, writer>>

Stamp(p) ==
    /\ pc[p] = "stamp"
    /\ MayWrite(p)
    /\ user_version' = Current
    /\ Go(p, "insert")
    /\ UNCHANGED <<schema, guard, next, writer>>

\* Mutation: without the commit.
InsertGuard_Uncommitted(p) ==
    /\ pc[p] = "insert"
    /\ MayWrite(p)
    /\ writer' = p
    /\ Go(p, "ready")
    /\ UNCHANGED <<file, next>>

\* The INSERT opens a transaction; on a row that exists it changes nothing.
InsertGuard(p) ==
    /\ pc[p] = "insert"
    /\ MayWrite(p)
    /\ writer' = p
    /\ Go(p, "commit")
    /\ UNCHANGED <<file, next>>

Commit(p) ==
    /\ pc[p] = "commit"
    /\ guard' = TRUE
    /\ writer' = NULL
    /\ Go(p, "ready")
    /\ UNCHANGED <<schema, user_version, next>>

\* A crash, or "database is locked" after the busy timeout: the process may start over.
\* What it committed stays; an open transaction is rolled back.
Abort(p) ==
    /\ pc[p] \notin {"idle", "refused"}
    /\ Go(p, "idle")
    /\ writer' = IF writer = p THEN NULL ELSE writer
    /\ UNCHANGED <<file, next>>

Next ==
    \E p \in Process :
        \/ Start(p) \/ CheckCore(p) \/ CheckVersion(p) \/ Create(p)
        \/ Stamp(p) \/ InsertGuard(p) \/ Commit(p) \/ Abort(p)

Spec == Init /\ [][Next]_vars

-----------------------------------------------------------------------------
TypeOK ==
    /\ schema \in [Object -> {"absent", "older", "current"}]
    /\ user_version \in 0..Current
    /\ guard \in BOOLEAN
    /\ pc \in [Process -> Steps]
    /\ next \in [Process -> Object]
    /\ writer \in Process \cup {NULL}

\* The version stamp is never ahead of the schema (db-schema.md:50-52): whatever processes
\* bootstrap the file together and wherever they crash, a file stamped with this version
\* has every object of the DDL in its present form, no table left with old checks.
VersionTruthful == user_version = Current => \A o \in Object : schema[o] = "current"

\* A process bootstrap_database returns to finds the stamp, the schema and the committed
\* guard_state row, also when another process created part of them or crashed midway.
ReadyMeansComplete ==
    \A p \in Process : pc[p] = "ready" =>
        /\ user_version = Current
        /\ guard
        /\ \A o \in Object : schema[o] = "current"

\* A file with a core table but without this version, which no bootstrap is working on: what
\* a crash between the DDL and the stamp leaves, or an older release.
Unstamped ==
    /\ CoreSchemaExists
    /\ user_version # Current
    /\ \A p \in Process : pc[p] \notin {"script", "stamp"}

\* Core tables without the version are refused (db-schema.md:398-402), also when they are
\* what a crash of bootstrap_database itself left between its DDL and its stamp: the
\* half-made file stays as it is, and every process that starts over on it is refused.
UnstampedFileRefused == [][Unstamped => Unstamped' /\ UNCHANGED file]_vars

\* A database of an older schema is refused untouched: no statement of any bootstrap
\* writes to a file that holds an object of an older form.
OlderFileKept == [][(\E o \in Object : schema[o] = "older") => UNCHANGED file]_vars

=============================================================================
