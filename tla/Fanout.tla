-------------------------------- MODULE Fanout --------------------------------
(***************************************************************************)
(* runSpec of tools/codex-orchestrator/fanout.mjs: a validated spec's      *)
(* units run as child processes by a pool of lanes, each unit under a      *)
(* timer, then a summary.  Node runs one callback to completion, promise   *)
(* continuations included, before the next event: a lane that was woken    *)
(* takes its next unit before any other event is handled.  What the        *)
(* operating system does to the children is external.                      *)
(***************************************************************************)
EXTENDS Naturals, FiniteSets

CONSTANTS
    Units,          \* spec.units.length
    Limit,          \* concurrency, already defaulted to 4 where not positive
    NULL

ASSUME FanoutAssumption ==
    /\ Units \in Nat \ {0}
    /\ Limit \in Nat \ {0}
    /\ NULL \notin Nat /\ NULL \notin {"ok", "exit", "timeout", "error"}

Unit == 1..Units

Lanes == IF Limit <= Units THEN Limit ELSE Units

Lane == 1..Lanes

VARIABLES
    cursor,         \* the units taken so far
    lane,           \* each lane: "ready", "waiting" on a unit, "returned" or "rejected"
    waiter,         \* the lane that awaits each unit it took
    child,          \* the child process of each unit
    signalled,      \* the children SIGTERM was sent to
    timer,          \* the timer of each unit: "off", "armed" or "fired"
    results,        \* the settled promise of each unit
    main            \* "running", "done" (summary written), "failed" or "crashed"

vars == <<cursor, lane, waiter, child, signalled, timer, results, main>>

Init ==
    /\ cursor = 0
    /\ lane = [l \in Lane |-> "ready"]
    /\ waiter = [u \in Unit |-> NULL]
    /\ child = [u \in Unit |-> "none"]
    /\ signalled = {}
    /\ timer = [u \in Unit |-> "off"]
    /\ results = [u \in Unit |-> NULL]
    /\ main = "running"

-----------------------------------------------------------------------------
\* Node is in the event loop: the process lives and no continuation is pending.
Quiescent == main # "crashed" /\ \A l \in Lane : lane[l] # "ready"

\* child_process.spawn: a process, no process and an "error" event to come, or a throw
\* (EMFILE, ENOMEM) that rejects the lane's promise.
Spawn(l, u) ==
    \/ /\ \E c \in {"running", "failed"} : child' = [child EXCEPT ![u] = c]
       /\ lane' = [lane EXCEPT ![l] = "waiting"]
       /\ waiter' = [waiter EXCEPT ![u] = l]
       /\ timer' = [timer EXCEPT ![u] = "armed"]
    \/ /\ lane' = [lane EXCEPT ![l] = "rejected"]
       /\ UNCHANGED <<waiter, child, timer>>

\* The body of the loop of lane().
TakeUnit(l) ==
    /\ main # "crashed"
    /\ lane[l] = "ready"
    /\ IF cursor < Units
       THEN cursor' = cursor + 1 /\ Spawn(l, cursor + 1)
       ELSE lane' = [lane EXCEPT ![l] = "returned"] /\ UNCHANGED <<cursor, waiter, child, timer>>
    /\ UNCHANGED <<signalled, results, main>>

\* Mutation: every event of a unit settles it.
Settle_Again(u, r) ==
    /\ results' = [results EXCEPT ![u] = r]
    /\ lane' = [lane EXCEPT ![waiter[u]] = "ready"]

\* resolve(r) of the unit's promise: only the first settles it and wakes the lane.
Settle(u, r) ==
    IF results[u] # NULL THEN UNCHANGED <<results, lane>>
    ELSE /\ results' = [results EXCEPT ![u] = r]
         /\ lane' = [lane EXCEPT ![waiter[u]] = "ready"]

\* Mutation: the unit settles when its timer fires.
OnTimeout_Settles(u) ==
    /\ Quiescent
    /\ timer[u] = "armed"
    /\ timer' = [timer EXCEPT ![u] = "fired"]
    /\ signalled' = IF child[u] = "running" THEN signalled \cup {u} ELSE signalled
    /\ Settle(u, "timeout")
    /\ UNCHANGED <<cursor, waiter, child, main>>

\* Mutation: the timer only marks the unit.
OnTimeout_NoKill(u) ==
    /\ Quiescent
    /\ timer[u] = "armed"
    /\ timer' = [timer EXCEPT ![u] = "fired"]
    /\ UNCHANGED <<cursor, lane, waiter, child, signalled, results, main>>

\* SIGTERM is sent, which a child already gone does not get.
Kill(u) ==
    /\ signalled' = IF child[u] = "running" THEN signalled \cup {u} ELSE signalled
    /\ UNCHANGED <<lane, results>>

\* The signal cannot be delivered (EPERM): child.kill emits "error" at once, and its
\* handler settles the unit while the process is still there.
KillFails(u) ==
    /\ child[u] \in {"running", "exited0", "exited1"}
    /\ Settle(u, "error")
    /\ UNCHANGED signalled

\* The timer.
OnTimeout(u) ==
    /\ Quiescent
    /\ timer[u] = "armed"
    /\ timer' = [timer EXCEPT ![u] = "fired"]
    /\ Kill(u) \/ KillFails(u)
    /\ UNCHANGED <<cursor, waiter, child, main>>

\* clearTimeout: a timer that fired stays fired.
Cleared(u) == IF timer[u] = "armed" THEN [timer EXCEPT ![u] = "off"] ELSE timer

\* Mutation: the exit code decides before the timer does.
Outcome_CodeFirst(u) == IF child[u] = "closed0" THEN "ok" ELSE
                        IF timer[u] = "fired" THEN "timeout" ELSE "exit"

\* What "close" records: the timer that fired first outranks the exit code.
Outcome(u) ==
    CASE timer[u] = "fired" -> "timeout"
      [] timer[u] # "fired" /\ child[u] = "closed0" -> "ok"
      [] OTHER -> "exit"

\* "error" of a spawn: there is no process.  The other "error" Node emits, of a signal it
\* cannot deliver, comes inside OnTimeout.
OnError(u) ==
    /\ Quiescent
    /\ child[u] = "failed"
    /\ child' = [child EXCEPT ![u] = "closed1"]
    /\ timer' = Cleared(u)
    /\ Settle(u, "error")
    /\ UNCHANGED <<cursor, waiter, signalled, main>>

\* "close": the process ended and its output streams closed; Node may also emit it after
\* "error".
OnClose(u) ==
    /\ Quiescent
    /\ child[u] \in {"closed0", "closed1"}
    /\ child' = [child EXCEPT ![u] = "reaped"]
    /\ timer' = Cleared(u)
    /\ Settle(u, Outcome(u))
    /\ UNCHANGED <<cursor, waiter, signalled, main>>

\* Writing the prompt to a child gone before reading it emits "error" on child.stdin,
\* which has no listener: Node ends the process with the uncaught error.
StdinBreaks(u) ==
    /\ Quiescent
    /\ child[u] \in {"exited0", "exited1", "failed"}
    /\ main' = "crashed"
    /\ UNCHANGED <<cursor, lane, waiter, child, signalled, timer, results>>

\* Nor has the log stream of a taken unit: an open or a write that fails, and output of a
\* child whose unit "error" has settled, written after end(), are uncaught as well.
LogBreaks(u) ==
    /\ Quiescent
    /\ u <= cursor
    /\ main' = "crashed"
    /\ UNCHANGED <<cursor, lane, waiter, child, signalled, timer, results>>

\* Promise.all over the lanes, then writeSummary, which may throw.
Finish ==
    /\ Quiescent
    /\ main = "running"
    /\ \A l \in Lane : lane[l] = "returned"
    /\ main' \in {"done", "failed"}
    /\ UNCHANGED <<cursor, lane, waiter, child, signalled, timer, results>>

\* Mutation: Promise.any, which rejects with the last lane only.
Fail_AllLanes ==
    /\ Quiescent
    /\ main = "running"
    /\ \A l \in Lane : lane[l] = "rejected"
    /\ main' = "failed"
    /\ UNCHANGED <<cursor, lane, waiter, child, signalled, timer, results>>

\* Promise.all rejects with the first lane: no summary; the other lanes run on.
Fail ==
    /\ Quiescent
    /\ main = "running"
    /\ \E l \in Lane : lane[l] = "rejected"
    /\ main' = "failed"
    /\ UNCHANGED <<cursor, lane, waiter, child, signalled, timer, results>>

Orchestrate ==
    \/ \E l \in Lane : TakeUnit(l)
    \/ \E u \in Unit : OnTimeout(u) \/ OnError(u) \/ OnClose(u)
    \/ Finish
    \/ Fail

-----------------------------------------------------------------------------
\* The children and the descendants that keep their output streams open.
Exit(u) ==
    /\ child[u] = "running"
    /\ \E c \in {"exited0", "exited1"} : child' = [child EXCEPT ![u] = c]
    /\ UNCHANGED <<cursor, lane, waiter, signalled, timer, results, main>>

StreamsClose(u) ==
    /\ child[u] \in {"exited0", "exited1"}
    /\ child' = [child EXCEPT ![u] = IF @ = "exited0" THEN "closed0" ELSE "closed1"]
    /\ UNCHANGED <<cursor, lane, waiter, signalled, timer, results, main>>

Next ==
    \/ Orchestrate
    \/ \E u \in Unit : Exit(u) \/ StreamsClose(u) \/ StdinBreaks(u) \/ LogBreaks(u)

\* The event loop serves every event and timer.
Fairness ==
    /\ WF_vars(\E l \in Lane : TakeUnit(l))
    /\ WF_vars(Finish) /\ WF_vars(Fail)
    /\ \A u \in Unit : WF_vars(OnTimeout(u)) /\ WF_vars(OnError(u)) /\ WF_vars(OnClose(u))

\* Children SIGTERM reaches exit, and whatever holds their streams lets go.
Cooperation ==
    \A u \in Unit : WF_vars(u \in signalled /\ Exit(u)) /\ WF_vars(StreamsClose(u))

Spec == Init /\ [][Next]_vars /\ Fairness

CooperativeSpec == Spec /\ Cooperation

-----------------------------------------------------------------------------
TypeOK ==
    /\ cursor \in 0..Units
    /\ lane \in [Lane -> {"ready", "waiting", "returned", "rejected"}]
    /\ waiter \in [Unit -> Lane \cup {NULL}]
    /\ child \in [Unit -> {"none", "running", "failed", "exited0", "exited1",
                           "closed0", "closed1", "reaped"}]
    /\ signalled \subseteq Unit
    /\ timer \in [Unit -> {"off", "armed", "fired"}]
    /\ results \in [Unit -> {NULL, "ok", "exit", "timeout", "error"}]
    /\ main \in {"running", "done", "failed", "crashed"}

\* The units settled as errors after their timer fired and no signal was delivered: their
\* children are out of the orchestrator's hands.
Abandoned ==
    {u \in Unit : results[u] = "error" /\ timer[u] = "fired" /\ u \notin signalled}

\* "max parallel codex exec processes" (README of the orchestrator): at no time do more
\* than the limit's children run, those that were told to stop and have not included.  Only
\* the children SIGTERM could not be delivered to run beyond it.
LimitHeld == Cardinality({u \in Unit : child[u] = "running"} \ Abandoned) <= Limit

\* A summary is the whole truth: it is written when every unit has settled in its own
\* slot and no child is left running, except those SIGTERM could not be delivered to, which
\* it reports as errors; and a unit counts as ok only if its process exited 0 and closed
\* before its timer fired, which is what the exit code 0 of the run rests on.
SummaryComplete ==
    /\ main = "done" =>
         \A u \in Unit : results[u] # NULL
                       /\ (child[u] \in {"reaped", "closed1"} \/ u \in Abandoned)
    /\ \A u \in Unit : results[u] = "ok" => u \notin signalled /\ timer[u] # "fired"

\* If children that are told to stop stop, and let go of their streams, every run comes to
\* an end: a summary, an error, or Node's crash on a broken stream.
RunEnds == <>(main # "running")

\* "per-unit hard timeout" (tools/codex-orchestrator/README.md:41): a unit whose timer
\* fired settles, whatever its process does.
HardTimeout ==
    \A u \in Unit : (timer[u] = "fired") ~> (results[u] # NULL \/ main = "crashed")

\* No unit is lost to another's failure: even when a spawn throws and the run has failed,
\* every unit that a lane awaits settles, unless Node crashed.
TakenUnitsSettle ==
    \A u \in Unit :
        (waiter[u] # NULL) ~> (results[u] # NULL \/ main = "crashed")

\* The outcomes a unit settles with.
Result == {"ok", "exit", "timeout", "error"}

\* A unit was lost to a spawn that threw.
Broken == \E l \in Lane : lane[l] = "rejected"

\* The units a lane awaits.
Awaited == {u \in Unit : waiter[u] # NULL /\ results[u] = NULL}

Pool == INSTANCE WorkPool WITH
    next <- cursor,
    running <- Awaited,
    outcome <- results,
    broken <- Broken

\* The lanes, promises, children and timers are a WorkPool: each unit is taken once and in
\* order, at most Limit are awaited together, a settled promise never settles again, be it
\* by "close" after "error" or by a late "close" after the timer, and the summary is
\* written only when nothing is awaited and no unit was lost to a spawn that threw.
ImplementsPool == Pool!Spec

=============================================================================
