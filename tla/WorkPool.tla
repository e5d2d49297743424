------------------------------- MODULE WorkPool -------------------------------
(***************************************************************************)
(* What a fan-out run promises, free of lanes, processes and timers: units *)
(* of work are taken once each and in order, no more than the limit are in *)
(* progress together, each one in progress ends once and for good, and the *)
(* summary comes when every unit has ended and none was lost.  A unit      *)
(* whose start fails is lost: the pool is then broken, and the run fails   *)
(* whatever becomes of the units in progress.  Writing the summary may     *)
(* fail, and once work has started the process may crash.                  *)
(***************************************************************************)
EXTENDS Naturals, FiniteSets

CONSTANTS Units, Limit, Result, NULL

VARIABLES
    next,       \* the units taken so far
    running,    \* the units in progress
    outcome,    \* the result of each unit that ended
    broken,     \* a unit was lost
    main        \* "running", "done", "failed" or "crashed"

pvars == <<next, running, outcome, broken, main>>

Init ==
    /\ next = 0
    /\ running = {}
    /\ outcome = [u \in 1..Units |-> NULL]
    /\ broken = FALSE
    /\ main = "running"

Take ==
    /\ main # "crashed"
    /\ next < Units
    /\ Cardinality(running) < Limit
    /\ next' = next + 1
    /\ \/ running' = running \cup {next + 1} /\ UNCHANGED broken
       \/ broken' = TRUE /\ UNCHANGED running
    /\ UNCHANGED <<outcome, main>>

End(u) ==
    /\ main # "crashed"
    /\ u \in running
    /\ running' = running \ {u}
    /\ \E r \in Result : outcome' = [outcome EXCEPT ![u] = r]
    /\ UNCHANGED <<next, broken, main>>

Summarise ==
    /\ main = "running"
    /\ next = Units /\ running = {} /\ ~broken
    /\ main' \in {"done", "failed"}
    /\ UNCHANGED <<next, running, outcome, broken>>

GiveUp ==
    /\ main = "running"
    /\ broken
    /\ main' = "failed"
    /\ UNCHANGED <<next, running, outcome, broken>>

Crash ==
    /\ next > 0
    /\ main' = "crashed"
    /\ UNCHANGED <<next, running, outcome, broken>>

Next ==
    \/ Take
    \/ \E u \in 1..Units : End(u)
    \/ Summarise \/ GiveUp \/ Crash

Spec == Init /\ [][Next]_pvars

=============================================================================
