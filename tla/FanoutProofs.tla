----------------------------- MODULE FanoutProofs -----------------------------
(***************************************************************************)
(* Proofs of the safety of Fanout for any number of units and any limit.   *)
(* LimitHeld counts children and the code counts lanes: FanoutInv says     *)
(* that an unsettled unit has the lane that took it waiting for it alone,  *)
(* and that a settled one has no child left that runs, unless it was       *)
(* abandoned because SIGTERM could not be delivered.  The refinement of    *)
(* WorkPool, one step at a time, rests on the same invariant.              *)
(***************************************************************************)
EXTENDS Fanout, FiniteSetTheorems, TLAPS

\* A taken unit that has not settled keeps its own lane waiting.
LaneAwaits ==
    /\ \A u \in Unit : waiter[u] # NULL /\ results[u] = NULL => lane[waiter[u]] = "waiting"
    /\ \A u, v \in Unit :
          (waiter[u] # NULL /\ waiter[u] = waiter[v] /\ results[u] = NULL /\ results[v] = NULL)
            => u = v

\* A unit has a child from when it was taken, and no live one once it has settled unless
\* it is abandoned; the timer that told it to stop decides its outcome.
ChildSettles ==
    /\ \A u \in Unit : child[u] = "none" <=> waiter[u] = NULL
    /\ \A u \in Unit : waiter[u] = NULL => timer[u] = "off"
    /\ \A u \in Unit : results[u] # NULL =>
          timer[u] # "armed" /\ (child[u] \in {"reaped", "closed1"} \/ u \in Abandoned)
    /\ \A u \in signalled : timer[u] = "fired"
    /\ \A u \in Unit : results[u] = "ok" => timer[u] # "fired"

\* Units are taken in order, each one unless its spawn threw, and lanes return at the end.
AllTaken ==
    /\ \A u \in Unit : waiter[u] # NULL => u <= cursor
    /\ \A u \in Unit :
          u <= cursor /\ waiter[u] = NULL => \E l \in Lane : lane[l] = "rejected"
    /\ \A l \in Lane : lane[l] = "returned" => cursor = Units
    /\ main = "done" => \A l \in Lane : lane[l] = "returned"

FanoutInv == TypeOK /\ LaneAwaits /\ ChildSettles /\ AllTaken

-----------------------------------------------------------------------------
\* There are lanes, and no more than the limit.
LEMMA LaneCount ==
  /\ Lanes \in Nat \ {0} /\ Lanes <= Limit
  /\ IsFiniteSet(Lane) /\ Cardinality(Lane) = Lanes
  /\ NULL \notin Lane /\ NULL \notin Unit /\ Unit \subseteq Nat
<1>1. Lanes \in Nat \ {0} /\ Lanes <= Limit
  BY FanoutAssumption DEF Lanes
<1>2. IsFiniteSet(Lane) /\ Cardinality(Lane) = Lanes
  BY <1>1, FS_Interval DEF Lane
<1> QED BY <1>1, <1>2, FanoutAssumption DEF Lane, Unit

\* No unit is taken at first.
LEMMA FanoutInvInit == Init => FanoutInv
<1> SUFFICES ASSUME Init PROVE FanoutInv
  OBVIOUS
<1>1. TypeOK
  BY FanoutAssumption, LaneCount DEF Init, TypeOK
<1>2. LaneAwaits /\ ChildSettles
  BY LaneCount DEF Init, LaneAwaits, ChildSettles, Abandoned
<1>3. AllTaken
  BY LaneCount DEF Init, AllTaken, Unit
<1> QED BY <1>1, <1>2, <1>3 DEF FanoutInv

\* A lane takes the next unit, whether its spawn succeeds, fails or throws, or returns.
LEMMA TakeUnitInv ==
  ASSUME FanoutInv, NEW l \in Lane, TakeUnit(l)
  PROVE  FanoutInv'
<1> USE LaneCount, FanoutAssumption
<1>0. TypeOK /\ LaneAwaits /\ ChildSettles /\ AllTaken
  BY DEF FanoutInv
<1>1. lane[l] = "ready" /\ UNCHANGED <<signalled, results, main>>
  BY DEF TakeUnit
<1>2. CASE cursor < Units
  <2> DEFINE u == cursor + 1
  <2>1. cursor' = u /\ Spawn(l, u) /\ u \in Unit /\ cursor' \in 0..Units
    BY <1>0, <1>2 DEF TakeUnit, TypeOK, Unit
  <2>2. waiter[u] = NULL /\ child[u] = "none" /\ results[u] = NULL
    BY <1>0, <2>1 DEF AllTaken, ChildSettles, Abandoned, TypeOK, Unit
  <2>3. CASE lane' = [lane EXCEPT ![l] = "rejected"] /\ UNCHANGED <<waiter, child, timer>>
    <3>1. TypeOK'
      BY <1>0, <1>1, <2>1, <2>3 DEF TypeOK
    <3>2. LaneAwaits'
      BY <1>0, <1>1, <2>3 DEF LaneAwaits, TypeOK
    <3>3. ChildSettles'
      BY <1>0, <1>1, <2>3 DEF ChildSettles, Abandoned
    <3>4. AllTaken'
      <4>1. lane'[l] = "rejected"
        BY <1>0, <2>3 DEF TypeOK
      <4>2. \A v \in Unit : waiter'[v] # NULL => v <= cursor'
        BY <1>0, <2>1, <2>3 DEF AllTaken, TypeOK, Unit
      <4>3. \A k \in Lane : lane'[k] = "returned" => cursor' = Units
        BY <1>0, <1>2, <2>3 DEF AllTaken, TypeOK
      <4>4. main' # "done"
        BY <1>0, <1>1 DEF AllTaken
      <4> QED BY <4>1, <4>2, <4>3, <4>4 DEF AllTaken
    <3> QED BY <3>1, <3>2, <3>3, <3>4 DEF FanoutInv
  <2>4. CASE /\ \E c \in {"running", "failed"} : child' = [child EXCEPT ![u] = c]
             /\ lane' = [lane EXCEPT ![l] = "waiting"]
             /\ waiter' = [waiter EXCEPT ![u] = l]
             /\ timer' = [timer EXCEPT ![u] = "armed"]
    <3>0. /\ waiter'[u] = l /\ lane'[l] = "waiting" /\ child'[u] \in {"running", "failed"}
          /\ timer'[u] = "armed"
          /\ \A v \in Unit \ {u} : waiter'[v] = waiter[v] /\ child'[v] = child[v]
                                     /\ timer'[v] = timer[v]
          /\ \A k \in Lane \ {l} : lane'[k] = lane[k]
      BY <1>0, <2>1, <2>4 DEF TypeOK
    <3>1. TypeOK'
      <4>1. child' \in [Unit -> {"none", "running", "failed", "exited0", "exited1",
                                 "closed0", "closed1", "reaped"}]
        BY <1>0, <2>1, <2>4 DEF TypeOK
      <4>2. /\ lane' \in [Lane -> {"ready", "waiting", "returned", "rejected"}]
            /\ waiter' \in [Unit -> Lane \cup {NULL}]
            /\ timer' \in [Unit -> {"off", "armed", "fired"}]
        BY <1>0, <2>1, <2>4 DEF TypeOK
      <4> QED BY <1>0, <1>1, <2>1, <4>1, <4>2 DEF TypeOK
    <3>2. LaneAwaits'
      <4>1. \A v \in Unit : waiter[v] = l => results[v] # NULL
        BY <1>0, <1>1 DEF LaneAwaits
      <4>2. \A v \in Unit : waiter'[v] # NULL /\ results'[v] = NULL => lane'[waiter'[v]] = "waiting"
        BY <1>0, <1>1, <3>0, <4>1 DEF LaneAwaits, TypeOK
      <4>3. ASSUME NEW v \in Unit, NEW w \in Unit, waiter'[v] # NULL, waiter'[v] = waiter'[w],
                   results'[v] = NULL, results'[w] = NULL
            PROVE  v = w
        BY <1>0, <1>1, <3>0, <4>1, <4>3 DEF LaneAwaits
      <4> QED BY <4>2, <4>3 DEF LaneAwaits
    <3>3. ChildSettles'
      BY <1>0, <1>1, <2>1, <2>2, <3>0 DEF ChildSettles, Abandoned, TypeOK
    <3>4. AllTaken'
      <4>1. \A v \in Unit : waiter'[v] # NULL => v <= cursor'
        BY <1>0, <2>1, <3>0 DEF AllTaken, TypeOK, Unit
      <4>2. ASSUME NEW v \in Unit, v <= cursor', waiter'[v] = NULL
            PROVE  \E k \in Lane : lane'[k] = "rejected"
        <5>1. v # u /\ waiter[v] = NULL /\ v <= cursor
          BY <1>0, <2>1, <3>0, <4>2 DEF TypeOK, Unit
        <5>2. PICK k \in Lane : lane[k] = "rejected"
          BY <1>0, <5>1 DEF AllTaken
        <5> QED BY <1>1, <3>0, <5>2
      <4>3. \A k \in Lane : lane'[k] = "returned" => cursor' = Units
        BY <1>0, <1>2, <3>0 DEF AllTaken, TypeOK
      <4>4. main' # "done"
        BY <1>0, <1>1 DEF AllTaken
      <4> QED BY <4>1, <4>2, <4>3, <4>4 DEF AllTaken
    <3> QED BY <3>1, <3>2, <3>3, <3>4 DEF FanoutInv
  <2> QED BY <2>1, <2>3, <2>4 DEF Spawn
<1>3. CASE ~(cursor < Units)
  <2>1. lane' = [lane EXCEPT ![l] = "returned"] /\ UNCHANGED <<cursor, waiter, child, timer>>
    BY <1>3 DEF TakeUnit
  <2>2. cursor = Units
    BY <1>0, <1>3 DEF TypeOK
  <2>3. TypeOK' /\ LaneAwaits' /\ ChildSettles'
    BY <1>0, <1>1, <2>1 DEF TypeOK, LaneAwaits, ChildSettles, Abandoned
  <2>4. AllTaken'
    BY <1>0, <1>1, <2>1, <2>2 DEF TypeOK, AllTaken
  <2> QED BY <2>3, <2>4 DEF FanoutInv
<1> QED BY <1>2, <1>3

\* What "close" records is an outcome, and "ok" only if no timer fired.
LEMMA OutcomeSound ==
  ASSUME NEW u \in Unit, child[u] \in {"closed0", "closed1"}
  PROVE  Outcome(u) \in {"ok", "exit", "timeout"} /\ (Outcome(u) = "ok" => timer[u] # "fired")
<1>1. CASE timer[u] = "fired"
  <2>1. Outcome(u) = "timeout"
    BY <1>1, Zenon DEF Outcome
  <2> QED BY <2>1
<1>2. CASE timer[u] # "fired" /\ child[u] = "closed0"
  <2>1. Outcome(u) = "ok"
    BY <1>2, Zenon DEF Outcome
  <2> QED BY <1>2, <2>1
<1>3. CASE timer[u] # "fired" /\ child[u] # "closed0"
  <2>1. Outcome(u) = "exit"
    BY <1>3, Zenon DEF Outcome
  <2> QED BY <2>1
<1> QED BY <1>1, <1>2, <1>3

\* A promise that settles wakes the lane that awaits the unit, and no other; the timer is
\* cleared and the child has ended, or the timer fires and the unit is abandoned.
LEMMA SettleInv ==
  ASSUME FanoutInv, NEW u \in Unit, NEW r \in {"ok", "exit", "timeout", "error"},
         NEW c \in {"running", "exited0", "exited1", "closed1", "reaped"},
         waiter[u] # NULL,
         child' = [child EXCEPT ![u] = c],
         \/ c \in {"closed1", "reaped"} /\ timer' = Cleared(u)
         \/ /\ results[u] = NULL /\ r = "error" /\ u \notin signalled
            /\ timer' = [timer EXCEPT ![u] = "fired"],
         Settle(u, r),
         r = "ok" => timer[u] # "fired",
         UNCHANGED <<cursor, waiter, signalled, main>>
  PROVE  FanoutInv'
<1> USE LaneCount, FanoutAssumption
<1>0. TypeOK /\ LaneAwaits /\ ChildSettles /\ AllTaken
  BY DEF FanoutInv
<1>1. /\ timer' \in [Unit -> {"off", "armed", "fired"}]
      /\ timer'[u] # "armed" /\ (timer[u] = "fired" => timer'[u] = "fired")
      /\ timer'[u] = "fired" => timer[u] = "fired" \/ (r = "error" /\ results[u] = NULL)
      /\ \A v \in Unit \ {u} : timer'[v] = timer[v]
      /\ \/ c \in {"closed1", "reaped"}
         \/ results[u] = NULL /\ r = "error" /\ u \notin signalled /\ timer'[u] = "fired"
  BY <1>0 DEF Cleared, TypeOK
<1>2. /\ child' \in [Unit -> {"none", "running", "failed", "exited0", "exited1",
                              "closed0", "closed1", "reaped"}]
      /\ child'[u] = c /\ \A v \in Unit \ {u} : child'[v] = child[v]
  BY <1>0 DEF TypeOK
<1>3. CASE results[u] # NULL
  <2>1. UNCHANGED <<results, lane>>
    BY <1>3 DEF Settle
  <2>2. TypeOK' /\ LaneAwaits' /\ AllTaken'
    BY <1>0, <1>1, <1>2, <2>1 DEF TypeOK, LaneAwaits, AllTaken
  <2>3. ChildSettles'
    <3>1. /\ \A v \in Unit : v \in Abandoned => v \in Abandoned'
          /\ child'[u] \in {"closed1", "reaped"}
      BY <1>0, <1>1, <1>2, <1>3, <2>1 DEF Abandoned
    <3>2. \A v \in Unit : results'[v] # NULL =>
             timer'[v] # "armed" /\ (child'[v] \in {"reaped", "closed1"} \/ v \in Abandoned')
      BY <1>0, <1>1, <1>2, <2>1, <3>1 DEF ChildSettles
    <3>3. \A v \in signalled' : timer'[v] = "fired"
      BY <1>0, <1>1 DEF ChildSettles, TypeOK
    <3>4. \A v \in Unit : results'[v] = "ok" => timer'[v] # "fired"
      BY <1>0, <1>1, <1>3, <2>1 DEF ChildSettles
    <3>5. \A v \in Unit : /\ child'[v] = "none" <=> waiter'[v] = NULL
                          /\ waiter'[v] = NULL => timer'[v] = "off"
      BY <1>0, <1>1, <1>2 DEF ChildSettles
    <3> QED BY <3>2, <3>3, <3>4, <3>5 DEF ChildSettles
  <2> QED BY <2>2, <2>3 DEF FanoutInv
<1>4. CASE results[u] = NULL
  <2> DEFINE l == waiter[u]
  <2>1. /\ results' = [results EXCEPT ![u] = r] /\ lane' = [lane EXCEPT ![l] = "ready"]
        /\ l \in Lane /\ lane[l] = "waiting"
    BY <1>0, <1>4 DEF Settle, LaneAwaits, TypeOK
  <2>2. /\ results'[u] = r /\ \A v \in Unit \ {u} : results'[v] = results[v]
        /\ lane'[l] = "ready" /\ \A k \in Lane \ {l} : lane'[k] = lane[k]
    BY <1>0, <2>1 DEF TypeOK
  <2>3. TypeOK'
    BY <1>0, <1>1, <1>2, <2>1 DEF TypeOK
  <2>4. LaneAwaits'
    <3>1. ASSUME NEW v \in Unit, waiter'[v] # NULL, results'[v] = NULL
          PROVE  lane'[waiter'[v]] = "waiting"
      <4>1. v # u /\ results[v] = NULL /\ waiter[v] # l
        BY <1>0, <1>4, <2>2, <3>1 DEF LaneAwaits
      <4> QED BY <1>0, <2>2, <3>1, <4>1 DEF LaneAwaits, TypeOK
    <3>2. ASSUME NEW v \in Unit, NEW w \in Unit, waiter'[v] # NULL, waiter'[v] = waiter'[w],
                 results'[v] = NULL, results'[w] = NULL
          PROVE  v = w
      <4>1. v # u /\ w # u
        BY <2>2, <3>2
      <4> QED BY <1>0, <2>2, <3>2, <4>1 DEF LaneAwaits
    <3> QED BY <3>1, <3>2 DEF LaneAwaits
  <2>5. ChildSettles'
    <3>1. /\ \A v \in Unit \ {u} : v \in Abandoned => v \in Abandoned'
          /\ u \in Abandoned' \/ c \in {"closed1", "reaped"}
      BY <1>0, <1>1, <2>2 DEF Abandoned
    <3>2. \A v \in Unit : results'[v] # NULL =>
             timer'[v] # "armed" /\ (child'[v] \in {"reaped", "closed1"} \/ v \in Abandoned')
      BY <1>0, <1>1, <1>2, <2>2, <3>1 DEF ChildSettles
    <3>3. \A v \in signalled' : timer'[v] = "fired"
      BY <1>0, <1>1 DEF ChildSettles, TypeOK
    <3>4. \A v \in Unit : results'[v] = "ok" => timer'[v] # "fired"
      BY <1>0, <1>1, <2>2 DEF ChildSettles
    <3>5. \A v \in Unit : /\ child'[v] = "none" <=> waiter'[v] = NULL
                          /\ waiter'[v] = NULL => timer'[v] = "off"
      BY <1>0, <1>1, <1>2 DEF ChildSettles
    <3> QED BY <3>2, <3>3, <3>4, <3>5 DEF ChildSettles
  <2>6. AllTaken'
    <3>1. \A k \in Lane : /\ lane'[k] = "returned" <=> k # l /\ lane[k] = "returned"
                          /\ lane[k] = "rejected" => lane'[k] = "rejected"
      BY <2>1, <2>2
    <3>2. main # "done"
      BY <1>0, <2>1 DEF AllTaken
    <3> QED BY <1>0, <3>1, <3>2 DEF AllTaken
  <2> QED BY <2>3, <2>4, <2>5, <2>6 DEF FanoutInv
<1> QED BY <1>3, <1>4

\* The events that settle a unit.
LEMMA EndOfUnitInv ==
  ASSUME FanoutInv, NEW u \in Unit, OnError(u) \/ OnClose(u)
  PROVE  FanoutInv'
<1>1. waiter[u] # NULL
  BY DEF OnError, OnClose, FanoutInv, ChildSettles
<1>2. CASE OnError(u)
  BY <1>1, <1>2, SettleInv DEF OnError
<1>3. CASE OnClose(u)
  <2>1. Outcome(u) \in {"ok", "exit", "timeout"} /\ (Outcome(u) = "ok" => timer[u] # "fired")
    BY <1>3, OutcomeSound DEF OnClose
  <2> QED BY <1>1, <1>3, <2>1, SettleInv DEF OnClose
<1> QED BY <1>2, <1>3

\* A timer fires, and its child is told to stop while the unit waits on, or the unit is
\* settled and abandoned.
LEMMA OnTimeoutInv ==
  ASSUME FanoutInv, NEW u \in Unit, OnTimeout(u)
  PROVE  FanoutInv'
<1> USE LaneCount, FanoutAssumption
<1>0. TypeOK /\ LaneAwaits /\ ChildSettles /\ AllTaken
  BY DEF FanoutInv
<1>1. /\ timer[u] = "armed" /\ timer' = [timer EXCEPT ![u] = "fired"]
      /\ UNCHANGED <<cursor, waiter, child, main>>
  BY DEF OnTimeout
<1>2. timer'[u] = "fired" /\ \A v \in Unit \ {u} : timer'[v] = timer[v]
  BY <1>0, <1>1 DEF TypeOK
<1>3. results[u] = NULL /\ waiter[u] # NULL /\ u \notin signalled
  BY <1>0, <1>1 DEF ChildSettles
<1>4. CASE Kill(u)
  <2>1. signalled' \subseteq signalled \cup {u} /\ signalled \subseteq signalled'
        /\ UNCHANGED <<lane, results>>
    BY <1>4 DEF Kill
  <2>2. TypeOK' /\ LaneAwaits' /\ AllTaken'
    BY <1>0, <1>1, <2>1 DEF TypeOK, LaneAwaits, AllTaken
  <2>3. \A v \in Unit : v \in Abandoned => v \in Abandoned'
    BY <1>2, <1>3, <2>1 DEF Abandoned
  <2>4. ChildSettles'
    BY <1>0, <1>1, <1>2, <1>3, <2>1, <2>3 DEF ChildSettles, TypeOK
  <2> QED BY <2>2, <2>4 DEF FanoutInv
<1>5. CASE KillFails(u)
  <2>1. /\ child[u] \in {"running", "exited0", "exited1"}
        /\ Settle(u, "error") /\ signalled' = signalled
    BY <1>5 DEF KillFails
  <2>2. child' = [child EXCEPT ![u] = child[u]]
    BY <1>0, <1>1 DEF TypeOK
  <2> QED BY <1>1, <1>3, <2>1, <2>2, SettleInv
<1> QED BY <1>4, <1>5 DEF OnTimeout

\* The operating system moves a child on; its unit has not settled, or is abandoned.
LEMMA ChildInv ==
  ASSUME FanoutInv, NEW u \in Unit, Exit(u) \/ StreamsClose(u)
  PROVE  FanoutInv'
<1> USE LaneCount, FanoutAssumption
<1>0. TypeOK /\ LaneAwaits /\ ChildSettles /\ AllTaken
  BY DEF FanoutInv
<1>1. /\ child[u] \in {"running", "exited0", "exited1"}
      /\ \E c \in {"exited0", "exited1", "closed0", "closed1"} : child' = [child EXCEPT ![u] = c]
      /\ UNCHANGED <<cursor, lane, waiter, signalled, timer, results, main>>
  <2>1. CASE Exit(u)
    BY <2>1 DEF Exit
  <2>2. CASE StreamsClose(u)
    BY <1>0, <2>2 DEF StreamsClose, TypeOK
  <2> QED BY <2>1, <2>2
<1>2. PICK c \in {"exited0", "exited1", "closed0", "closed1"} : child' = [child EXCEPT ![u] = c]
  BY <1>1
<1>3. child'[u] = c /\ \A v \in Unit \ {u} : child'[v] = child[v]
  BY <1>0, <1>2 DEF TypeOK
<1>4. child' \in [Unit -> {"none", "running", "failed", "exited0", "exited1",
                          "closed0", "closed1", "reaped"}]
  BY <1>0, <1>2 DEF TypeOK
<1>5. TypeOK' /\ LaneAwaits' /\ AllTaken'
  BY <1>0, <1>1, <1>4 DEF TypeOK, LaneAwaits, AllTaken
<1>6. ChildSettles'
  <2>1. Abandoned' = Abandoned
    BY <1>1 DEF Abandoned
  <2>2. results[u] # NULL => u \in Abandoned
    BY <1>0, <1>1 DEF ChildSettles
  <2> QED BY <1>0, <1>1, <1>3, <2>1, <2>2 DEF ChildSettles
<1> QED BY <1>5, <1>6 DEF FanoutInv

\* The ends of the run: the summary is written when every lane has returned.
LEMMA MainInv ==
  ASSUME FanoutInv, Finish \/ Fail \/ \E u \in Unit : StdinBreaks(u) \/ LogBreaks(u)
  PROVE  FanoutInv'
<1>0. TypeOK /\ LaneAwaits /\ ChildSettles /\ AllTaken
  BY DEF FanoutInv
<1>1. /\ main' \in {"done", "failed", "crashed"}
      /\ main' = "done" => \A l \in Lane : lane[l] = "returned"
      /\ UNCHANGED <<cursor, lane, waiter, child, signalled, timer, results>>
  BY DEF Finish, Fail, StdinBreaks, LogBreaks
<1>2. TypeOK' /\ LaneAwaits' /\ ChildSettles' /\ AllTaken'
  BY <1>0, <1>1 DEF TypeOK, LaneAwaits, ChildSettles, Abandoned, AllTaken
<1> QED BY <1>2 DEF FanoutInv

\* Every reachable state satisfies the invariant.
LEMMA FanoutInvariant == Spec => []FanoutInv
<1>1. FanoutInv /\ [Next]_vars => FanoutInv'
  <2> SUFFICES ASSUME FanoutInv, [Next]_vars PROVE FanoutInv'
    OBVIOUS
  <2>1. CASE Orchestrate
    BY <2>1, TakeUnitInv, OnTimeoutInv, EndOfUnitInv, MainInv DEF Orchestrate
  <2>2. CASE \E u \in Unit : Exit(u) \/ StreamsClose(u) \/ StdinBreaks(u) \/ LogBreaks(u)
    BY <2>2, ChildInv, MainInv
  <2>3. CASE UNCHANGED vars
    BY <2>3 DEF vars, FanoutInv, TypeOK, LaneAwaits, ChildSettles, Abandoned, AllTaken
  <2> QED BY <2>1, <2>2, <2>3 DEF Next
<1> QED BY <1>1, FanoutInvInit, PTL DEF Spec

\* Every variable keeps to its type.
THEOREM FanoutTypeCorrect == Spec => []TypeOK
<1>1. FanoutInv => TypeOK
  BY DEF FanoutInv
<1> QED BY <1>1, FanoutInvariant, PTL

\* However many units there are, no more than the limit's children run at once, those
\* SIGTERM could not be delivered to set aside.
THEOREM LimitAlwaysHeld == Spec => []LimitHeld
<1>1. ASSUME FanoutInv PROVE LimitHeld
  <2> DEFINE Running == {u \in Unit : child[u] = "running"} \ Abandoned
             f == [u \in Running |-> waiter[u]]
  <2>1. ASSUME NEW u \in Running PROVE waiter[u] \in Lane /\ waiter[u] # NULL /\ results[u] = NULL
    BY <1>1, LaneCount DEF FanoutInv, TypeOK, ChildSettles
  <2>2. f \in [Running -> Lane]
    BY <2>1
  <2>3. ASSUME NEW u \in Running, NEW v \in Running, f[u] = f[v] PROVE u = v
    BY <1>1, <2>1, <2>3 DEF FanoutInv, LaneAwaits
  <2>4. f \in Injection(Running, Lane)
    BY <2>2, <2>3 DEF Injection, IsInjective
  <2>5. IsFiniteSet(Running) /\ Cardinality(Running) <= Cardinality(Lane)
    BY <2>4, LaneCount, FS_Injection
  <2>6. Cardinality(Running) \in Nat
    BY <2>5, FS_CardinalityType
  <2> QED BY <2>5, <2>6, LaneCount, FanoutAssumption DEF LimitHeld
<1> QED BY <1>1, FanoutInvariant, PTL

\* A summary is written with every unit settled, and no child running but the ones SIGTERM
\* could not be delivered to, which it reports as errors; no unit that was told to stop or
\* whose timer fired counts as ok.
THEOREM SummaryAlwaysComplete == Spec => []SummaryComplete
<1>1. ASSUME FanoutInv PROVE SummaryComplete
  <2> USE LaneCount, FanoutAssumption
  <2>0. TypeOK /\ LaneAwaits /\ ChildSettles /\ AllTaken
    BY <1>1 DEF FanoutInv
  <2>1. ASSUME main = "done", NEW u \in Unit
        PROVE  results[u] # NULL /\ (child[u] \in {"reaped", "closed1"} \/ u \in Abandoned)
    <3>1. \A l \in Lane : lane[l] = "returned"
      BY <2>0, <2>1 DEF AllTaken
    <3>2. 1 \in Lane
      BY DEF Lane
    <3>3. u <= cursor
      BY <2>0, <3>1, <3>2 DEF AllTaken, Unit
    <3>4. waiter[u] # NULL
      BY <2>0, <3>1, <3>3 DEF AllTaken
    <3>5. results[u] # NULL
      BY <2>0, <3>1, <3>4 DEF LaneAwaits, TypeOK
    <3> QED BY <2>0, <3>5 DEF ChildSettles
  <2>2. ASSUME NEW u \in Unit, results[u] = "ok" PROVE u \notin signalled /\ timer[u] # "fired"
    BY <2>0, <2>2 DEF ChildSettles
  <2> QED BY <2>1, <2>2 DEF SummaryComplete
<1> QED BY <1>1, FanoutInvariant, PTL

-----------------------------------------------------------------------------
(***************************************************************************)
(* The orchestrator implements WorkPool under the mapping of Pool.         *)
(***************************************************************************)

\* The instance counts as the module does.
LEMMA SameCount == \A S : Pool!Cardinality(S) = Cardinality(S)
  BY Zenon DEF Pool!Cardinality, Cardinality

\* A lane that may take a unit awaits none: the others await fewer than the limit.
LEMMA RoomForOne ==
  ASSUME FanoutInv, NEW l \in Lane, lane[l] = "ready"
  PROVE  Cardinality(Awaited) < Limit
<1> USE LaneCount, FanoutAssumption
<1> DEFINE f == [u \in Awaited |-> waiter[u]]
<1>1. ASSUME NEW u \in Awaited
      PROVE  u \in Unit /\ waiter[u] \in Lane \ {l} /\ waiter[u] # NULL /\ results[u] = NULL
  BY DEF FanoutInv, TypeOK, LaneAwaits, Awaited
<1>2. f \in [Awaited -> Lane \ {l}]
  BY <1>1
<1>3. ASSUME NEW u \in Awaited, NEW v \in Awaited, f[u] = f[v] PROVE u = v
  BY <1>1, <1>3 DEF FanoutInv, LaneAwaits
<1>4. f \in Injection(Awaited, Lane \ {l})
  BY <1>2, <1>3 DEF Injection, IsInjective
<1>5. IsFiniteSet(Lane \ {l}) /\ Cardinality(Lane \ {l}) = Lanes - 1
  BY FS_RemoveElement
<1>6. IsFiniteSet(Awaited) /\ Cardinality(Awaited) <= Cardinality(Lane \ {l})
  BY <1>4, <1>5, FS_Injection
<1>7. Cardinality(Awaited) \in Nat
  BY <1>6, FS_CardinalityType
<1> QED BY <1>5, <1>6, <1>7

\* A lane that takes a unit is the pool's Take; one that finds none left changes nothing.
LEMMA TakeUnitIsTake ==
  ASSUME FanoutInv, NEW l \in Lane, TakeUnit(l)
  PROVE  Pool!Take \/ UNCHANGED Pool!pvars
<1> USE LaneCount, FanoutAssumption
<1>0. TypeOK /\ LaneAwaits /\ ChildSettles /\ AllTaken
  BY DEF FanoutInv
<1>1. main # "crashed" /\ lane[l] = "ready" /\ UNCHANGED <<results, main>>
  BY DEF TakeUnit
<1>2. CASE cursor < Units
  <2> DEFINE u == cursor + 1
  <2>1. cursor' = u /\ Spawn(l, u) /\ u \in Unit
    BY <1>0, <1>2 DEF TakeUnit, TypeOK, Unit
  <2>2. waiter[u] = NULL /\ results[u] = NULL
    BY <1>0, <2>1 DEF AllTaken, ChildSettles, Abandoned, TypeOK, Unit
  <2>3. Cardinality(Awaited) < Limit
    BY <1>1, RoomForOne
  <2>4. CASE lane' = [lane EXCEPT ![l] = "rejected"] /\ UNCHANGED <<waiter, child, timer>>
    <3>1. lane'[l] = "rejected"
      BY <1>0, <2>4 DEF TypeOK
    <3>2. Broken' = TRUE
      BY <3>1 DEF Broken
    <3>3. Awaited' = Awaited
      BY <1>1, <2>4 DEF Awaited
    <3> QED BY <1>1, <1>2, <2>1, <2>3, <3>2, <3>3, SameCount DEF Pool!Take
  <2>5. CASE /\ lane' = [lane EXCEPT ![l] = "waiting"]
             /\ waiter' = [waiter EXCEPT ![u] = l]
    <3>1. lane'[l] = "waiting" /\ \A k \in Lane \ {l} : lane'[k] = lane[k]
      BY <1>0, <2>5 DEF TypeOK
    <3>2. Broken' <=> Broken
      BY <1>1, <3>1 DEF Broken
    <3>3. Broken' = Broken
      BY <3>2, Zenon DEF Broken
    <3>4. waiter'[u] = l /\ \A v \in Unit \ {u} : waiter'[v] = waiter[v]
      BY <1>0, <2>1, <2>5 DEF TypeOK
    <3>5. \A v : v \in Awaited' <=> v \in Awaited \cup {u}
      BY <1>1, <2>1, <2>2, <3>4 DEF Awaited
    <3>6. Awaited' = Awaited \cup {cursor + 1}
      BY <3>5
    <3> QED BY <1>1, <1>2, <2>1, <2>3, <3>3, <3>6, SameCount DEF Pool!Take
  <2> QED BY <2>1, <2>4, <2>5 DEF Spawn
<1>3. CASE ~(cursor < Units)
  <2>1. lane' = [lane EXCEPT ![l] = "returned"] /\ UNCHANGED <<cursor, waiter>>
    BY <1>3 DEF TakeUnit
  <2>2. lane'[l] = "returned" /\ \A k \in Lane \ {l} : lane'[k] = lane[k]
    BY <1>0, <2>1 DEF TypeOK
  <2>3. Broken' <=> Broken
    BY <1>1, <2>2 DEF Broken
  <2>4. Broken' = Broken
    BY <2>3, Zenon DEF Broken
  <2>5. Awaited' = Awaited
    BY <1>1, <2>1 DEF Awaited
  <2> QED BY <1>1, <2>1, <2>4, <2>5 DEF Pool!pvars
<1> QED BY <1>2, <1>3

\* The first event that settles a unit is its End in the pool; a later one changes nothing.
LEMMA SettleIsEnd ==
  ASSUME FanoutInv, NEW u \in Unit, NEW r \in Result,
         main # "crashed", waiter[u] # NULL,
         Settle(u, r),
         UNCHANGED <<cursor, waiter, main>>
  PROVE  Pool!End(u) \/ UNCHANGED Pool!pvars
<1> USE LaneCount, FanoutAssumption
<1>0. TypeOK /\ LaneAwaits
  BY DEF FanoutInv
<1>1. CASE results[u] # NULL
  <2>1. UNCHANGED <<results, lane>>
    BY <1>1 DEF Settle
  <2>2. Awaited' = Awaited /\ Broken' = Broken
    BY <2>1 DEF Awaited, Broken
  <2> QED BY <2>1, <2>2 DEF Pool!pvars
<1>2. CASE results[u] = NULL
  <2> DEFINE l == waiter[u]
  <2>1. /\ results' = [results EXCEPT ![u] = r] /\ lane' = [lane EXCEPT ![l] = "ready"]
        /\ l \in Lane /\ lane[l] = "waiting"
    BY <1>0, <1>2 DEF Settle, LaneAwaits, TypeOK
  <2>2. lane'[l] = "ready" /\ \A k \in Lane \ {l} : lane'[k] = lane[k]
    BY <1>0, <2>1 DEF TypeOK
  <2>3. Broken' <=> Broken
    BY <2>1, <2>2 DEF Broken
  <2>4. Broken' = Broken
    BY <2>3, Zenon DEF Broken
  <2>5. results'[u] # NULL /\ \A v \in Unit \ {u} : results'[v] = results[v]
    BY <1>0, <2>1 DEF TypeOK, Result
  <2>6. \A v : v \in Awaited' <=> v \in Awaited \ {u}
    BY <2>5 DEF Awaited
  <2>7. Awaited' = Awaited \ {u}
    BY <2>6
  <2>8. u \in Awaited
    BY <1>2 DEF Awaited
  <2> QED BY <2>1, <2>4, <2>7, <2>8 DEF Pool!End
<1> QED BY <1>1, <1>2

\* The events of a unit.
LEMMA EventIsEnd ==
  ASSUME FanoutInv, NEW u \in Unit,
         OnError(u) \/ OnClose(u) \/ (OnTimeout(u) /\ KillFails(u))
  PROVE  Pool!End(u) \/ UNCHANGED Pool!pvars
<1>1. waiter[u] # NULL /\ main # "crashed"
  BY DEF OnError, OnClose, OnTimeout, FanoutInv, ChildSettles, Quiescent
<1>2. CASE OnError(u)
  BY <1>1, <1>2, SettleIsEnd DEF OnError, Result
<1>3. CASE OnClose(u)
  <2>1. Outcome(u) \in Result
    BY <1>3, OutcomeSound DEF OnClose, Result
  <2> QED BY <1>1, <1>3, <2>1, SettleIsEnd DEF OnClose
<1>4. CASE OnTimeout(u) /\ KillFails(u)
  BY <1>1, <1>4, SettleIsEnd DEF OnTimeout, KillFails, Result
<1> QED BY <1>2, <1>3, <1>4

\* Timers and children are the pool's business only through what settles units.
LEMMA BookkeepingHidden ==
  ASSUME UNCHANGED <<cursor, lane, waiter, results, main>>
  PROVE  UNCHANGED Pool!pvars
<1>1. Awaited' = Awaited /\ Broken' = Broken
  BY DEF Awaited, Broken
<1> QED BY <1>1 DEF Pool!pvars

\* The ends of the run are the pool's: every lane has returned when the summary is written,
\* so that every unit was taken, none was lost and none is awaited.
LEMMA MainIsPools ==
  ASSUME FanoutInv, Finish \/ Fail \/ \E u \in Unit : StdinBreaks(u) \/ LogBreaks(u)
  PROVE  Pool!Summarise \/ Pool!GiveUp \/ Pool!Crash
<1> USE LaneCount, FanoutAssumption
<1>0. TypeOK /\ LaneAwaits /\ ChildSettles /\ AllTaken
  BY DEF FanoutInv
<1>1. UNCHANGED <<cursor, Awaited, results, Broken>>
  <2>1. UNCHANGED <<cursor, lane, waiter, results>>
    BY DEF Finish, Fail, StdinBreaks, LogBreaks
  <2> QED BY <2>1 DEF Awaited, Broken
<1>2. CASE Finish
  <2>1. main = "running" /\ main' \in {"done", "failed"} /\ \A l \in Lane : lane[l] = "returned"
    BY <1>2 DEF Finish
  <2>2. 1 \in Lane
    BY DEF Lane
  <2>3. cursor = Units
    BY <1>0, <2>1, <2>2 DEF AllTaken
  <2>4. ~Broken
    BY <2>1 DEF Broken
  <2>5. Awaited = {}
    <3>1. ASSUME NEW u \in Awaited PROVE FALSE
      <4>1. u \in Unit /\ waiter[u] \in Lane /\ lane[waiter[u]] = "waiting"
        BY <1>0 DEF Awaited, LaneAwaits, TypeOK
      <4> QED BY <2>1, <4>1
    <3> QED BY <3>1
  <2> QED BY <1>1, <2>1, <2>3, <2>4, <2>5 DEF Pool!Summarise
<1>3. CASE Fail
  <2>1. main = "running" /\ main' = "failed" /\ Broken
    BY <1>3 DEF Fail, Broken
  <2> QED BY <1>1, <2>1 DEF Pool!GiveUp
<1>4. ASSUME NEW u \in Unit, StdinBreaks(u) \/ LogBreaks(u) PROVE Pool!Crash
  <2>1. main' = "crashed" /\ (child[u] # "none" \/ u <= cursor)
    BY <1>4 DEF StdinBreaks, LogBreaks
  <2>2. u <= cursor
    BY <1>0, <2>1 DEF AllTaken, ChildSettles
  <2>3. cursor > 0
    BY <1>0, <2>2 DEF TypeOK, Unit
  <2> QED BY <1>1, <2>1, <2>3 DEF Pool!Crash
<1> QED BY <1>2, <1>3, <1>4

\* The orchestrator is a WorkPool: units taken once and in order, no more than the limit
\* awaited together, each settled once and for good, and a summary only when nothing is
\* awaited and nothing was lost.
THEOREM FanoutImplementsPool == Spec => ImplementsPool
<1>1. Init => Pool!Init
  <2> SUFFICES ASSUME Init PROVE Pool!Init
    OBVIOUS
  <2>1. Awaited = {}
    BY DEF Init, Awaited
  <2>2. Broken = FALSE
    BY DEF Init, Broken
  <2>3. results = [u \in 1..Units |-> NULL]
    BY DEF Init, Unit
  <2> QED BY <2>1, <2>2, <2>3 DEF Init, Pool!Init
<1>2. FanoutInv /\ [Next]_vars => [Pool!Next]_Pool!pvars
  <2> SUFFICES ASSUME FanoutInv, [Next]_vars PROVE Pool!Next \/ UNCHANGED Pool!pvars
    BY Zenon
  <2>1. ASSUME NEW l \in Lane, TakeUnit(l) PROVE Pool!Next \/ UNCHANGED Pool!pvars
    BY <2>1, TakeUnitIsTake DEF Pool!Next
  <2>2. ASSUME NEW u \in Unit, (OnTimeout(u) /\ Kill(u)) \/ Exit(u) \/ StreamsClose(u)
        PROVE  UNCHANGED Pool!pvars
    <3>1. UNCHANGED <<cursor, lane, waiter, results, main>>
      BY <2>2 DEF OnTimeout, Kill, Exit, StreamsClose
    <3> QED BY <3>1, BookkeepingHidden
  <2>3. ASSUME NEW u \in Unit, OnError(u) \/ OnClose(u) \/ (OnTimeout(u) /\ KillFails(u))
        PROVE  Pool!Next \/ UNCHANGED Pool!pvars
    <3>1. u \in 1..Units
      BY DEF Unit
    <3> QED BY <2>3, <3>1, EventIsEnd DEF Pool!Next
  <2>4. CASE Finish \/ Fail \/ \E u \in Unit : StdinBreaks(u) \/ LogBreaks(u)
    BY <2>4, MainIsPools DEF Pool!Next
  <2>5. CASE UNCHANGED vars
    <3>1. UNCHANGED <<cursor, lane, waiter, results, main>>
      BY <2>5 DEF vars
    <3> QED BY <3>1, BookkeepingHidden
  <2>6. ASSUME NEW u \in Unit, OnTimeout(u) PROVE Kill(u) \/ KillFails(u)
    BY <2>6 DEF OnTimeout
  <2>7. CASE Next
    BY <2>1, <2>2, <2>3, <2>4, <2>6, <2>7 DEF Next, Orchestrate
  <2> QED BY <2>5, <2>7
<1> QED BY <1>1, <1>2, FanoutInvariant, PTL DEF Spec, ImplementsPool, Pool!Spec

=============================================================================
