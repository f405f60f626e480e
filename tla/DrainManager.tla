---------------------------- MODULE DrainManager ----------------------------
(***************************************************************************)
(* How the simulator brings all of its objects to rest before it takes a   *)
(* checkpoint or changes the memory mode (gem5/src/sim/drain.cc, drain.hh, *)
(* python/m5/simulate.py).  What an object does while it drains is left    *)
(* open: it says whether it is drained when it is asked, and one that is   *)
(* not signals later.  An object that has drained may be disturbed by the  *)
(* others without its state showing it, so the script asks again until all *)
(* objects are drained at the first asking.                                *)
(***************************************************************************)
EXTENDS Naturals, FiniteSets

CONSTANT Objects       \* _allDrainable

ASSUME ObjectsAssumption == IsFiniteSet(Objects)

VARIABLES
  drainState,          \* _drainState of each object
  state,               \* _state of the manager
  count,               \* _count
  exitEvent,           \* exitSimLoop("Finished drain") is scheduled
  script               \* "user": the script runs; "simulate": the event loop does

vars == <<drainState, state, count, exitEvent, script>>

DrainStates == {"Running", "Draining", "Drained"}

Init ==
  /\ drainState = [o \in Objects |-> "Running"]
  /\ state = "Running" /\ count = 0
  /\ exitEvent = FALSE
  /\ script = "user"

DrainingIn(ds) == {o \in Objects : ds[o] = "Draining"}

\* drain() in the script: tryDrain asks every object whether it is drained.  If
\* some are not, the script simulates until the last of them has signalled.
tryDrain ==
  /\ script = "user" /\ state # "Drained"
  /\ drainState' \in [Objects -> {"Draining", "Drained"}]
  /\ count' = count + Cardinality(DrainingIn(drainState'))
  /\ state' = IF count' = 0 THEN "Drained" ELSE "Draining"
  /\ script' = IF count' = 0 THEN "user" ELSE "simulate"
  /\ UNCHANGED exitEvent

\* An object whose queue runs empty signals; the call does nothing unless the
\* object is draining.  One event may empty the queues of several objects.
signalDrainDone ==
  /\ script = "simulate"
  /\ drainState' \in [Objects -> DrainStates]
  /\ \A o \in Objects : drainState'[o] # drainState[o] =>
       drainState[o] = "Draining" /\ drainState'[o] = "Drained"
  /\ drainState' # drainState
  /\ count' = count - Cardinality(DrainingIn(drainState) \ DrainingIn(drainState'))
  /\ exitEvent' = (exitEvent \/ count' = 0)
  /\ UNCHANGED <<state, script>>

\* The event loop returns to the script: the drain cycle is over, or a limit
\* that the script gave is reached.
exitSimLoop ==
  /\ script = "simulate"
  /\ state = "Running" \/ exitEvent
  /\ script' = "user" /\ exitEvent' = FALSE
  /\ UNCHANGED <<drainState, state, count>>

\* simulate() in the script resumes a drained system first.  The script does not
\* call it while a drain cycle is being repeated.
simulate ==
  /\ script = "user" /\ state # "Draining"
  /\ script' = "simulate"
  /\ state' = "Running"
  /\ drainState' = IF state = "Drained" THEN [o \in Objects |-> "Running"]
                                        ELSE drainState
  /\ UNCHANGED <<count, exitEvent>>

Next ==
  \/ tryDrain
  \/ signalDrainDone
  \/ exitSimLoop
  \/ simulate

Spec == Init /\ [][Next]_vars

----------------------------------------------------------------------------
(* Properties *)

TypeOK ==
  /\ drainState \in [Objects -> DrainStates]
  /\ state \in DrainStates
  /\ count \in Nat
  /\ exitEvent \in BOOLEAN
  /\ script \in {"user", "simulate"}

\* None of the panics of the manager is ever reached: the counter is zero when a
\* drain cycle starts and when the system resumes (drain.cc:65, 94), and every
\* object that is resumed has drained (drain.cc:177).
NoPanic ==
  /\ script = "user" => count = 0
  /\ state = "Drained" => \A o \in Objects : drainState[o] = "Drained"

\* The counter counts the objects that still have to signal, so that it never
\* wraps below zero, and the loop is left only when there is none (drain.cc:121).
CountsDraining ==
  /\ count = Cardinality(DrainingIn(drainState))
  /\ exitEvent => count = 0

=============================================================================
