------------------------- MODULE DrainManagerProofs -------------------------
(***************************************************************************)
(* The drain protocol reaches none of its panics, for every finite set of  *)
(* objects.  The counter equals the number of draining objects at every    *)
(* step; that a script gets control back only with a zero counter needs to *)
(* know, besides, what the objects are in while the manager is Running.    *)
(***************************************************************************)
EXTENDS DrainManager, TLAPS, FiniteSetTheorems

\* The manager's state tells the objects' states outside of a drain cycle, and
\* the script has control whenever the system is drained, with no exit pending.
Phases ==
  /\ state = "Running" => \A o \in Objects : drainState[o] = "Running"
  /\ state = "Drained" => script = "user"
  /\ script = "user" => ~exitEvent

\* The inductive invariant.
Ind == TypeOK /\ CountsDraining /\ NoPanic /\ Phases

\* The draining objects are finitely many, and none when the counter is zero.
LEMMA DrainingFinite ==
  ASSUME NEW ds
  PROVE  /\ IsFiniteSet(DrainingIn(ds))
         /\ Cardinality(DrainingIn(ds)) \in Nat
         /\ Cardinality(DrainingIn(ds)) = 0 <=> DrainingIn(ds) = {}
<1>1. DrainingIn(ds) \subseteq Objects
  BY Zenon DEF DrainingIn
<1>2. IsFiniteSet(DrainingIn(ds))
  BY <1>1, FS_Subset, ObjectsAssumption, Zenon
<1> QED
  BY <1>2, FS_CardinalityType, FS_EmptySet, Zenon

\* Objects that signal leave the set of draining objects one by one: the counter
\* goes down by as many as signalled (signalDrainDone, drain.cc:118-125).
LEMMA SignalsSubtract ==
  ASSUME NEW ds, NEW es, DrainingIn(es) \subseteq DrainingIn(ds)
  PROVE  Cardinality(DrainingIn(ds)) - Cardinality(DrainingIn(ds) \ DrainingIn(es))
           = Cardinality(DrainingIn(es))
<1> DEFINE D == DrainingIn(ds)
           E == DrainingIn(es)
<1>1. IsFiniteSet(D) /\ IsFiniteSet(E)
  BY DrainingFinite, Zenon
<1>2. /\ Cardinality(D \ E) = Cardinality(D) - Cardinality(D \cap E)
      /\ D \cap E = E
  BY <1>1, FS_Difference, Zenon
<1>3. Cardinality(D) \in Nat /\ Cardinality(E) \in Nat
  BY DrainingFinite, Zenon
<1> QED
  BY <1>2, <1>3

LEMMA IndInit == Init => Ind
<1> SUFFICES ASSUME Init PROVE Ind
  OBVIOUS
<1>1. DrainingIn(drainState) = {}
  BY DEF Init, DrainingIn
<1>2. Cardinality(DrainingIn(drainState)) = 0
  BY <1>1, DrainingFinite
<1> QED
  BY <1>2, Zenon DEF Init, Ind, TypeOK, CountsDraining, NoPanic, Phases, DrainStates

LEMMA IndTryDrain == Ind /\ tryDrain => Ind'
<1> SUFFICES ASSUME Ind, tryDrain PROVE Ind'
  OBVIOUS
<1>1. count = 0
  BY Zenon DEF Ind, NoPanic, tryDrain
<1>2. count' = Cardinality(DrainingIn(drainState')) /\ count' \in Nat
  BY <1>1, DrainingFinite DEF tryDrain
<1>3. TypeOK'
  BY <1>2 DEF Ind, TypeOK, tryDrain, DrainStates
<1>4. CASE count' = 0
  <2>1. DrainingIn(drainState') = {}
    BY <1>2, <1>4, DrainingFinite, Zenon
  <2>2. \A o \in Objects : drainState'[o] = "Drained"
    BY <2>1 DEF tryDrain, DrainingIn
  <2> QED
    BY <1>2, <1>3, <1>4, <2>2, Zenon
    DEF Ind, CountsDraining, NoPanic, Phases, tryDrain, DrainingIn
<1>5. CASE count' # 0
  BY <1>2, <1>3, <1>5, Zenon DEF Ind, CountsDraining, NoPanic, Phases, tryDrain, DrainingIn
<1> QED
  BY <1>4, <1>5

\* Only draining objects change, and the ones that do have drained.  While the
\* manager is Running no object is draining, so that nothing can signal.
LEMMA IndSignal == Ind /\ signalDrainDone => Ind'
<1> SUFFICES ASSUME Ind, signalDrainDone PROVE Ind'
  BY Zenon
<1>1. DrainingIn(drainState') \subseteq DrainingIn(drainState)
  BY Zenon DEF signalDrainDone, DrainingIn
<1>2. count' = Cardinality(DrainingIn(drainState')) /\ count' \in Nat
  BY <1>1, SignalsSubtract, DrainingFinite DEF signalDrainDone, Ind, CountsDraining
<1>3. exitEvent' \in BOOLEAN /\ (exitEvent' => count' = 0)
  <2>1. exitEvent => count' = 0
    <3> SUFFICES ASSUME exitEvent PROVE count' = 0
      OBVIOUS
    <3>1. DrainingIn(drainState) = {}
      BY DrainingFinite DEF Ind, CountsDraining
    <3> QED
      BY <1>1, <1>2, <3>1, DrainingFinite, Zenon
  <2> QED
    BY <2>1, Zenon DEF signalDrainDone
<1>4. PICK o \in Objects : drainState[o] = "Draining"
  BY DEF signalDrainDone, Ind, TypeOK
<1>5. state # "Running" /\ state # "Drained"
  BY <1>4, Zenon DEF Ind, Phases, NoPanic
<1>6. TypeOK'
  BY <1>2, <1>3, Zenon DEF signalDrainDone, Ind, TypeOK
<1> QED
  BY <1>2, <1>3, <1>5, <1>6, Zenon
  DEF signalDrainDone, Ind, CountsDraining, NoPanic, Phases, DrainingIn

\* The loop is left with a zero counter: an exit event is only scheduled when the
\* last object signals, and a Running system has no draining object.
LEMMA IndExit == Ind /\ exitSimLoop => Ind'
<1> SUFFICES ASSUME Ind, exitSimLoop PROVE Ind'
  BY Zenon
<1>1. count = 0
  <2>1. CASE state = "Running"
    <3>1. DrainingIn(drainState) = {}
      BY <2>1, Zenon DEF Ind, Phases, DrainingIn
    <3> QED
      BY <3>1, DrainingFinite, Zenon DEF Ind, CountsDraining
  <2>2. CASE exitEvent
    BY <2>2, Zenon DEF Ind, CountsDraining
  <2> QED
    BY <2>1, <2>2, Zenon DEF exitSimLoop
<1> QED
  BY <1>1, Zenon DEF exitSimLoop, Ind, TypeOK, CountsDraining, NoPanic, Phases, DrainingIn

LEMMA IndSimulate == Ind /\ simulate => Ind'
<1> SUFFICES ASSUME Ind, simulate PROVE Ind'
  BY Zenon
<1>1. count = 0 /\ ~exitEvent
  BY Zenon DEF Ind, NoPanic, Phases, simulate
<1>2. \A o \in Objects : drainState'[o] = "Running"
  BY Zenon DEF Ind, Phases, TypeOK, DrainStates, simulate
<1>3. DrainingIn(drainState') = {}
  BY <1>2, Zenon DEF DrainingIn
<1>4. count' = Cardinality(DrainingIn(drainState'))
  BY <1>1, <1>3, DrainingFinite, Zenon DEF simulate
<1>5. TypeOK'
  BY Zenon DEF simulate, Ind, TypeOK, DrainStates
<1> QED
  BY <1>1, <1>2, <1>4, <1>5, Zenon DEF simulate, Ind, CountsDraining, NoPanic, Phases, DrainingIn

\* Every step of the drain protocol preserves the inductive invariant.
THEOREM DrainInvariant == Spec => []Ind
<1>1. Init => Ind
  BY IndInit, Zenon
<1>2. Ind /\ [Next]_vars => Ind'
  <2> SUFFICES ASSUME Ind, [Next]_vars PROVE Ind'
    BY Zenon
  <2>1. CASE UNCHANGED vars
    BY <2>1, Zenon DEF vars, Ind, TypeOK, CountsDraining, NoPanic, Phases, DrainingIn
  <2> QED
    BY <2>1, IndTryDrain, IndSignal, IndExit, IndSimulate, Zenon DEF Next
<1> QED
  BY <1>1, <1>2, PTL DEF Spec

\* The manager never panics: the counter is zero whenever a cycle starts or the
\* system resumes, and all objects resumed have drained (drain.cc:65, 94, 177).
THEOREM DrainNeverPanics == Spec => []NoPanic
<1>1. Ind => NoPanic
  BY Zenon DEF Ind
<1> QED
  BY <1>1, DrainInvariant, PTL

\* The counter is the number of objects that still have to signal: signalDrainDone
\* never takes it below zero and never ends a cycle early (drain.cc:118-125).
THEOREM DrainCounts == Spec => []CountsDraining
<1>1. Ind => CountsDraining
  BY Zenon DEF Ind
<1> QED
  BY <1>1, DrainInvariant, PTL

=============================================================================
