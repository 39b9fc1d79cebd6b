------------------------ MODULE ThreadCounterProofs ------------------------
(***************************************************************************)
(* Proofs about ThreadCounter, as MCThreadCounters runs it, for every      *)
(* number of threads and increments: however the unsynchronized loads and  *)
(* stores interleave, and however many increments a build keeps in a       *)
(* register, the counter never runs ahead of the increments made, and two  *)
(* increments survive.                                                     *)
(***************************************************************************)
EXTENDS MCThreadCounters, FiniteSetTheorems, TLAPS

\* A step of either program is a step of thread_counter.c or none.
LEMMA RaceStep == [MCNext]_allVars => Race!Next \/ UNCHANGED raceVars
  BY DEF MCNext, MutexRuns, RaceRuns, allVars

-----------------------------------------------------------------------------
(***************************************************************************)
(* The counter is never ahead.                                             *)
(***************************************************************************)
\* NeverAhead counts as the standard module does.
LEMMA SameCardinality == \A S : Race!Cardinality(S) = Cardinality(S)
  BY DEF Race!Cardinality, Cardinality

\* Neither the counter nor a register ever holds more than has been made.
AheadInv ==
    /\ rc \in Nat /\ rreg \in [Race!Slot -> Nat] /\ rn \in [Race!Slot -> 0..COUNT]
    /\ Race!NeverAhead
    /\ \A t \in Race!Slot : rreg[t] <= Cardinality(Race!Made)

\* The increments made are a finite set.
LEMMA MadeFinite == IsFiniteSet(Race!Made) /\ Cardinality(Race!Made) \in Nat
<1>1. IsFiniteSet(Race!Slot) /\ IsFiniteSet(0 .. COUNT - 1)
  BY CounterAssumption, FS_Interval DEF Race!Slot
<1>2. IsFiniteSet(Race!Slot \X (0 .. COUNT - 1))
  BY <1>1, FS_Product
<1> QED
  BY <1>2, FS_Subset, FS_CardinalityType DEF Race!Made

\* A store of k increments makes k more.
LEMMA StoreMakes ==
    ASSUME rn \in [Race!Slot -> 0..COUNT], NEW t \in Race!Slot, NEW k \in 1..COUNT,
           rn[t] + k <= COUNT, rn' = [rn EXCEPT ![t] = @ + k]
    PROVE  Cardinality(Race!Made') = Cardinality(Race!Made) + k
<1> DEFINE new == {t} \X (rn[t] .. rn[t] + k - 1)
<1>1. Race!Made' = Race!Made \cup new
  BY CounterAssumption DEF Race!Made, Race!Slot
<1>2. Race!Made \cap new = {}
  BY CounterAssumption DEF Race!Made, Race!Slot
<1>3. IsFiniteSet(new) /\ Cardinality(new) = k
  <2>1. rn[t] \in Int /\ rn[t] + k - 1 \in Int /\ rn[t] <= rn[t] + k - 1
    BY CounterAssumption
  <2>2. IsFiniteSet(rn[t] .. rn[t] + k - 1) /\ Cardinality(rn[t] .. rn[t] + k - 1) = k
    BY <2>1, FS_Interval
  <2>3. IsFiniteSet({t}) /\ Cardinality({t}) = 1
    BY FS_Singleton
  <2>4. IsFiniteSet(new) /\ Cardinality(new) = 1 * k
    BY <2>2, <2>3, FS_Product
  <2> QED
    BY <2>4
<1>4. Cardinality(Race!Made \cup new)
        = Cardinality(Race!Made) + Cardinality(new) - Cardinality(Race!Made \cap new)
  <2> HIDE DEF new
  <2> QED
    BY <1>3, MadeFinite, FS_Union
<1>5. Cardinality(Race!Made \cap new) = 0
  BY <1>2, FS_EmptySet
<1> HIDE DEF new
<1> QED
  BY <1>1, <1>3, <1>4, <1>5, MadeFinite, CounterAssumption

\* AheadInv holds at the start.
LEMMA InitAhead == ASSUME Race!Init PROVE AheadInv
<1>1. rc = 0 /\ rreg = [t \in Race!Slot |-> 0] /\ rn = [t \in Race!Slot |-> 0]
  BY DEF Race!Init, Race!MainInit
<1>2. rn \in [Race!Slot -> 0..COUNT]
  BY <1>1, CounterAssumption
<1> QED
  BY <1>1, <1>2, MadeFinite, SameCardinality DEF AheadInv, Race!NeverAhead

\* Every step keeps AheadInv.
LEMMA NextAhead == ASSUME AheadInv, Race!Next \/ UNCHANGED raceVars PROVE AheadInv'
<1> USE MadeFinite, SameCardinality DEF AheadInv, Race!NeverAhead
<1>1. ASSUME Race!MainStep \/ UNCHANGED raceVars PROVE AheadInv'
  <2>1. rc' = rc /\ rreg' = rreg /\ rn' = rn
    BY <1>1 DEF Race!MainStep, Race!Create, Race!BeginJoin, Race!Join, Race!Report, raceVars
  <2> QED
    BY <2>1 DEF Race!Made
<1>2. ASSUME NEW t \in Race!Slot, Race!Load(t) PROVE AheadInv'
  <2>1. rc' = rc /\ rn' = rn /\ rreg' = [rreg EXCEPT ![t] = rc]
    BY <1>2 DEF Race!Load
  <2>2. Race!Made' = Race!Made
    BY <2>1 DEF Race!Made
  <2> QED
    BY <2>1, <2>2
<1>3. ASSUME NEW t \in Race!Slot, NEW k \in 1..COUNT, Race!Store(t, k) PROVE AheadInv'
  <2>1. /\ rn[t] + k <= COUNT /\ rn' = [rn EXCEPT ![t] = @ + k]
        /\ rc' = rreg[t] + k /\ rreg' = [rreg EXCEPT ![t] = @ + k]
    BY <1>3 DEF Race!Store
  <2>2. Cardinality(Race!Made') = Cardinality(Race!Made) + k
    BY <2>1, StoreMakes
  <2>3. rc' \in Nat /\ rreg' \in [Race!Slot -> Nat] /\ rn' \in [Race!Slot -> 0..COUNT]
    BY <2>1, CounterAssumption
  <2>4. rc' <= Cardinality(Race!Made')
    BY <2>1, <2>2, CounterAssumption
  <2>5. \A u \in Race!Slot : rreg'[u] <= Cardinality(Race!Made')
    BY <2>1, <2>2, CounterAssumption
  <2> QED
    BY <2>3, <2>4, <2>5
<1>4. ASSUME NEW t \in Race!Slot, Race!Return(t) PROVE AheadInv'
  BY <1>4 DEF Race!Return, Race!Made
<1> QED
  BY <1>1, <1>2, <1>3, <1>4 DEF Race!Next, Race!ThreadStep

\* The counter of thread_counter.c never exceeds the increments made, for any
\* number of threads and any length of their loops.
THEOREM NeverAheadAlways == MCSpec => []NeverAhead
<1>1. MCInit => AheadInv
  BY InitAhead DEF MCInit
<1>2. AheadInv /\ [MCNext]_allVars => AheadInv'
  BY NextAhead, RaceStep
<1>3. AheadInv => NeverAhead
  BY DEF AheadInv, NeverAhead
<1> QED
  BY <1>1, <1>2, <1>3, PTL DEF MCSpec

-----------------------------------------------------------------------------
(***************************************************************************)
(* Two increments survive.                                                 *)
(***************************************************************************)
\* What main knows of its threads: those it has joined have ended, and a thread
\* that has ended has made all its increments.
JoinInv ==
    /\ rmain \in {"create", "join", "done", "crashed"}
    /\ ri \in 0..TH_N /\ rcreated \subseteq Race!Slot
    /\ rpc \in [Race!Slot -> {"none", "loop", "store", "exited"}]
    /\ \A t \in Race!Slot :
          /\ t \notin rcreated => rpc[t] = "none"
          /\ rpc[t] = "none" => rn[t] = 0
          /\ rpc[t] = "exited" => rn[t] = COUNT
    /\ rmain \in {"join", "done"} => \A t \in rcreated : t < ri => rpc[t] = "exited"
    /\ rmain = "done" => ri = TH_N /\ rprinted = rc

\* Once an increment is stored the counter is never zero again, so that the
\* second store of a thread makes it two; when it is one, the thread that
\* wrote it was at its first increment.
OneInv ==
    /\ rc \in Nat /\ rreg \in [Race!Slot -> Nat] /\ rn \in [Race!Slot -> 0..COUNT]
    /\ \A t \in Race!Slot : rn[t] > 0 => rreg[t] > 0 /\ rc > 0
    /\ rc = 1 => \E t \in Race!Slot : rn[t] = 1

SurviveInv == JoinInv /\ OneInv

\* SurviveInv holds at the start.
LEMMA InitSurvive == ASSUME Race!Init PROVE SurviveInv
<1>1. /\ rmain = "create" /\ ri = 0 /\ rcreated = {} /\ rc = 0
      /\ rpc = [t \in Race!Slot |-> "none"]
      /\ rreg = [t \in Race!Slot |-> 0] /\ rn = [t \in Race!Slot |-> 0]
  BY DEF Race!Init, Race!MainInit
<1>2. JoinInv
  BY <1>1, CounterAssumption DEF JoinInv
<1>3. OneInv
  BY <1>1, CounterAssumption DEF OneInv
<1> QED
  BY <1>2, <1>3 DEF SurviveInv

\* Every step keeps SurviveInv.
LEMMA NextSurvive == ASSUME SurviveInv, Race!Next \/ UNCHANGED raceVars PROVE SurviveInv'
<1> USE CounterAssumption DEF SurviveInv
<1>1. ASSUME Race!MainStep
      PROVE  SurviveInv'
  <2>1. rc' = rc /\ rreg' = rreg /\ rn' = rn
    BY <1>1 DEF Race!MainStep, Race!Create, Race!BeginJoin, Race!Join, Race!Report
  <2>2. OneInv'
    BY <2>1 DEF OneInv
  <2>3. CASE Race!Create("loop")
    <3>1. JoinInv'
      <4>1. ri \in Race!Slot /\ ri' \in 0..TH_N /\ UNCHANGED <<rmain, rprinted>> /\ rmain = "create"
        BY <2>3 DEF JoinInv, Race!Create, Race!Slot
      <4>2. \/ rcreated' = rcreated \cup {ri} /\ rpc' = [rpc EXCEPT ![ri] = "loop"]
            \/ UNCHANGED <<rcreated, rpc>>
        BY <2>3 DEF Race!Create
      <4> QED
        BY <2>1, <4>1, <4>2 DEF JoinInv
    <3> QED
      BY <2>2, <3>1
  <2>4. CASE Race!BeginJoin
    <3>1. \A t \in rcreated : ~(t < 0)
      BY DEF JoinInv, Race!Slot
    <3>2. JoinInv'
      BY <2>1, <2>4, <3>1 DEF JoinInv, Race!BeginJoin
    <3> QED
      BY <2>2, <3>2
  <2>5. CASE Race!Report
    <3>1. JoinInv'
      BY <2>1, <2>5 DEF JoinInv, Race!Report
    <3> QED
      BY <2>2, <3>1
  <2>6. CASE Race!Join
    <3>1. JoinInv'
      BY <2>1, <2>6 DEF JoinInv, Race!Join, Race!Slot
    <3> QED
      BY <2>2, <3>1
  <2> QED
    BY <1>1, <2>3, <2>4, <2>5, <2>6 DEF Race!MainStep
<1>2. ASSUME NEW t \in Race!Slot, Race!Load(t), rmain # "crashed"
      PROVE  SurviveInv'
  <2>1. /\ UNCHANGED <<rmain, ri, rcreated, rprinted, rc, rn>> /\ rreg' = [rreg EXCEPT ![t] = rc]
        /\ rpc[t] = "loop" /\ rpc' = [rpc EXCEPT ![t] = "store"]
    BY <1>2 DEF Race!Load, Race!mainVars
  <2>2. OneInv'
    BY <2>1 DEF OneInv
  <2>3. JoinInv'
    BY <2>1 DEF JoinInv
  <2> QED
    BY <2>2, <2>3
<1>3. ASSUME NEW t \in Race!Slot, NEW k \in 1..COUNT, Race!Store(t, k), rmain # "crashed"
      PROVE  SurviveInv'
  <2>1. /\ UNCHANGED <<rmain, ri, rcreated, rprinted>>
        /\ rn[t] + k <= COUNT /\ rn' = [rn EXCEPT ![t] = rn[t] + k]
        /\ rc' = rreg[t] + k /\ rreg' = [rreg EXCEPT ![t] = rreg[t] + k]
        /\ rpc[t] = "store" /\ rpc' \in {rpc, [rpc EXCEPT ![t] = "loop"]}
    BY <1>3 DEF Race!Store, Race!mainVars
  <2>2. OneInv'
    <3>1. /\ rc' \in Nat /\ rc' > 0
          /\ rreg' \in [Race!Slot -> Nat] /\ rn' \in [Race!Slot -> 0..COUNT]
          /\ \A u \in Race!Slot : rn'[u] > 0 => rreg'[u] > 0
      BY <2>1 DEF OneInv
    <3>2. rc' = 1 => rn'[t] = 1
      BY <2>1 DEF OneInv
    <3> QED
      BY <3>1, <3>2 DEF OneInv
  <2>3. JoinInv'
    <3>1. rmain # "done"
      BY <2>1 DEF JoinInv, Race!Slot
    <3> QED
      BY <2>1, <3>1 DEF JoinInv, OneInv
  <2> QED
    BY <2>2, <2>3
<1>4. ASSUME NEW t \in Race!Slot, Race!Return(t), rmain # "crashed"
      PROVE  SurviveInv'
  <2>1. /\ UNCHANGED <<rmain, ri, rcreated, rprinted, rc, rreg, rn>>
        /\ rpc[t] = "loop" /\ rn[t] = COUNT /\ rpc' = [rpc EXCEPT ![t] = "exited"]
    BY <1>4 DEF Race!Return, Race!mainVars
  <2>2. OneInv'
    BY <2>1 DEF OneInv
  <2>3. JoinInv'
    BY <2>1 DEF JoinInv
  <2> QED
    BY <2>2, <2>3
<1>5. ASSUME UNCHANGED raceVars
      PROVE  SurviveInv'
  BY <1>5 DEF raceVars, JoinInv, OneInv
<1> QED
  BY <1>1, <1>2, <1>3, <1>4, <1>5 DEF Race!Next, Race!ThreadStep

\* At the end every thread has made all its increments, so that none of them is
\* at its first when it had a second to make.
LEMMA EndSurvive == ASSUME SurviveInv PROVE SomeSurvive
<1> SUFFICES ASSUME rmain = "done", rcreated # {}
             PROVE  rprinted >= (IF COUNT < 2 THEN COUNT ELSE 2)
  BY DEF SomeSurvive, Race!SomeSurvive
<1>1. \A t \in rcreated : rn[t] = COUNT
  BY CounterAssumption DEF SurviveInv, JoinInv, Race!Slot
<1>2. \A t \in Race!Slot : rn[t] \in {0, COUNT}
  BY <1>1 DEF SurviveInv, JoinInv
<1>3. PICK u \in rcreated : rn[u] = COUNT
  BY <1>1
<1>4. rprinted = rc /\ rc \in Nat /\ u \in Race!Slot
  BY <1>3 DEF SurviveInv, JoinInv, OneInv
<1>5. COUNT > 0 => rc > 0
  BY <1>3, <1>4, CounterAssumption DEF SurviveInv, OneInv
<1>6. rc = 1 => COUNT = 1
  BY <1>2 DEF SurviveInv, OneInv
<1> QED
  BY <1>4, <1>5, <1>6, CounterAssumption

\* At least two increments survive when a thread that was created made two, for
\* any number of threads and any length of their loops.
THEOREM SomeSurviveAlways == MCSpec => []SomeSurvive
<1>1. MCInit => SurviveInv
  BY InitSurvive DEF MCInit
<1>2. SurviveInv /\ [MCNext]_allVars => SurviveInv'
  BY NextSurvive, RaceStep
<1>3. SurviveInv => SomeSurvive
  BY EndSurvive
<1> QED
  BY <1>1, <1>2, <1>3, PTL DEF MCSpec
=============================================================================
