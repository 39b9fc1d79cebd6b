---------------------- MODULE ThreadCounterMutexProofs ----------------------
(***************************************************************************)
(* Proofs about ThreadCounterMutex for every number of threads and of      *)
(* increments: the mutex excludes, no increment is lost, the printed value *)
(* is exact, and the program implements AtomicCounter.                     *)
(***************************************************************************)
EXTENDS ThreadCounterMutex, FiniteSetTheorems, TLAPS

\* The slots and the numbers of increments are finite sets of integers.
LEMMA SlotFacts ==
    /\ IsFiniteSet(Slot) /\ Slot \subseteq Int /\ Unlocked \notin Slot
    /\ IsFiniteSet(0 .. COUNT - 1) /\ Cardinality(0 .. COUNT - 1) = COUNT
BY CounterAssumption, FS_Interval DEF Slot, Unlocked

\* The stored increments are a finite set.
LEMMA StoredFinite == IsFiniteSet(Stored)
<1>1. IsFiniteSet(Slot \X (0 .. COUNT - 1))
  BY SlotFacts, FS_Product
<1> QED
  BY <1>1, FS_Subset DEF Stored

\* The invariant holds at the start.
LEMMA InitIInv == ASSUME Init PROVE IInv
<1>1. TypeOK
  BY CounterAssumption DEF Init, MainInit, TypeOK, MainTypeOK, NotPrinted
<1>2. HolderOK
  BY SlotFacts DEF Init, MainInit, HolderOK, Critical
<1>3. MainOK
  BY DEF Init, MainInit, MainOK
<1>4. Stored = {}
  BY CounterAssumption DEF Init, MainInit, Stored
<1>5. CounterExact
  BY <1>4, FS_EmptySet DEF Init, MainInit, CounterExact
<1> QED
  BY <1>1, <1>2, <1>3, <1>5 DEF IInv

\* A step that leaves the counter and the progress of the threads alone.
LEMMA SameStored ==
    ASSUME c' = c, n' = n, CounterExact,
           \A t \in Slot : pc'[t] = "unlock" <=> pc[t] = "unlock"
    PROVE  CounterExact'
<1>1. Stored' = Stored
  BY DEF Stored
<1> QED
  BY <1>1 DEF CounterExact

\* The steps of main.
LEMMA MainKeeps == ASSUME IInv, MainStep PROVE IInv'
<1> USE DEF IInv, mainVars
<1>1. CASE Create("loop")
  <2>1. /\ i \in Slot /\ i' = i + 1 /\ i' \in 0..TH_N /\ main = "create"
        /\ UNCHANGED <<main, c, printed, mut, reg, n>>
    BY <1>1, CounterAssumption DEF Create, MainStep, TypeOK, MainTypeOK, Slot
  <2>2. i \notin created /\ pc[i] = "none" /\ \A t \in created : t \in Int /\ t < i'
    BY <2>1, SlotFacts DEF TypeOK, MainTypeOK, MainOK
  <2>3. CASE created' = created \cup {i} /\ pc' = [pc EXCEPT ![i] = "loop"]
    <3>1. TypeOK'
      BY <2>1, <2>3 DEF TypeOK, MainTypeOK
    <3>2. HolderOK'
      BY <2>1, <2>2, <2>3 DEF TypeOK, HolderOK, Critical
    <3>3. MainOK'
      BY <2>1, <2>2, <2>3, SlotFacts DEF TypeOK, MainTypeOK, MainOK
    <3>4. CounterExact'
      BY <2>1, <2>2, <2>3, SameStored DEF TypeOK
    <3> QED
      BY <3>1, <3>2, <3>3, <3>4
  <2>4. CASE created' = created /\ pc' = pc
    <3>1. TypeOK' /\ HolderOK' /\ MainOK'
      BY <2>1, <2>2, <2>4 DEF TypeOK, MainTypeOK, HolderOK, Critical, MainOK
    <3>2. CounterExact'
      BY <2>1, <2>4, SameStored
    <3> QED
      BY <3>1, <3>2
  <2> QED
    BY <1>1, <2>3, <2>4 DEF Create
<1>2. CASE BeginJoin
  <2>1. TypeOK' /\ HolderOK'
    BY <1>2, CounterAssumption DEF BeginJoin, MainStep, TypeOK, MainTypeOK, HolderOK, Critical
  <2>2. MainOK'
    BY <1>2, SlotFacts, CounterAssumption DEF BeginJoin, MainStep, TypeOK, MainTypeOK, MainOK, Slot
  <2>3. CounterExact'
    BY <1>2, SameStored DEF BeginJoin, MainStep
  <2> QED
    BY <2>1, <2>2, <2>3
<1>3. CASE Join
  <2>1. TypeOK' /\ HolderOK'
    BY <1>3, CounterAssumption DEF Join, MainStep, TypeOK, MainTypeOK, HolderOK, Critical
  <2>2. MainOK'
    BY <1>3, SlotFacts, CounterAssumption DEF Join, MainStep, TypeOK, MainTypeOK, MainOK, Slot
  <2>3. CounterExact'
    BY <1>3, SameStored DEF Join, MainStep
  <2> QED
    BY <2>1, <2>2, <2>3
<1>4. CASE Report
  <2>1. TypeOK' /\ HolderOK'
    BY <1>4, CounterAssumption DEF Report, MainStep, TypeOK, MainTypeOK, HolderOK, Critical
  <2>2. MainOK'
    BY <1>4, CounterAssumption
    DEF Report, MainStep, TypeOK, MainTypeOK, MainOK, Slot, NotPrinted
  <2>3. CounterExact'
    BY <1>4, SameStored DEF Report, MainStep
  <2> QED
    BY <2>1, <2>2, <2>3
<1> QED
  BY <1>1, <1>2, <1>3, <1>4 DEF MainStep

\* The steps of a thread.
LEMMA ThreadKeeps == ASSUME IInv, NEW t \in Slot, ThreadStep(t) PROVE IInv'
<1> USE DEF IInv, mainVars, Goto
<1>1. /\ pc \in [Slot -> {"none", "loop", "load", "store", "unlock", "exited"}]
      /\ n \in [Slot -> 0..COUNT] /\ reg \in [Slot -> Nat] /\ c \in Nat
      /\ main # "crashed"
  BY DEF TypeOK, MainTypeOK, ThreadStep
<1>2. CASE Lock(t)
  <2>1. TypeOK'
    BY <1>2 DEF Lock, TypeOK, MainTypeOK
  <2>2. HolderOK'
    BY <1>1, <1>2, SlotFacts DEF Lock, HolderOK, Critical
  <2>3. MainOK'
    BY <1>1, <1>2 DEF Lock, MainOK, MainTypeOK, TypeOK
  <2>4. CounterExact'
    BY <1>1, <1>2, SameStored DEF Lock
  <2> QED
    BY <2>1, <2>2, <2>3, <2>4
<1>3. CASE Load(t)
  <2>1. TypeOK'
    BY <1>3 DEF Load, TypeOK, MainTypeOK
  <2>2. HolderOK'
    BY <1>1, <1>3 DEF Load, HolderOK, Critical
  <2>3. MainOK'
    BY <1>1, <1>3 DEF Load, MainOK, MainTypeOK, TypeOK
  <2>4. CounterExact'
    BY <1>1, <1>3, SameStored DEF Load
  <2> QED
    BY <2>1, <2>2, <2>3, <2>4
<1>4. CASE Store(t)
  <2>1. c' = c + 1 /\ n[t] < COUNT
    BY <1>4 DEF Store, HolderOK, Critical
  <2>2. TypeOK'
    BY <1>1, <1>4, <2>1 DEF Store, TypeOK, MainTypeOK
  <2>3. HolderOK'
    BY <1>1, <1>4 DEF Store, HolderOK, Critical
  <2>4. MainOK'
    BY <1>1, <1>4 DEF Store, MainOK, MainTypeOK, TypeOK
  <2>5. Stored' = Stored \cup {<<t, n[t]>>} /\ <<t, n[t]>> \notin Stored
    BY <1>1, <1>4, <2>1, CounterAssumption DEF Store, Stored
  <2>6. CounterExact'
    BY <2>1, <2>5, StoredFinite, FS_AddElement DEF CounterExact
  <2> QED
    BY <2>2, <2>3, <2>4, <2>6
<1>5. CASE Unlock(t)
  <2>1. n[t] < COUNT /\ n' = [n EXCEPT ![t] = n[t] + 1]
    BY <1>5 DEF Unlock, HolderOK, Critical
  <2>2. TypeOK'
    BY <1>1, <1>5, <2>1, CounterAssumption DEF Unlock, TypeOK, MainTypeOK
  <2>3. HolderOK'
    BY <1>1, <1>5, SlotFacts DEF Unlock, HolderOK, Critical
  <2>4. MainOK'
    BY <1>1, <1>5 DEF Unlock, MainOK, MainTypeOK, TypeOK
  <2>5. Stored' = Stored
    BY <1>1, <1>5, <2>1, CounterAssumption DEF Unlock, Stored
  <2>6. CounterExact'
    BY <1>5, <2>5 DEF Unlock, CounterExact
  <2> QED
    BY <2>2, <2>3, <2>4, <2>6
<1>6. CASE Return(t)
  <2>1. TypeOK'
    BY <1>6 DEF Return, TypeOK, MainTypeOK
  <2>2. HolderOK'
    BY <1>1, <1>6 DEF Return, HolderOK, Critical
  <2>3. MainOK'
    BY <1>1, <1>6 DEF Return, MainOK, MainTypeOK, TypeOK
  <2>4. CounterExact'
    BY <1>1, <1>6, SameStored DEF Return
  <2> QED
    BY <2>1, <2>2, <2>3, <2>4
<1> QED
  BY <1>2, <1>3, <1>4, <1>5, <1>6 DEF ThreadStep

\* A step that changes nothing.
LEMMA StutterKeeps == ASSUME IInv, UNCHANGED vars PROVE IInv'
<1>1. CounterExact'
  BY SameStored DEF vars, IInv
<1> QED
  BY <1>1 DEF vars, IInv, TypeOK, MainTypeOK, HolderOK, Critical, MainOK

\* The invariant is inductive.
LEMMA NextIInv == IInv /\ [Next]_vars => IInv'
BY MainKeeps, ThreadKeeps, StutterKeeps DEF Next

\* The inductive invariant holds throughout.
THEOREM Invariance == Spec => []IInv
BY InitIInv, NextIInv, PTL DEF Spec

\* Every variable keeps its type.
THEOREM TypeCorrect == Spec => []TypeOK
<1>1. IInv => TypeOK
  BY DEF IInv
<1> QED
  BY <1>1, Invariance, PTL

\* The mutex excludes, for any number of threads.
THEOREM MutualExclusionAlways == Spec => []MutualExclusion
<1>1. IInv => MutualExclusion
  BY DEF IInv, HolderOK, MutualExclusion
<1> QED
  BY <1>1, Invariance, PTL

\* The counter equals the number of increments stored: none is lost.
THEOREM CounterExactAlways == Spec => []CounterExact
<1>1. IInv => CounterExact
  BY DEF IInv
<1> QED
  BY <1>1, Invariance, PTL

\* The value printed is COUNT times the number of threads created.
THEOREM PrintedExactAlways == Spec => []PrintedExact
<1>1. ASSUME IInv, main = "done" PROVE printed = Cardinality(created) * COUNT
  <2>1. \A t \in Slot : n[t] = (IF t \in created THEN COUNT ELSE 0) /\ pc[t] # "unlock"
    BY <1>1 DEF IInv, TypeOK, MainTypeOK, HolderOK, MainOK, Critical
  <2>2. Stored = created \X (0 .. COUNT - 1)
    BY <1>1, <2>1, CounterAssumption DEF Stored, IInv, TypeOK, MainTypeOK
  <2>3. IsFiniteSet(created)
    BY <1>1, SlotFacts, FS_Subset DEF IInv, TypeOK, MainTypeOK
  <2>4. Cardinality(Stored) = Cardinality(created) * COUNT
    BY <2>2, <2>3, SlotFacts, FS_Product
  <2> QED
    BY <1>1, <2>4 DEF IInv, MainOK, CounterExact
<1>2. IInv => PrintedExact
  BY <1>1 DEF PrintedExact
<1> QED
  BY <1>2, Invariance, PTL

(***************************************************************************)
(* Refinement: a Store is an atomic increment, a successful Create a       *)
(* start, Report a report, and every other step a stutter.                 *)
(***************************************************************************)
\* Every step is a step of AtomicCounter or leaves its variables alone.
LEMMA StepRefines == IInv /\ [Next]_vars => [Atomic!Next]_(Atomic!acVars)
<1> DEFINE did == [t \in Slot |-> IF pc[t] = "unlock" THEN n[t] + 1 ELSE n[t]]
<1> SUFFICES ASSUME IInv, [Next]_vars
             PROVE  Atomic!Next \/ UNCHANGED <<created, did, c, printed>>
  BY DEF Atomic!acVars
<1>1. /\ pc \in [Slot -> {"none", "loop", "load", "store", "unlock", "exited"}]
      /\ n \in [Slot -> 0..COUNT] /\ c \in Nat /\ i \in 0..TH_N /\ created \subseteq Slot
      /\ Slot \subseteq Int
  BY SlotFacts DEF IInv, TypeOK, MainTypeOK
<1>2. CASE Create("loop") /\ UNCHANGED <<mut, reg, n>>
  <2>1. i \in Slot /\ pc[i] # "unlock" /\ i \notin created
    BY <1>1, <1>2, CounterAssumption DEF Create, IInv, MainOK, Slot
  <2>2. did' = did
    BY <1>1, <1>2, <2>1 DEF Create
  <2>3. printed = NotPrinted /\ printed' = printed /\ c' = c
    BY <1>2 DEF Create, IInv, MainOK
  <2>4. CASE created' = created \cup {i}
    BY <2>1, <2>2, <2>3, <2>4 DEF Atomic!Next, Atomic!Start
  <2>5. CASE created' = created
    BY <2>2, <2>3, <2>5
  <2> QED
    BY <1>2, <2>4, <2>5 DEF Create
<1>3. CASE (BeginJoin \/ Join) /\ UNCHANGED <<mut, reg, n>>
  BY <1>3 DEF BeginJoin, Join
<1>4. CASE Report /\ UNCHANGED <<mut, reg, n>>
  <2>1. \A t \in created : did[t] = COUNT
    <3>1. \A t \in created : t < TH_N
      BY <1>1, CounterAssumption DEF Slot
    <3>2. \A t \in created : pc[t] = "exited" /\ n[t] = COUNT
      BY <3>1, <1>1, <1>4 DEF Report, IInv, HolderOK, MainOK
    <3> QED
      BY <3>2, <1>1
  <2>2. printed = NotPrinted
    BY <1>4 DEF Report, IInv, MainOK
  <2>3. did' = did
    BY <1>4 DEF Report
  <2> QED
    BY <1>4, <2>1, <2>2, <2>3 DEF Report, Atomic!Next, Atomic!Report
<1>5. ASSUME NEW t \in Slot, ThreadStep(t)
      PROVE  Atomic!Next \/ UNCHANGED <<created, did, c, printed>>
  <2>1. CASE Lock(t) \/ Load(t) \/ Return(t)
    <3>1. pc'[t] # "unlock" /\ pc[t] # "unlock"
      BY <2>1, <1>1 DEF Lock, Load, Return, Goto
    <3>2. n' = n /\ c' = c /\ created' = created /\ printed' = printed
          /\ \A u \in Slot : u # t => pc'[u] = pc[u]
      BY <2>1, <1>1 DEF Lock, Load, Return, Goto, mainVars
    <3>3. did' = did
      BY <3>1, <3>2
    <3> QED
      BY <3>2, <3>3
  <2>2. CASE Store(t)
    <3>1. c' = c + 1 /\ n[t] < COUNT /\ pc[t] = "store" /\ t \in created
      BY <2>2 DEF Store, IInv, HolderOK, MainOK, Critical
    <3>2. did[t] = n[t] /\ n' = n /\ pc'[t] = "unlock" /\ created' = created
          /\ printed' = printed /\ \A u \in Slot : u # t => pc'[u] = pc[u]
      BY <2>2, <3>1, <1>1 DEF Store, Goto, mainVars
    <3>3. did' = [did EXCEPT ![t] = did[t] + 1]
      BY <3>1, <3>2
    <3> QED
      BY <3>1, <3>2, <3>3 DEF Atomic!Next, Atomic!Increment
  <2>3. CASE Unlock(t)
    <3>1. n' = [n EXCEPT ![t] = n[t] + 1] /\ pc[t] = "unlock" /\ pc'[t] = "loop"
          /\ \A u \in Slot : u # t => pc'[u] = pc[u]
      BY <2>3, <1>1 DEF Unlock, Goto
    <3>2. did' = did
      BY <3>1, <1>1
    <3> QED
      BY <2>3, <3>2 DEF Unlock, mainVars
  <2> QED
    BY <1>5, <2>1, <2>2, <2>3 DEF ThreadStep
<1>6. CASE UNCHANGED vars
  BY <1>6 DEF vars
<1> QED
  BY <1>2, <1>3, <1>4, <1>5, <1>6 DEF Next, MainStep

\* The program implements a counter with atomic increments.
THEOREM Refinement == Spec => ImplementsAtomic
<1>1. Init => Atomic!Init
  BY DEF Init, MainInit, Atomic!Init
<1> QED
  BY <1>1, StepRefines, Invariance, PTL DEF Spec, ImplementsAtomic, Atomic!Spec
=============================================================================
