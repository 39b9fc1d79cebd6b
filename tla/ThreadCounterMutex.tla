------------------------- MODULE ThreadCounterMutex -------------------------
(***************************************************************************)
(* chapter11/thread_counter_mutex.c: every increment of the shared counter *)
(* is made under the mutex.  The increment itself is a load and a store:   *)
(* that nobody comes between them is what the mutex has to achieve.        *)
(***************************************************************************)
EXTENDS CounterMain

VARIABLES mut,   \* the slot of the thread that holds the mutex, or Unlocked
          reg,   \* the value a thread has loaded
          n      \* the increments a thread has completed (its variable i)

vars == <<main, i, created, pc, c, printed, mut, reg, n>>

Unlocked == -1

Init == /\ MainInit
        /\ mut = Unlocked
        /\ reg = [t \in Slot |-> 0]
        /\ n = [t \in Slot |-> 0]

Goto(t, label) == pc' = [pc EXCEPT ![t] = label]

Lock(t) ==
    /\ pc[t] = "loop" /\ n[t] < COUNT
    /\ mut = Unlocked
    /\ mut' = t
    /\ Goto(t, "load")
    /\ UNCHANGED <<mainVars, c, reg, n>>

\* Mutant of Load: the mutex is released before the increment.
LoadUnlocked(t) ==
    /\ pc[t] = "load"
    /\ reg' = [reg EXCEPT ![t] = c]
    /\ mut' = Unlocked
    /\ Goto(t, "store")
    /\ UNCHANGED <<mainVars, c, n>>

Load(t) ==
    /\ pc[t] = "load"
    /\ reg' = [reg EXCEPT ![t] = c]
    /\ Goto(t, "store")
    /\ UNCHANGED <<mainVars, c, mut, n>>

Store(t) ==
    /\ pc[t] = "store"
    /\ c' = reg[t] + 1
    /\ Goto(t, "unlock")
    /\ UNCHANGED <<mainVars, mut, reg, n>>

\* Mutant of Unlock: the mutex is kept.
UnlockNot(t) ==
    /\ pc[t] = "unlock"
    /\ n' = [n EXCEPT ![t] = @ + 1]
    /\ Goto(t, "loop")
    /\ UNCHANGED <<mainVars, c, mut, reg>>

Unlock(t) ==
    /\ pc[t] = "unlock"
    /\ mut' = Unlocked
    /\ n' = [n EXCEPT ![t] = @ + 1]
    /\ Goto(t, "loop")
    /\ UNCHANGED <<mainVars, c, reg>>

Return(t) ==
    /\ pc[t] = "loop" /\ n[t] = COUNT
    /\ Goto(t, "exited")
    /\ UNCHANGED <<mainVars, c, mut, reg, n>>

\* A crash of main ends all its threads.
ThreadStep(t) ==
    main # "crashed" /\ (Lock(t) \/ Load(t) \/ Store(t) \/ Unlock(t) \/ Return(t))

MainStep == (Create("loop") \/ BeginJoin \/ Join \/ Report) /\ UNCHANGED <<mut, reg, n>>

Next == MainStep \/ \E t \in Slot : ThreadStep(t)

Spec == Init /\ [][Next]_vars
-----------------------------------------------------------------------------
Critical(t) == pc[t] \in {"load", "store", "unlock"}

\* Every variable keeps its type.
TypeOK ==
    /\ MainTypeOK
    /\ pc \in [Slot -> {"none", "loop", "load", "store", "unlock", "exited"}]
    /\ mut \in Slot \cup {Unlocked}
    /\ reg \in [Slot -> Nat] /\ n \in [Slot -> 0..COUNT]

\* Two threads are never between lock and unlock together.
MutualExclusion == \A t, u \in Slot : Critical(t) /\ Critical(u) => t = u

\* The increments stored so far, each identified by its thread and its number.
Stored == {x \in Slot \X (0 .. COUNT - 1) :
             x[2] < n[x[1]] \/ (x[2] = n[x[1]] /\ pc[x[1]] = "unlock")}

\* No increment is lost or counted twice, at any moment.
CounterExact == c = Cardinality(Stored)

\* The printed value is COUNT for each thread that could be created.
PrintedExact == main = "done" => printed = Cardinality(created) * COUNT

\* The program has ended.
Ended == main \in {"done", "crashed"}

\* It behaves as a counter with atomic increments.
Atomic == INSTANCE AtomicCounter
    WITH Worker <- Slot, NoResult <- NotPrinted,
         started <- created,
         did <- [t \in Slot |-> IF pc[t] = "unlock" THEN n[t] + 1 ELSE n[t]],
         total <- c, result <- printed

ImplementsAtomic == Atomic!Spec
-----------------------------------------------------------------------------
(***************************************************************************)
(* The inductive invariant.                                                *)
(***************************************************************************)
\* Who holds the mutex, and that what it loaded is still the counter's value.
HolderOK ==
    \A t \in Slot : /\ Critical(t) <=> mut = t
                    /\ pc[t] = "store" => reg[t] = c
                    /\ Critical(t) => n[t] < COUNT
                    /\ pc[t] = "exited" => n[t] = COUNT

\* Which threads exist and which of them have been joined.
MainOK ==
    /\ \A t \in Slot : /\ pc[t] = "none" <=> t \notin created
                       /\ pc[t] = "none" => n[t] = 0
    /\ main = "create" => \A t \in created : t < i
    /\ main = "join" => \A t \in created : t < i => pc[t] = "exited"
    /\ main = "done" => c = printed /\ \A t \in created : pc[t] = "exited"
    /\ main # "done" <=> printed = NotPrinted

IInv == TypeOK /\ HolderOK /\ MainOK /\ CounterExact
=============================================================================
