---------------------------- MODULE ThreadCounter ----------------------------
(***************************************************************************)
(* chapter11/thread_counter.c: the shared counter is incremented without   *)
(* any synchronization.  That is a data race, so a build may read the      *)
(* counter once and add several increments before it writes it back (down  *)
(* to one read and one write for the whole loop), and may go on with the   *)
(* value it has in a register instead of reading again.  An unoptimised    *)
(* build reads and writes at every increment.                              *)
(***************************************************************************)
EXTENDS CounterMain

VARIABLES reg,   \* the value a thread has in its register
          n      \* the increments a thread has made (its variable i)

vars == <<main, i, created, pc, c, printed, reg, n>>

Init == /\ MainInit
        /\ reg = [t \in Slot |-> 0]
        /\ n = [t \in Slot |-> 0]

\* Mutant of Load: the thread starts from zero, not from the counter.
LoadZero(t) ==
    /\ pc[t] = "loop" /\ n[t] < COUNT
    /\ reg' = [reg EXCEPT ![t] = 0]
    /\ pc' = [pc EXCEPT ![t] = "store"]
    /\ UNCHANGED <<mainVars, c, n>>

Load(t) ==
    /\ pc[t] = "loop" /\ n[t] < COUNT
    /\ reg' = [reg EXCEPT ![t] = c]
    /\ pc' = [pc EXCEPT ![t] = "store"]
    /\ UNCHANGED <<mainVars, c, n>>

\* Mutant of Store: the argument of the increment is evaluated twice.
StoreTwice(t, k) ==
    /\ pc[t] = "store" /\ n[t] + k <= COUNT
    /\ c' = reg[t] + 2 * k
    /\ reg' = [reg EXCEPT ![t] = @ + 2 * k]
    /\ n' = [n EXCEPT ![t] = @ + k]
    /\ pc' = [pc EXCEPT ![t] = "loop"]
    /\ UNCHANGED mainVars

\* k increments are written back.
Store(t, k) ==
    /\ pc[t] = "store" /\ n[t] + k <= COUNT
    /\ c' = reg[t] + k
    /\ reg' = [reg EXCEPT ![t] = @ + k]
    /\ n' = [n EXCEPT ![t] = @ + k]
    /\ \/ pc' = [pc EXCEPT ![t] = "loop"]
       \/ n[t] + k < COUNT /\ UNCHANGED pc
    /\ UNCHANGED mainVars

Return(t) ==
    /\ pc[t] = "loop" /\ n[t] = COUNT
    /\ pc' = [pc EXCEPT ![t] = "exited"]
    /\ UNCHANGED <<mainVars, c, reg, n>>

ThreadStep(t) ==
    main # "crashed" /\ (Load(t) \/ (\E k \in 1..COUNT : Store(t, k)) \/ Return(t))

MainStep == (Create("loop") \/ BeginJoin \/ Join \/ Report) /\ UNCHANGED <<reg, n>>

Next == MainStep \/ \E t \in Slot : ThreadStep(t)

Spec == Init /\ [][Next]_vars
-----------------------------------------------------------------------------
\* The program has ended.
Ended == main \in {"done", "crashed"}

\* The increments made so far, each identified by its thread and its number.
Made == {x \in Slot \X (0 .. COUNT - 1) : x[2] < n[x[1]]}

\* Increments get lost, but the counter never runs ahead of those made,
\* although every write is computed from an old value.
NeverAhead == c <= Cardinality(Made)

\* However the threads interleave and however the loop is compiled, at least
\* two increments survive: the last write of a thread that makes two or more
\* is never computed from the initial zero alone.
SomeSurvive ==
    main = "done" /\ created # {} => printed >= (IF COUNT < 2 THEN COUNT ELSE 2)
=============================================================================
