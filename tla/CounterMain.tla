----------------------------- MODULE CounterMain -----------------------------
(***************************************************************************)
(* main of chapter11/thread_counter.c and thread_counter_mutex.c, which is *)
(* the same: it creates TH_N threads that share the variable c, joins them *)
(* in the order of their creation and prints c.  The result of             *)
(* pthread_create is not looked at, so a thread may be missing; the join   *)
(* of a handle that was never written is undefined: it returns an error or *)
(* brings the program down.                                                *)
(***************************************************************************)
EXTENDS Integers, FiniteSets

CONSTANTS TH_N,    \* threads
          COUNT    \* increments of each

ASSUME CounterAssumption == TH_N \in Nat /\ COUNT \in Nat

Slot == 0 .. TH_N - 1
NotPrinted == -1

VARIABLES
    main,     \* what main does: "create", "join", "done" or "crashed"
    i,        \* its loop variable
    created,  \* the slots whose pthread_create succeeded
    pc,       \* the next step of the thread of each slot
    c,        \* the shared counter
    printed   \* the value printed

mainVars == <<main, i, created, printed>>

MainInit ==
    /\ main = "create" /\ i = 0 /\ created = {}
    /\ pc = [t \in Slot |-> "none"]
    /\ c = 0 /\ printed = NotPrinted

\* pthread_create(&th[i], NULL, counter, &c), whose result is ignored; the new
\* thread begins with the step `first`.
Create(first) ==
    /\ main = "create" /\ i < TH_N
    /\ i' = i + 1
    /\ \/ created' = created \cup {i} /\ pc' = [pc EXCEPT ![i] = first]
       \/ UNCHANGED <<created, pc>>
    /\ UNCHANGED <<main, c, printed>>

BeginJoin ==
    /\ main = "create" /\ i = TH_N
    /\ main' = "join" /\ i' = 0
    /\ UNCHANGED <<created, pc, c, printed>>

\* Mutant of Join: it does not wait for the thread to end.
JoinAtOnce ==
    /\ main = "join" /\ i < TH_N
    /\ i' = i + 1
    /\ UNCHANGED <<main, created, pc, c, printed>>

\* pthread_join(th[i], NULL).
Join ==
    /\ main = "join" /\ i < TH_N
    /\ i \in created => pc[i] = "exited"
    /\ \/ i' = i + 1 /\ UNCHANGED main
       \/ i \notin created /\ main' = "crashed" /\ UNCHANGED i
    /\ UNCHANGED <<created, pc, c, printed>>

Report ==
    /\ main = "join" /\ i = TH_N
    /\ printed' = c /\ main' = "done"
    /\ UNCHANGED <<i, created, pc, c>>

MainTypeOK ==
    /\ main \in {"create", "join", "done", "crashed"}
    /\ i \in 0..TH_N
    /\ created \subseteq Slot
    /\ c \in Nat
    /\ printed \in Nat \cup {NotPrinted}
=============================================================================
