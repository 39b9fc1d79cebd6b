---------------------------- MODULE AtomicCounter ----------------------------
(***************************************************************************)
(* What chapter11/thread_counter_mutex.c promises: its threads count as if *)
(* each increment were one step, and the one result it reports, once every *)
(* thread that was started has finished, loses none of them.               *)
(***************************************************************************)
EXTENDS Integers, FiniteSets

CONSTANTS Worker, COUNT, NoResult

VARIABLES started,  \* the workers that exist
          did,      \* the increments each has made
          total,    \* the counter
          result    \* what was reported

acVars == <<started, did, total, result>>

Init == /\ started = {} /\ did = [w \in Worker |-> 0]
        /\ total = 0 /\ result = NoResult

Start(w) == /\ w \in Worker \ started /\ result = NoResult
            /\ started' = started \cup {w}
            /\ UNCHANGED <<did, total, result>>

Increment(w) == /\ w \in started /\ did[w] < COUNT
                /\ did' = [did EXCEPT ![w] = @ + 1]
                /\ total' = total + 1
                /\ UNCHANGED <<started, result>>

Report == /\ result = NoResult
          /\ \A w \in started : did[w] = COUNT
          /\ result' = total
          /\ UNCHANGED <<started, did, total>>

Next == Report \/ \E w \in Worker : Start(w) \/ Increment(w)

Spec == Init /\ [][Next]_acVars
=============================================================================
