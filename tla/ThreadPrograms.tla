--------------------------- MODULE ThreadPrograms ---------------------------
(***************************************************************************)
(* chapter11/thread_sleep.c, whose main polls a flag that its thread sets, *)
(* and thread_input.c, where a thread counts while another shows the count *)
(* at the user's request.  Neither synchronizes its threads but by join.   *)
(***************************************************************************)
EXTENDS Integers

CONSTANT Total  \* bound: the increments of input, LOOP_N * DATA_N in the code

VARIABLES
    main,   \* the next step of main, with the program it is of
    worker, \* the thread processing or input: "none" when it was not created
    query,  \* the thread query
    flag,   \* thread_sleep's flag
    count,  \* thread_input's count, in memory
    reg,    \* the count in a register of input
    shown,  \* what query showed last
    done    \* "done." has been printed

threadVars == <<main, worker, query, flag, count, reg, shown, done>>

ThreadInit ==
    /\ main = "off" /\ worker = "none" /\ query = "none"
    /\ flag = 0 /\ count = 0 /\ reg = 0 /\ shown = 0 /\ done = FALSE

Running == main \notin {"off", "ended"}

StartMain(first) ==
    /\ main = "off" /\ main' = first
    /\ UNCHANGED <<worker, query, flag, count, reg, shown, done>>
-----------------------------------------------------------------------------
(***************************************************************************)
(* main                                                                    *)
(***************************************************************************)
\* pthread_create, whose failure is not looked at.
CreateProcessing ==
    /\ main = "create" /\ main' = "poll"
    /\ worker' \in {"sleep", "none"}
    /\ UNCHANGED <<query, flag, count, reg, shown, done>>

\* The loop around `flag == 1`.  The calls in it make the build read the flag
\* again each time.
Poll ==
    /\ main = "poll" /\ flag = 1 /\ main' = "join"
    /\ UNCHANGED <<worker, query, flag, count, reg, shown, done>>

CreateInput ==
    /\ main = "create input" /\ main' = "create query"
    /\ worker' \in {"count", "none"}
    /\ UNCHANGED <<query, flag, count, reg, shown, done>>

CreateQuery ==
    /\ main = "create query" /\ main' = "join"
    /\ query' \in {"getchar", "none"}
    /\ UNCHANGED <<worker, flag, count, reg, shown, done>>

\* pthread_join and the return from main, which ends every thread.  With a
\* handle that was never written join fails, or brings the program down.
Join ==
    /\ main = "join" /\ worker \in {"none", "ended"} /\ main' = "ended"
    /\ UNCHANGED <<worker, query, flag, count, reg, shown, done>>
-----------------------------------------------------------------------------

\* The end of sleep(20), and *(int *)x = 1.
SetFlag ==
    /\ Running /\ worker = "sleep" /\ worker' = "print"
    /\ flag' = 1
    /\ UNCHANGED <<main, query, count, reg, shown, done>>

\* count++, in memory or in a register: nothing makes a build store it before
\* the print that follows the loops.
Increment ==
    /\ Running /\ worker = "count" /\ reg < Total
    /\ reg' = reg + 1
    /\ count' \in {count, reg + 1}
    /\ UNCHANGED <<main, worker, query, flag, shown, done>>

EndLoops ==
    /\ Running /\ worker = "count" /\ reg = Total
    /\ count' = reg
    /\ worker' = "print"
    /\ UNCHANGED <<main, query, flag, reg, shown, done>>

PrintDone ==
    /\ Running /\ worker = "print" /\ worker' = "return"
    /\ done' = TRUE
    /\ UNCHANGED <<main, query, flag, count, reg, shown>>

Return ==
    /\ Running /\ worker = "return" /\ worker' = "ended"
    /\ UNCHANGED <<main, query, flag, count, reg, shown, done>>

\* getchar; at the end of input it returns without the user, again and again.
KeyPressed ==
    /\ Running /\ query = "getchar" /\ query' = "show"
    /\ UNCHANGED <<main, worker, flag, count, reg, shown, done>>

ShowCount ==
    /\ Running /\ query = "show" /\ query' = "getchar"
    /\ shown' = count
    /\ UNCHANGED <<main, worker, flag, count, reg, done>>

MainStep   == CreateProcessing \/ Poll \/ CreateInput \/ CreateQuery \/ Join
WorkerStep == SetFlag \/ Increment \/ EndLoops \/ PrintDone \/ Return

ThreadNext ==
    \/ \E first \in {"create", "create input"} : StartMain(first)
    \/ MainStep \/ WorkerStep \/ KeyPressed \/ ShowCount

ThreadFairness ==
    WF_threadVars(MainStep) /\ WF_threadVars(WorkerStep) /\ WF_threadVars(ShowCount)
-----------------------------------------------------------------------------
ThreadTypeOK ==
    /\ main \in {"off", "create", "poll", "create input", "create query", "join", "ended"}
    /\ worker \in {"none", "sleep", "count", "print", "return", "ended"}
    /\ query \in {"none", "getchar", "show"}
    /\ flag \in 0..1 /\ count \in 0..Total /\ reg \in 0..Total /\ shown \in 0..count
    /\ done \in BOOLEAN

\* The process does not end before its worker has printed its last line, and
\* then the work is complete: in thread_sleep although the flag is set before
\* the print, in thread_input although nobody joins query.
DoneBeforeEnd ==
    main = "ended" /\ worker # "none" => done /\ (flag = 1 \/ count = Total)

\* main ends, unless thread_sleep polls the flag of a thread that could not be
\* created.
ThreadEnds == main # "off" ~> main = "ended" \/ (main = "poll" /\ worker = "none")
=============================================================================
