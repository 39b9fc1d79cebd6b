-------------------------- MODULE MCThreadCounters --------------------------
(***************************************************************************)
(* One of the two counter programs is run: thread_counter_mutex.c, whose   *)
(* variables are those of ThreadCounterMutex, or thread_counter.c, whose   *)
(* variables have names of their own.                                      *)
(***************************************************************************)
EXTENDS ThreadCounterMutex

VARIABLES program, rmain, ri, rcreated, rpc, rc, rprinted, rreg, rn

raceVars == <<rmain, ri, rcreated, rpc, rc, rprinted, rreg, rn>>
allVars  == <<program, vars, raceVars>>

Race == INSTANCE ThreadCounter
    WITH main <- rmain, i <- ri, created <- rcreated, pc <- rpc, c <- rc,
         printed <- rprinted, reg <- rreg, n <- rn

MCInit == program \in {"mutex", "race"} /\ Init /\ Race!Init

MutexRuns == program = "mutex" /\ UNCHANGED <<program, raceVars>>
RaceRuns  == program = "race" /\ UNCHANGED <<program, vars>>

MCNext == (MutexRuns /\ Next) \/ (RaceRuns /\ Race!Next)

\* Every thread that can run is scheduled.  A lock that is free only now and
\* then may pass a thread by; it is free for good when the others have ended.
MCSpec ==
    /\ MCInit /\ [][MCNext]_allVars
    /\ WF_allVars(MutexRuns /\ MainStep) /\ WF_allVars(RaceRuns /\ Race!MainStep)
    /\ \A t \in Slot : /\ WF_allVars(MutexRuns /\ ThreadStep(t))
                       /\ WF_allVars(RaceRuns /\ Race!ThreadStep(t))
-----------------------------------------------------------------------------
\* thread_counter.c: increments get lost, but the counter never runs ahead of
\* those made, although every write is computed from an old value.
NeverAhead == Race!NeverAhead

\* thread_counter.c: at least two increments survive, however the threads
\* interleave and however the loop is compiled.
SomeSurvive == Race!SomeSurvive

\* The program that is run ends: main joins every thread it has created.
Termination ==
    /\ program = "mutex" ~> Ended
    /\ program = "race" ~> Race!Ended
=============================================================================
