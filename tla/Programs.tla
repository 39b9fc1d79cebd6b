------------------------------ MODULE Programs ------------------------------
(***************************************************************************)
(* The small programs together: in each behaviour the user runs one of     *)
(* their groups, and the others do not start.                              *)
(***************************************************************************)
EXTENDS Integers, Sequences

CONSTANTS Rounds, Words, Length, Lines, Installed, Halves, MaxTicks, Total,
          Size, Numbers, Garbage, Runs, Modes

ASSUME WordsAssumption == Length \in [Words -> Nat]

\* The lines with words, none of which is empty.
ASSUME LinesAssumption == \A l \in Lines : l # <<>> /\ l \in Seq(STRING \ {""})

ASSUME HalvesAssumption == Halves \subseteq STRING /\ "" \notin Halves

ASSUME BoundsAssumption == Rounds \in Nat /\ MaxTicks \in Nat /\ Total \in Nat \ {0}

VARIABLES
    group,                                                         \* what is run
    script, rest, status, out, killed,                             \* ForkPrograms
    parent, child, end, st, pipe, word, n,                         \* PipeParentChild
    shell, step, line, command, arg, kid, argv, entered, fresh,    \* SimpleShell
    name, sized, content, at, open, text, seen, torn,              \* ShmLifecycle
    next, timer, input, verdict, now, start, wake, dots, elapsed,  \* SignalPrograms
    main, worker, query, flag, count, reg, shown, done,            \* ThreadPrograms
    part, ptr, curr, data, link, printout,                         \* LinearList
    call, mode, buf, original, taken, unseen                       \* FileMode

F == INSTANCE ForkPrograms
P == INSTANCE PipeParentChild
S == INSTANCE SimpleShell WITH at <- step
M == INSTANCE ShmLifecycle WITH command <- text
G == INSTANCE SignalPrograms WITH at <- next, shown <- elapsed
T == INSTANCE ThreadPrograms
L == INSTANCE LinearList WITH pc <- part, next <- link, out <- printout
K == INSTANCE FileMode

ASSUME SizeAssumption == L!SizeAssumption

ASSUME ModesAssumption == Modes \subseteq SUBSET K!Bits

Groups == {"fork", "pipe", "shell", "shm", "signal", "thread", "list", "mask"}

forkVars   == <<script, rest, status, out, killed>>
pipeVars   == <<parent, child, end, st, pipe, word, n>>
shellVars  == <<shell, step, line, command, arg, kid, argv, entered, fresh>>
shmVars    == <<name, sized, content, at, open, text, seen, torn>>
signalVars == <<next, timer, input, verdict, now, start, wake, dots, elapsed>>
threadVars == <<main, worker, query, flag, count, reg, shown, done>>
listVars   == <<part, ptr, curr, data, link, printout>>
maskVars   == <<call, mode, buf, original, taken, unseen>>

vars == <<group, forkVars, pipeVars, shellVars, shmVars, signalVars, threadVars,
          listVars, maskVars>>

Init ==
    /\ group \in Groups
    /\ F!ForkInit /\ P!PipeInit /\ S!ShellInit /\ M!ShmInit /\ G!SignalInit /\ T!ThreadInit
    /\ L!Init /\ K!FileInit
    /\ group # "list" => link = [k \in L!Nodes |-> L!Null]
    /\ group # "mask" => mode = CHOOSE m \in Modes : TRUE

\* The programs of group g run, and no others.
Alone(g) ==
    /\ group = g /\ group' = g
    /\ g # "fork"   => UNCHANGED forkVars
    /\ g # "pipe"   => UNCHANGED pipeVars
    /\ g # "shell"  => UNCHANGED shellVars
    /\ g # "shm"    => UNCHANGED shmVars
    /\ g # "signal" => UNCHANGED signalVars
    /\ g # "thread" => UNCHANGED threadVars
    /\ g # "list"   => UNCHANGED listVars
    /\ g # "mask"   => UNCHANGED maskVars

Next ==
    \/ Alone("fork") /\ F!ForkNext
    \/ Alone("pipe") /\ P!PipeNext
    \/ Alone("shell") /\ S!ShellNext
    \/ Alone("shm") /\ M!ShmNext
    \/ Alone("signal") /\ G!SignalNext
    \/ Alone("thread") /\ T!ThreadNext
    \/ Alone("list") /\ L!Next
    \/ Alone("mask") /\ K!FileNext

Spec == Init /\ [][Next]_vars

\* Every process and thread that can run does; nothing obliges the user, or a
\* command a shell runs.  The groups that were not chosen have nothing to run.
FairSpec ==
    /\ Spec
    /\ F!ForkFairness /\ P!PipeFairness /\ S!ShellFairness
    /\ M!ShmFairness /\ G!SignalFairness /\ T!ThreadFairness
    /\ WF_vars(Alone("list") /\ L!ListStep)
-----------------------------------------------------------------------------
\* Every variable keeps its type.
TypeOK ==
    /\ group \in Groups
    /\ F!ForkTypeOK /\ P!PipeTypeOK /\ S!ShellTypeOK
    /\ M!ShmTypeOK /\ G!SignalTypeOK /\ T!ThreadTypeOK
    /\ L!TypeOK /\ K!FileTypeOK

\* Where one process waits for another, or one thread joins another, the end of
\* the waiting one is the end of the program: the child is reaped and its output
\* is out (wait.c, zombie.c), the thread's work is complete and its last line
\* printed (thread_sleep.c, thread_input.c).
WaiterLast == F!ParentLast /\ T!DoneBeforeEnd

\* pip_p.c shows the length of its word exactly when its child wrote it.
OwnAnswer == P!OwnAnswer

\* shell.c and shell_option.c run the command of the last line with a word, with
\* no options of any other line.
RunsTheLine == S!RunsTheLine

\* mmap_rec.c prints nothing or a whole text, unless a copy overlapped.
WholeText == M!WholeText

\* sig_alarm.c judges the user's number, and no alarm comes after; sig_timer.c
\* shows no fewer seconds than dots.
OnTime == G!OnTime

\* linearlist.c prints the numbers read, each once and in order, and stays in
\* its array.
PrintsInOrder == L!PrintsInOrder

\* Runs of mymask.c that overlap bring back a permission only if it was taken away
\* between the stat and the chmod of one of them, and lose no other.
ChangesKept == K!ChangesKept

=============================================================================
