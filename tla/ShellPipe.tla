----------------------------- MODULE ShellPipe -----------------------------
(***************************************************************************)
(* chapter08/shell_pipe.c: a shell that runs `cmd` and `cmd1 | cmd2`.      *)
(*                                                                         *)
(* The shell, the two children it forks and the pipe between them.  What   *)
(* decides whether a pipeline works is who holds which end of the pipe and *)
(* when: cmd2 reads its end of file when the last write end is closed,     *)
(* cmd1 is killed by SIGPIPE when the last read end is.  So the descriptor *)
(* table of every process is part of the state.                            *)
(*                                                                         *)
(* The commands are not part of the repository: one does so much work,     *)
(* which is writing units to its standard output when that is the pipe,    *)
(* reading at most so many from its standard input when that is, and       *)
(* nothing the pipe sees otherwise.                                        *)
(***************************************************************************)
EXTENDS Integers, Sequences

CONSTANTS
    Lines,      \* lines the user may type, as the sequences of commands that
                \* get_arg2(command, divcom, "|") makes of them
    Installed,  \* the commands execv can run
    Work,       \* Work[c]: the units a command reads or writes, or Endless
    Capacity    \* units the pipe holds

Endless == -1

Commands == UNION {{l[k] : k \in DOMAIN l} : l \in Lines}

ASSUME LinesAssumption ==
    /\ \A l \in Lines : l \in Seq(Commands)
    /\ Installed \subseteq Commands
    /\ Work \in [Commands -> Nat \cup {Endless}]

ASSUME CapacityAssumption == Capacity \in Nat \ {0}

Shell   == 0
Child   == {1, 2}
Process == {Shell} \cup Child

VARIABLES
    shell,   \* the next step of the shell
    line,    \* what its buffer `line` holds
    child,   \* the state of the child that runs each command
    left,    \* the work each running command has left
    ends,    \* the descriptors of each process that refer to the pipe:
             \* "fd0" and "in" to its read end, "fd1" and "out" to its write end
    buf,     \* units in the pipe
    eof,     \* history: cmd2 of this line has read its end of file
    broken   \* history: cmd1 of this line was killed by SIGPIPE

vars == <<shell, line, child, left, ends, buf, eof, broken>>

Readers == {p \in Process : ends[p] \cap {"fd0", "in"} # {}}
Writers == {p \in Process : ends[p] \cap {"fd1", "out"} # {}}

\* `line` is not initialised: it holds some string.
Init ==
    /\ shell = "prompt" /\ line \in Lines
    /\ child = [k \in Child |-> "none"]
    /\ left = [k \in Child |-> 0]
    /\ ends = [p \in Process |-> {}]
    /\ buf = 0 /\ eof = FALSE /\ broken = FALSE
-----------------------------------------------------------------------------
(***************************************************************************)
(* The shell.                                                              *)
(***************************************************************************)
\* fgets, sscanf and get_arg2; a line of no command (empty, or only "|") and
\* one of three or more are ignored.  At the end of input fgets leaves `line`
\* as it is and the last line is run again: l = line is that case too.
ReadLine(l) ==
    /\ shell = "prompt"
    /\ line' = l
    /\ shell' = IF Len(l) = 1 THEN "single" ELSE IF Len(l) = 2 THEN "pipe" ELSE "prompt"
    /\ eof' = FALSE /\ broken' = FALSE
    /\ UNCHANGED <<child, left, ends, buf>>

\* pipe(fd); without a descriptor to spare the shell exits.
Pipe ==
    /\ shell = "pipe"
    /\ \/ /\ ends' = [ends EXCEPT ![Shell] = {"fd0", "fd1"}]
          /\ buf' = 0
          /\ left' = [k \in Child |-> 0]
          /\ shell' = "fork1"
       \/ shell' = "exited" /\ UNCHANGED <<ends, buf, left>>
    /\ UNCHANGED <<line, child, eof, broken>>

\* Mutant of Fork: the shell closes its read end as soon as cmd1 exists.
ForkCloseEarly(k, label) ==
    /\ shell' = label
    /\ child' = [child EXCEPT ![k] = "forked"]
    /\ ends' = [ends EXCEPT ![k] = ends[Shell], ![Shell] = @ \ {"fd0"}]
    /\ UNCHANGED <<line, left, buf, eof, broken>>

\* fork(); that it may fail is not looked at.
Fork(k, label) ==
    /\ shell' = label
    /\ \/ /\ child' = [child EXCEPT ![k] = "forked"]
          /\ ends' = [ends EXCEPT ![k] = ends[Shell]]
       \/ UNCHANGED <<child, ends>>
    /\ UNCHANGED <<line, left, buf, eof, broken>>

ForkSingle == shell = "single" /\ Fork(1, "wait2")
ForkFirst  == shell = "fork1" /\ Fork(1, "fork2")
ForkSecond == shell = "fork2" /\ Fork(2, "close0")

\* close(fd[0]), then close(fd[1]), before the waits.
Close(fd, label) ==
    /\ ends' = [ends EXCEPT ![Shell] = @ \ {fd}]
    /\ shell' = label
    /\ UNCHANGED <<line, child, left, buf, eof, broken>>

\* Mutant of CloseWrite: the shell keeps its write end.
CloseWriteNot == shell = "close1" /\ Close("", "wait1")

CloseRead  == shell = "close0" /\ Close("fd0", "close1")
CloseWrite == shell = "close1" /\ Close("fd1", "wait1")

\* wait(&st) reaps some child that has ended; with no child left it fails at
\* once.  After a single command only the last of the two waits is there.
Wait ==
    /\ shell \in {"wait1", "wait2"}
    /\ shell' = IF shell = "wait1" THEN "wait2" ELSE "prompt"
    /\ \/ \E k \in Child : child[k] = "zombie" /\ child' = [child EXCEPT ![k] = "none"]
       \/ (\A k \in Child : child[k] = "none") /\ UNCHANGED child
    /\ UNCHANGED <<line, left, ends, buf, eof, broken>>
-----------------------------------------------------------------------------
(***************************************************************************)
(* The children.                                                           *)
(***************************************************************************)
\* The end of a process closes its descriptors.
Exit(k) ==
    /\ child' = [child EXCEPT ![k] = "zombie"]
    /\ ends' = [ends EXCEPT ![k] = {}]

\* dup2(from, to), which fails when `from` is not open.
Dup(fds, from, to) == IF from \in fds THEN fds \cup {to} ELSE fds

\* Mutants of Redirect: each child closes the end it needs; neither closes the
\* end it does not need.
RedirectSwapped(k) ==
    /\ child[k] = "forked" /\ Len(line) = 2
    /\ child' = [child EXCEPT ![k] = "joined"]
    /\ ends' = [ends EXCEPT ![k] = IF k = 1 THEN Dup(@ \ {"fd1"}, "fd1", "out")
                                            ELSE Dup(@ \ {"fd1"}, "fd0", "in")]
    /\ UNCHANGED <<shell, line, left, buf, eof, broken>>

RedirectOpen(k) ==
    /\ child[k] = "forked" /\ Len(line) = 2
    /\ child' = [child EXCEPT ![k] = "joined"]
    /\ ends' = [ends EXCEPT ![k] = IF k = 1 THEN Dup(@, "fd1", "out")
                                            ELSE Dup(@, "fd0", "in")]
    /\ UNCHANGED <<shell, line, left, buf, eof, broken>>

\* In a pipeline a child closes the end it does not use and makes the other
\* its standard output or input; the copy in fd stays open.
Redirect(k) ==
    /\ child[k] = "forked" /\ Len(line) = 2
    /\ child' = [child EXCEPT ![k] = "joined"]
    /\ ends' = [ends EXCEPT ![k] = IF k = 1 THEN Dup(@ \ {"fd0"}, "fd1", "out")
                                            ELSE Dup(@ \ {"fd1"}, "fd0", "in")]
    /\ UNCHANGED <<shell, line, left, buf, eof, broken>>

\* execv, and exit(0) where it fails.
Exec(k) ==
    /\ child[k] = (IF Len(line) = 2 THEN "joined" ELSE "forked")
    /\ \/ /\ line[k] \in Installed
          /\ child' = [child EXCEPT ![k] = "running"]
          /\ left' = [left EXCEPT ![k] = Work[line[k]]]
          /\ UNCHANGED ends
       \/ /\ line[k] \notin Installed
          /\ Exit(k)
          /\ UNCHANGED left
    /\ UNCHANGED <<shell, line, buf, eof, broken>>

Working(k) == child[k] = "running" /\ left[k] # 0

\* One unit less to do.
Progress(k) == left' = [left EXCEPT ![k] = IF @ = Endless THEN @ ELSE @ - 1]

\* A write to the pipe: it blocks while the pipe is full, and kills the
\* command when nobody can read.
Output(k) ==
    /\ Working(k) /\ "out" \in ends[k]
    /\ \/ /\ Readers # {} /\ buf < Capacity
          /\ buf' = buf + 1
          /\ Progress(k)
          /\ UNCHANGED <<child, ends, broken>>
       \/ /\ Readers = {}
          /\ broken' = TRUE
          /\ Exit(k)
          /\ UNCHANGED <<left, buf>>
    /\ UNCHANGED <<shell, line, eof>>

\* A read from the pipe: it blocks while the pipe is empty, and gets the end
\* of file when moreover nobody can write.
Input(k) ==
    /\ Working(k) /\ "in" \in ends[k]
    /\ \/ /\ buf > 0
          /\ buf' = buf - 1
          /\ Progress(k)
          /\ UNCHANGED <<child, ends, eof>>
       \/ /\ buf = 0 /\ Writers = {}
          /\ eof' = TRUE
          /\ Exit(k)
          /\ UNCHANGED <<left, buf>>
    /\ UNCHANGED <<shell, line, broken>>

\* Work that does not concern the pipe.
Terminal(k) ==
    /\ Working(k) /\ ends[k] \cap {"in", "out"} = {}
    /\ Progress(k)
    /\ UNCHANGED <<shell, line, child, ends, buf, eof, broken>>

Finish(k) ==
    /\ child[k] = "running" /\ left[k] = 0
    /\ Exit(k)
    /\ UNCHANGED <<shell, line, left, buf, eof, broken>>
-----------------------------------------------------------------------------
ShellStep == Pipe \/ ForkSingle \/ ForkFirst \/ ForkSecond \/ CloseRead
               \/ CloseWrite \/ Wait

ChildStep(k) == Redirect(k) \/ Exec(k) \/ Output(k) \/ Input(k) \/ Terminal(k) \/ Finish(k)

Next == ShellStep \/ (\E l \in Lines : ReadLine(l)) \/ (\E k \in Child : ChildStep(k))

Spec == Init /\ [][Next]_vars

\* The kernel runs every process that can run; the user need not type.
FairSpec == Spec /\ WF_vars(ShellStep) /\ \A k \in Child : WF_vars(ChildStep(k))
-----------------------------------------------------------------------------
Alive(k) == child[k] \in {"forked", "joined", "running"}

\* Every variable keeps its type.
TypeOK ==
    /\ shell \in {"prompt", "single", "pipe", "fork1", "fork2", "close0",
                  "close1", "wait1", "wait2", "exited"}
    /\ line \in Lines
    /\ child \in [Child -> {"none", "forked", "joined", "running", "zombie"}]
    /\ left \in [Child -> Nat \cup {Endless}]
    /\ ends \in [Process -> SUBSET {"fd0", "fd1", "in", "out"}]
    /\ buf \in 0..Capacity /\ eof \in BOOLEAN /\ broken \in BOOLEAN

\* The shell comes back to its prompt with no child left behind, running or
\* zombie, and with no end of the pipe open: it can go on for ever.
CleanPrompt ==
    shell = "prompt" => /\ \A k \in Child : child[k] = "none"
                        /\ Readers = {} /\ Writers = {}

\* cmd2 reads its end of file only after all that cmd1 has written, and cmd1
\* has then done all its work and ended: the file never ends early, although
\* cmd1 may not even have reached its execv when cmd2 first reads.
WholeInput == eof => buf = 0 /\ left[1] = 0 /\ ~Alive(1)

\* SIGPIPE kills cmd1 only when cmd2 has ended, or could not be created: never
\* because cmd1 was there before cmd2.
NoEarlySigpipe == broken => ~Alive(2) /\ shell \notin {"fork1", "fork2"}

\* A line whose commands can end: a pipeline ends when either of its commands
\* has a bounded amount of work, for the end of one ends the other.
Finite == \E k \in DOMAIN line : line[k] \in Installed => Work[line[k]] # Endless

\* The prompt comes back after each such line, whichever of the forks and
\* execs fail (with FairSpec): nobody who waits for the other end of the pipe
\* is kept waiting by a forgotten descriptor.
PromptReturns == (shell # "prompt" /\ Finite) ~> (shell \in {"prompt", "exited"})
=============================================================================
