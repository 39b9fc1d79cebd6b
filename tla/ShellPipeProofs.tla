--------------------------- MODULE ShellPipeProofs ---------------------------
(***************************************************************************)
(* Proofs about ShellPipe, for every set of lines, every amount of work    *)
(* and every capacity of the pipe.                                         *)
(*                                                                         *)
(* Everything follows from knowing, at every step of the shell and of each *)
(* child, exactly which ends of the pipe the process holds (ShellEnds and  *)
(* ChildEnds): a reader that sees the end of file, and a writer that gets  *)
(* SIGPIPE, conclude from the missing holders of the other end where the   *)
(* others are.  EofInv and BrokenInv are those conclusions, kept until the *)
(* next line is read.                                                      *)
(***************************************************************************)
EXTENDS ShellPipe, TLAPS

Ended(k) == child[k] \in {"none", "zombie"}

\* The ends of the pipe the shell holds at each of its steps.
ShellEnds ==
    /\ shell \in {"fork1", "fork2", "close0"} => ends[Shell] = {"fd0", "fd1"}
    /\ shell = "close1" => ends[Shell] = {"fd1"}
    /\ shell \notin {"fork1", "fork2", "close0", "close1"} => ends[Shell] = {}

\* The ends each child holds: both between fork and dup2, then the one it
\* uses; none when it has ended or the line is a single command.
ChildHolds(k) ==
    /\ Ended(k) => ends[k] = {}
    /\ Len(line) # 2 => ends[k] = {}
    /\ Len(line) = 2 /\ child[k] = "forked" => ends[k] = {"fd0", "fd1"}
    /\ Len(line) = 2 /\ child[k] \in {"joined", "running"} =>
           ends[k] = IF k = 1 THEN {"fd1", "out"} ELSE {"fd0", "in"}

ChildEnds == \A k \in Child : ChildHolds(k)

\* How many commands the line has at each step of the shell.
LineInv ==
    /\ shell = "single" => Len(line) = 1
    /\ shell \in {"pipe", "fork1", "fork2", "close0", "close1", "wait1", "exited"} =>
           Len(line) = 2
    /\ shell = "wait2" => Len(line) \in {1, 2}

\* Which children can exist at each step of the shell; the second wait has at
\* most one left to reap.
ChildInv ==
    /\ shell \in {"prompt", "single", "pipe", "fork1", "exited"} =>
           child[1] = "none" /\ child[2] = "none"
    /\ shell = "fork2" => child[2] = "none"
    /\ shell = "wait2" => child[1] = "none" \/ child[2] = "none"

\* A first command that has ended without SIGPIPE has written all it had.
DoneInv ==
    /\ shell \in {"fork1", "fork2", "close0", "close1", "wait1", "wait2"}
    /\ Len(line) = 2 /\ child[1] # "running" /\ ~broken
    => left[1] = 0

\* What an end of file tells until the next line.
EofInv ==
    eof => /\ buf = 0 /\ left[1] = 0
           /\ Ended(1) /\ Ended(2)
           /\ shell \in {"wait1", "wait2", "prompt"}

\* What SIGPIPE tells until the next line.
BrokenInv ==
    broken => /\ Ended(1) /\ Ended(2)
              /\ shell \in {"close1", "wait1", "wait2", "prompt"}

PipeInv == /\ TypeOK
           /\ ShellEnds
           /\ ChildEnds
           /\ LineInv
           /\ ChildInv
           /\ DoneInv
           /\ EofInv
           /\ BrokenInv
-----------------------------------------------------------------------------
\* Every line is a sequence of commands.
LEMMA LinesAreSeqs ==
    ASSUME NEW l \in Lines
    PROVE  /\ Len(l) \in Nat
           /\ l \in Seq(Commands)
           /\ \A k \in 1..Len(l) : l[k] \in Installed => Work[l[k]] \in Nat \cup {Endless}
  BY LinesAssumption

\* A new line keeps the invariant.
LEMMA ReadLineInv ==
    ASSUME PipeInv, NEW l \in Lines, ReadLine(l)
    PROVE  PipeInv'
<1> USE LinesAreSeqs, CapacityAssumption DEF PipeInv
<1> USE DEF ReadLine
<1>1. TypeOK'
  BY DEF TypeOK, ShellEnds, ChildEnds, ChildHolds, LineInv, ChildInv, DoneInv, EofInv, BrokenInv, Ended, Shell, Child, Process, Endless
<1>2. ShellEnds'
  BY DEF TypeOK, ShellEnds, ChildEnds, ChildHolds, LineInv, ChildInv, DoneInv, EofInv, BrokenInv, Ended, Shell, Child, Process, Endless
<1>3. ChildEnds'
  <2>1. ASSUME NEW j \in Child
        PROVE  ChildHolds(j)'
    <3>1. ChildHolds(j)
      BY DEF ChildEnds
    <3>2. QED
      BY <3>1 DEF TypeOK, ShellEnds, ChildHolds, LineInv, ChildInv, Ended, Shell, Child, Process
  <2>2. QED
    BY <2>1 DEF ChildEnds
<1>4. LineInv'
  BY DEF TypeOK, ShellEnds, ChildEnds, ChildHolds, LineInv, ChildInv, DoneInv, EofInv, BrokenInv, Ended, Shell, Child, Process, Endless
<1>5. ChildInv'
  BY DEF TypeOK, ShellEnds, ChildEnds, ChildHolds, LineInv, ChildInv, DoneInv, EofInv, BrokenInv, Ended, Shell, Child, Process, Endless
<1>6. DoneInv'
  BY DEF TypeOK, ShellEnds, ChildEnds, ChildHolds, LineInv, ChildInv, DoneInv, EofInv, BrokenInv, Ended, Shell, Child, Process, Endless
<1>7. EofInv'
  BY DEF TypeOK, ShellEnds, ChildEnds, ChildHolds, LineInv, ChildInv, DoneInv, EofInv, BrokenInv, Ended, Shell, Child, Process, Endless
<1>8. BrokenInv'
  BY DEF TypeOK, ShellEnds, ChildEnds, ChildHolds, LineInv, ChildInv, DoneInv, EofInv, BrokenInv, Ended, Shell, Child, Process, Endless
<1> QED BY <1>1, <1>2, <1>3, <1>4, <1>5, <1>6, <1>7, <1>8

\* Making the pipe keeps the invariant.
LEMMA PipeStepInv ==
    ASSUME PipeInv, Pipe
    PROVE  PipeInv'
<1> USE LinesAreSeqs, CapacityAssumption DEF PipeInv
<1> USE DEF Pipe
<1>1. TypeOK'
  BY DEF TypeOK, ShellEnds, ChildEnds, ChildHolds, LineInv, ChildInv, DoneInv, EofInv, BrokenInv, Ended, Shell, Child, Process, Endless
<1>2. ShellEnds'
  BY DEF TypeOK, ShellEnds, ChildEnds, ChildHolds, LineInv, ChildInv, DoneInv, EofInv, BrokenInv, Ended, Shell, Child, Process, Endless
<1>3. ChildEnds'
  <2>1. ASSUME NEW j \in Child
        PROVE  ChildHolds(j)'
    <3>1. ChildHolds(j)
      BY DEF ChildEnds
    <3>2. QED
      BY <3>1 DEF TypeOK, ShellEnds, ChildHolds, LineInv, ChildInv, Ended, Shell, Child, Process
  <2>2. QED
    BY <2>1 DEF ChildEnds
<1>4. LineInv'
  BY DEF TypeOK, ShellEnds, ChildEnds, ChildHolds, LineInv, ChildInv, DoneInv, EofInv, BrokenInv, Ended, Shell, Child, Process, Endless
<1>5. ChildInv'
  BY DEF TypeOK, ShellEnds, ChildEnds, ChildHolds, LineInv, ChildInv, DoneInv, EofInv, BrokenInv, Ended, Shell, Child, Process, Endless
<1>6. DoneInv'
  BY DEF TypeOK, ShellEnds, ChildEnds, ChildHolds, LineInv, ChildInv, DoneInv, EofInv, BrokenInv, Ended, Shell, Child, Process, Endless
<1>7. EofInv'
  BY DEF TypeOK, ShellEnds, ChildEnds, ChildHolds, LineInv, ChildInv, DoneInv, EofInv, BrokenInv, Ended, Shell, Child, Process, Endless
<1>8. BrokenInv'
  BY DEF TypeOK, ShellEnds, ChildEnds, ChildHolds, LineInv, ChildInv, DoneInv, EofInv, BrokenInv, Ended, Shell, Child, Process, Endless
<1> QED BY <1>1, <1>2, <1>3, <1>4, <1>5, <1>6, <1>7, <1>8

\* A fork keeps the invariant, whether it fails or not.
LEMMA ForkInv ==
    ASSUME PipeInv, ForkSingle \/ ForkFirst \/ ForkSecond
    PROVE  PipeInv'
<1> USE LinesAreSeqs, CapacityAssumption DEF PipeInv
<1> USE DEF ForkSingle, ForkFirst, ForkSecond, Fork
<1>1. TypeOK'
  BY DEF TypeOK, ShellEnds, ChildEnds, ChildHolds, LineInv, ChildInv, DoneInv, EofInv, BrokenInv, Ended, Shell, Child, Process, Endless
<1>2. ShellEnds'
  BY DEF TypeOK, ShellEnds, ChildEnds, ChildHolds, LineInv, ChildInv, DoneInv, EofInv, BrokenInv, Ended, Shell, Child, Process, Endless
<1>3. ChildEnds'
  <2>1. ASSUME NEW j \in Child
        PROVE  ChildHolds(j)'
    <3>1. ChildHolds(j)
      BY DEF ChildEnds
    <3>2. QED
      BY <3>1 DEF TypeOK, ShellEnds, ChildHolds, LineInv, ChildInv, Ended, Shell, Child, Process
  <2>2. QED
    BY <2>1 DEF ChildEnds
<1>4. LineInv'
  BY DEF TypeOK, ShellEnds, ChildEnds, ChildHolds, LineInv, ChildInv, DoneInv, EofInv, BrokenInv, Ended, Shell, Child, Process, Endless
<1>5. ChildInv'
  BY DEF TypeOK, ShellEnds, ChildEnds, ChildHolds, LineInv, ChildInv, DoneInv, EofInv, BrokenInv, Ended, Shell, Child, Process, Endless
<1>6. DoneInv'
  BY DEF TypeOK, ShellEnds, ChildEnds, ChildHolds, LineInv, ChildInv, DoneInv, EofInv, BrokenInv, Ended, Shell, Child, Process, Endless
<1>7. EofInv'
  BY DEF TypeOK, ShellEnds, ChildEnds, ChildHolds, LineInv, ChildInv, DoneInv, EofInv, BrokenInv, Ended, Shell, Child, Process, Endless
<1>8. BrokenInv'
  BY DEF TypeOK, ShellEnds, ChildEnds, ChildHolds, LineInv, ChildInv, DoneInv, EofInv, BrokenInv, Ended, Shell, Child, Process, Endless
<1> QED BY <1>1, <1>2, <1>3, <1>4, <1>5, <1>6, <1>7, <1>8

\* Closing the shell's ends keeps the invariant.
LEMMA CloseInv ==
    ASSUME PipeInv, CloseRead \/ CloseWrite
    PROVE  PipeInv'
<1> USE LinesAreSeqs, CapacityAssumption DEF PipeInv
<1> USE DEF CloseRead, CloseWrite, Close
<1>1. TypeOK'
  BY DEF TypeOK, ShellEnds, ChildEnds, ChildHolds, LineInv, ChildInv, DoneInv, EofInv, BrokenInv, Ended, Shell, Child, Process, Endless
<1>2. ShellEnds'
  BY DEF TypeOK, ShellEnds, ChildEnds, ChildHolds, LineInv, ChildInv, DoneInv, EofInv, BrokenInv, Ended, Shell, Child, Process, Endless
<1>3. ChildEnds'
  <2>1. ASSUME NEW j \in Child
        PROVE  ChildHolds(j)'
    <3>1. ChildHolds(j)
      BY DEF ChildEnds
    <3>2. QED
      BY <3>1 DEF TypeOK, ShellEnds, ChildHolds, LineInv, ChildInv, Ended, Shell, Child, Process
  <2>2. QED
    BY <2>1 DEF ChildEnds
<1>4. LineInv'
  BY DEF TypeOK, ShellEnds, ChildEnds, ChildHolds, LineInv, ChildInv, DoneInv, EofInv, BrokenInv, Ended, Shell, Child, Process, Endless
<1>5. ChildInv'
  BY DEF TypeOK, ShellEnds, ChildEnds, ChildHolds, LineInv, ChildInv, DoneInv, EofInv, BrokenInv, Ended, Shell, Child, Process, Endless
<1>6. DoneInv'
  BY DEF TypeOK, ShellEnds, ChildEnds, ChildHolds, LineInv, ChildInv, DoneInv, EofInv, BrokenInv, Ended, Shell, Child, Process, Endless
<1>7. EofInv'
  BY DEF TypeOK, ShellEnds, ChildEnds, ChildHolds, LineInv, ChildInv, DoneInv, EofInv, BrokenInv, Ended, Shell, Child, Process, Endless
<1>8. BrokenInv'
  BY DEF TypeOK, ShellEnds, ChildEnds, ChildHolds, LineInv, ChildInv, DoneInv, EofInv, BrokenInv, Ended, Shell, Child, Process, Endless
<1> QED BY <1>1, <1>2, <1>3, <1>4, <1>5, <1>6, <1>7, <1>8

\* A wait keeps the invariant.
LEMMA WaitInv ==
    ASSUME PipeInv, Wait
    PROVE  PipeInv'
<1> USE LinesAreSeqs, CapacityAssumption DEF PipeInv
<1> USE DEF Wait
<1>1. TypeOK'
  BY DEF TypeOK, ShellEnds, ChildEnds, ChildHolds, LineInv, ChildInv, DoneInv, EofInv, BrokenInv, Ended, Shell, Child, Process, Endless
<1>2. ShellEnds'
  BY DEF TypeOK, ShellEnds, ChildEnds, ChildHolds, LineInv, ChildInv, DoneInv, EofInv, BrokenInv, Ended, Shell, Child, Process, Endless
<1>3. ChildEnds'
  <2>1. ASSUME NEW j \in Child
        PROVE  ChildHolds(j)'
    <3>1. ChildHolds(j)
      BY DEF ChildEnds
    <3>2. QED
      BY <3>1 DEF TypeOK, ShellEnds, ChildHolds, LineInv, ChildInv, Ended, Shell, Child, Process
  <2>2. QED
    BY <2>1 DEF ChildEnds
<1>4. LineInv'
  BY DEF TypeOK, ShellEnds, ChildEnds, ChildHolds, LineInv, ChildInv, DoneInv, EofInv, BrokenInv, Ended, Shell, Child, Process, Endless
<1>5. ChildInv'
  BY DEF TypeOK, ShellEnds, ChildEnds, ChildHolds, LineInv, ChildInv, DoneInv, EofInv, BrokenInv, Ended, Shell, Child, Process, Endless
<1>6. DoneInv'
  BY DEF TypeOK, ShellEnds, ChildEnds, ChildHolds, LineInv, ChildInv, DoneInv, EofInv, BrokenInv, Ended, Shell, Child, Process, Endless
<1>7. EofInv'
  BY DEF TypeOK, ShellEnds, ChildEnds, ChildHolds, LineInv, ChildInv, DoneInv, EofInv, BrokenInv, Ended, Shell, Child, Process, Endless
<1>8. BrokenInv'
  BY DEF TypeOK, ShellEnds, ChildEnds, ChildHolds, LineInv, ChildInv, DoneInv, EofInv, BrokenInv, Ended, Shell, Child, Process, Endless
<1> QED BY <1>1, <1>2, <1>3, <1>4, <1>5, <1>6, <1>7, <1>8

\* Redirecting a child's input or output keeps the invariant.
LEMMA RedirectInv ==
    ASSUME PipeInv, NEW k \in Child, Redirect(k)
    PROVE  PipeInv'
<1> USE LinesAreSeqs, CapacityAssumption DEF PipeInv
<1> USE DEF Redirect, Dup
<1>1. TypeOK'
  BY DEF TypeOK, ShellEnds, ChildEnds, ChildHolds, LineInv, ChildInv, DoneInv, EofInv, BrokenInv, Ended, Shell, Child, Process, Endless
<1>2. ShellEnds'
  BY DEF TypeOK, ShellEnds, ChildEnds, ChildHolds, LineInv, ChildInv, DoneInv, EofInv, BrokenInv, Ended, Shell, Child, Process, Endless
<1>3. ChildEnds'
  <2>1. ASSUME NEW j \in Child
        PROVE  ChildHolds(j)'
    <3>1. ChildHolds(j)
      BY DEF ChildEnds
    <3>2. QED
      BY <3>1 DEF TypeOK, ShellEnds, ChildHolds, LineInv, ChildInv, Ended, Shell, Child, Process
  <2>2. QED
    BY <2>1 DEF ChildEnds
<1>4. LineInv'
  BY DEF TypeOK, ShellEnds, ChildEnds, ChildHolds, LineInv, ChildInv, DoneInv, EofInv, BrokenInv, Ended, Shell, Child, Process, Endless
<1>5. ChildInv'
  BY DEF TypeOK, ShellEnds, ChildEnds, ChildHolds, LineInv, ChildInv, DoneInv, EofInv, BrokenInv, Ended, Shell, Child, Process, Endless
<1>6. DoneInv'
  BY DEF TypeOK, ShellEnds, ChildEnds, ChildHolds, LineInv, ChildInv, DoneInv, EofInv, BrokenInv, Ended, Shell, Child, Process, Endless
<1>7. EofInv'
  BY DEF TypeOK, ShellEnds, ChildEnds, ChildHolds, LineInv, ChildInv, DoneInv, EofInv, BrokenInv, Ended, Shell, Child, Process, Endless
<1>8. BrokenInv'
  BY DEF TypeOK, ShellEnds, ChildEnds, ChildHolds, LineInv, ChildInv, DoneInv, EofInv, BrokenInv, Ended, Shell, Child, Process, Endless
<1> QED BY <1>1, <1>2, <1>3, <1>4, <1>5, <1>6, <1>7, <1>8

\* An execv keeps the invariant, whether it fails or not.
LEMMA ExecInv ==
    ASSUME PipeInv, NEW k \in Child, Exec(k)
    PROVE  PipeInv'
<1> USE LinesAreSeqs, CapacityAssumption DEF PipeInv
<1> USE DEF Exec, Exit
<1>1. TypeOK'
  <2>1. line[k] \in Installed => Work[line[k]] \in Nat \cup {Endless}
    BY LinesAssumption
  <2>2. left' \in [Child -> Nat \cup {Endless}]
    BY <2>1 DEF TypeOK
  <2>3. /\ child' \in [Child -> {"none", "forked", "joined", "running", "zombie"}]
        /\ ends' \in [Process -> SUBSET {"fd0", "fd1", "in", "out"}]
    BY DEF TypeOK, Process
  <2>4. QED
    BY <2>2, <2>3 DEF TypeOK
<1>2. ShellEnds'
  BY DEF TypeOK, ShellEnds, ChildEnds, ChildHolds, LineInv, ChildInv, DoneInv, EofInv, BrokenInv, Ended, Shell, Child, Process, Endless
<1>3. ChildEnds'
  <2>1. ASSUME NEW j \in Child
        PROVE  ChildHolds(j)'
    <3>1. ChildHolds(j)
      BY DEF ChildEnds
    <3>2. QED
      BY <3>1 DEF TypeOK, ShellEnds, ChildHolds, LineInv, ChildInv, Ended, Shell, Child, Process
  <2>2. QED
    BY <2>1 DEF ChildEnds
<1>4. LineInv'
  BY DEF TypeOK, ShellEnds, ChildEnds, ChildHolds, LineInv, ChildInv, DoneInv, EofInv, BrokenInv, Ended, Shell, Child, Process, Endless
<1>5. ChildInv'
  BY DEF TypeOK, ShellEnds, ChildEnds, ChildHolds, LineInv, ChildInv, DoneInv, EofInv, BrokenInv, Ended, Shell, Child, Process, Endless
<1>6. DoneInv'
  BY DEF TypeOK, ShellEnds, ChildEnds, ChildHolds, LineInv, ChildInv, DoneInv, EofInv, BrokenInv, Ended, Shell, Child, Process, Endless
<1>7. EofInv'
  BY DEF TypeOK, ShellEnds, ChildEnds, ChildHolds, LineInv, ChildInv, DoneInv, EofInv, BrokenInv, Ended, Shell, Child, Process, Endless
<1>8. BrokenInv'
  BY DEF TypeOK, ShellEnds, ChildEnds, ChildHolds, LineInv, ChildInv, DoneInv, EofInv, BrokenInv, Ended, Shell, Child, Process, Endless
<1> QED BY <1>1, <1>2, <1>3, <1>4, <1>5, <1>6, <1>7, <1>8

\* A write to the pipe, or the SIGPIPE it gets, keeps the invariant.
LEMMA OutputInv ==
    ASSUME PipeInv, NEW k \in Child, Output(k)
    PROVE  PipeInv'
<1> USE LinesAreSeqs, CapacityAssumption DEF PipeInv
<1> USE DEF Output, Exit, Working, Progress, Readers
<1>1. TypeOK'
  <2>1. left' \in [Child -> Nat \cup {Endless}]
    <3>1. left[k] \in Nat \cup {Endless}
      BY DEF TypeOK
    <3>2. (IF left[k] = Endless THEN left[k] ELSE left[k] - 1) \in Nat \cup {Endless}
      BY <3>1 DEF Endless
    <3>3. QED
      BY <3>2 DEF TypeOK
  <2>2. /\ child' \in [Child -> {"none", "forked", "joined", "running", "zombie"}]
        /\ ends' \in [Process -> SUBSET {"fd0", "fd1", "in", "out"}]
    BY DEF TypeOK, Process
  <2>3. buf' \in 0..Capacity
    BY DEF TypeOK
  <2>4. QED
    BY <2>1, <2>2, <2>3 DEF TypeOK
<1>2. ShellEnds'
  BY DEF TypeOK, ShellEnds, ChildEnds, ChildHolds, LineInv, ChildInv, DoneInv, EofInv, BrokenInv, Ended, Shell, Child, Process, Endless
<1>3. ChildEnds'
  <2>1. ASSUME NEW j \in Child
        PROVE  ChildHolds(j)'
    <3>1. ChildHolds(j)
      BY DEF ChildEnds
    <3>2. QED
      BY <3>1 DEF TypeOK, ShellEnds, ChildHolds, LineInv, ChildInv, Ended, Shell, Child, Process
  <2>2. QED
    BY <2>1 DEF ChildEnds
<1>4. LineInv'
  BY DEF TypeOK, ShellEnds, ChildEnds, ChildHolds, LineInv, ChildInv, DoneInv, EofInv, BrokenInv, Ended, Shell, Child, Process, Endless
<1>5. ChildInv'
  BY DEF TypeOK, ShellEnds, ChildEnds, ChildHolds, LineInv, ChildInv, DoneInv, EofInv, BrokenInv, Ended, Shell, Child, Process, Endless
<1>6. DoneInv'
  BY DEF TypeOK, ShellEnds, ChildEnds, ChildHolds, LineInv, ChildInv, DoneInv, EofInv, BrokenInv, Ended, Shell, Child, Process, Endless
<1>7. EofInv'
  BY DEF TypeOK, ShellEnds, ChildEnds, ChildHolds, LineInv, ChildInv, DoneInv, EofInv, BrokenInv, Ended, Shell, Child, Process, Endless
<1>8. BrokenInv'
  BY DEF TypeOK, ShellEnds, ChildEnds, ChildHolds, LineInv, ChildInv, DoneInv, EofInv, BrokenInv, Ended, Shell, Child, Process, Endless
<1> QED BY <1>1, <1>2, <1>3, <1>4, <1>5, <1>6, <1>7, <1>8

\* A read from the pipe, or the end of file it gets, keeps the invariant.
LEMMA InputInv ==
    ASSUME PipeInv, NEW k \in Child, Input(k)
    PROVE  PipeInv'
<1> USE LinesAreSeqs, CapacityAssumption DEF PipeInv
<1> USE DEF Input, Exit, Working, Progress, Writers
<1>1. TypeOK'
  <2>1. left' \in [Child -> Nat \cup {Endless}]
    <3>1. left[k] \in Nat \cup {Endless}
      BY DEF TypeOK
    <3>2. (IF left[k] = Endless THEN left[k] ELSE left[k] - 1) \in Nat \cup {Endless}
      BY <3>1 DEF Endless
    <3>3. QED
      BY <3>2 DEF TypeOK
  <2>2. /\ child' \in [Child -> {"none", "forked", "joined", "running", "zombie"}]
        /\ ends' \in [Process -> SUBSET {"fd0", "fd1", "in", "out"}]
    BY DEF TypeOK, Process
  <2>3. buf' \in 0..Capacity
    BY DEF TypeOK
  <2>4. QED
    BY <2>1, <2>2, <2>3 DEF TypeOK
<1>2. ShellEnds'
  BY DEF TypeOK, ShellEnds, ChildEnds, ChildHolds, LineInv, ChildInv, DoneInv, EofInv, BrokenInv, Ended, Shell, Child, Process, Endless
<1>3. ChildEnds'
  <2>1. ASSUME NEW j \in Child
        PROVE  ChildHolds(j)'
    <3>1. ChildHolds(j)
      BY DEF ChildEnds
    <3>2. QED
      BY <3>1 DEF TypeOK, ShellEnds, ChildHolds, LineInv, ChildInv, Ended, Shell, Child, Process
  <2>2. QED
    BY <2>1 DEF ChildEnds
<1>4. LineInv'
  BY DEF TypeOK, ShellEnds, ChildEnds, ChildHolds, LineInv, ChildInv, DoneInv, EofInv, BrokenInv, Ended, Shell, Child, Process, Endless
<1>5. ChildInv'
  BY DEF TypeOK, ShellEnds, ChildEnds, ChildHolds, LineInv, ChildInv, DoneInv, EofInv, BrokenInv, Ended, Shell, Child, Process, Endless
<1>6. DoneInv'
  BY DEF TypeOK, ShellEnds, ChildEnds, ChildHolds, LineInv, ChildInv, DoneInv, EofInv, BrokenInv, Ended, Shell, Child, Process, Endless
<1>7. EofInv'
  BY DEF TypeOK, ShellEnds, ChildEnds, ChildHolds, LineInv, ChildInv, DoneInv, EofInv, BrokenInv, Ended, Shell, Child, Process, Endless
<1>8. BrokenInv'
  BY DEF TypeOK, ShellEnds, ChildEnds, ChildHolds, LineInv, ChildInv, DoneInv, EofInv, BrokenInv, Ended, Shell, Child, Process, Endless
<1> QED BY <1>1, <1>2, <1>3, <1>4, <1>5, <1>6, <1>7, <1>8

\* Work outside the pipe keeps the invariant.
LEMMA TerminalInv ==
    ASSUME PipeInv, NEW k \in Child, Terminal(k)
    PROVE  PipeInv'
<1> USE LinesAreSeqs, CapacityAssumption DEF PipeInv
<1> USE DEF Terminal, Working, Progress
<1>1. TypeOK'
  BY DEF TypeOK, ShellEnds, ChildEnds, ChildHolds, LineInv, ChildInv, DoneInv, EofInv, BrokenInv, Ended, Shell, Child, Process, Endless
<1>2. ShellEnds'
  BY DEF TypeOK, ShellEnds, ChildEnds, ChildHolds, LineInv, ChildInv, DoneInv, EofInv, BrokenInv, Ended, Shell, Child, Process, Endless
<1>3. ChildEnds'
  <2>1. ASSUME NEW j \in Child
        PROVE  ChildHolds(j)'
    <3>1. ChildHolds(j)
      BY DEF ChildEnds
    <3>2. QED
      BY <3>1 DEF TypeOK, ShellEnds, ChildHolds, LineInv, ChildInv, Ended, Shell, Child, Process
  <2>2. QED
    BY <2>1 DEF ChildEnds
<1>4. LineInv'
  BY DEF TypeOK, ShellEnds, ChildEnds, ChildHolds, LineInv, ChildInv, DoneInv, EofInv, BrokenInv, Ended, Shell, Child, Process, Endless
<1>5. ChildInv'
  BY DEF TypeOK, ShellEnds, ChildEnds, ChildHolds, LineInv, ChildInv, DoneInv, EofInv, BrokenInv, Ended, Shell, Child, Process, Endless
<1>6. DoneInv'
  BY DEF TypeOK, ShellEnds, ChildEnds, ChildHolds, LineInv, ChildInv, DoneInv, EofInv, BrokenInv, Ended, Shell, Child, Process, Endless
<1>7. EofInv'
  BY DEF TypeOK, ShellEnds, ChildEnds, ChildHolds, LineInv, ChildInv, DoneInv, EofInv, BrokenInv, Ended, Shell, Child, Process, Endless
<1>8. BrokenInv'
  BY DEF TypeOK, ShellEnds, ChildEnds, ChildHolds, LineInv, ChildInv, DoneInv, EofInv, BrokenInv, Ended, Shell, Child, Process, Endless
<1> QED BY <1>1, <1>2, <1>3, <1>4, <1>5, <1>6, <1>7, <1>8

\* The end of a command keeps the invariant.
LEMMA FinishInv ==
    ASSUME PipeInv, NEW k \in Child, Finish(k)
    PROVE  PipeInv'
<1> USE LinesAreSeqs, CapacityAssumption DEF PipeInv
<1> USE DEF Finish, Exit
<1>1. TypeOK'
  BY DEF TypeOK, ShellEnds, ChildEnds, ChildHolds, LineInv, ChildInv, DoneInv, EofInv, BrokenInv, Ended, Shell, Child, Process, Endless
<1>2. ShellEnds'
  BY DEF TypeOK, ShellEnds, ChildEnds, ChildHolds, LineInv, ChildInv, DoneInv, EofInv, BrokenInv, Ended, Shell, Child, Process, Endless
<1>3. ChildEnds'
  <2>1. ASSUME NEW j \in Child
        PROVE  ChildHolds(j)'
    <3>1. ChildHolds(j)
      BY DEF ChildEnds
    <3>2. QED
      BY <3>1 DEF TypeOK, ShellEnds, ChildHolds, LineInv, ChildInv, Ended, Shell, Child, Process
  <2>2. QED
    BY <2>1 DEF ChildEnds
<1>4. LineInv'
  BY DEF TypeOK, ShellEnds, ChildEnds, ChildHolds, LineInv, ChildInv, DoneInv, EofInv, BrokenInv, Ended, Shell, Child, Process, Endless
<1>5. ChildInv'
  BY DEF TypeOK, ShellEnds, ChildEnds, ChildHolds, LineInv, ChildInv, DoneInv, EofInv, BrokenInv, Ended, Shell, Child, Process, Endless
<1>6. DoneInv'
  BY DEF TypeOK, ShellEnds, ChildEnds, ChildHolds, LineInv, ChildInv, DoneInv, EofInv, BrokenInv, Ended, Shell, Child, Process, Endless
<1>7. EofInv'
  BY DEF TypeOK, ShellEnds, ChildEnds, ChildHolds, LineInv, ChildInv, DoneInv, EofInv, BrokenInv, Ended, Shell, Child, Process, Endless
<1>8. BrokenInv'
  BY DEF TypeOK, ShellEnds, ChildEnds, ChildHolds, LineInv, ChildInv, DoneInv, EofInv, BrokenInv, Ended, Shell, Child, Process, Endless
<1> QED BY <1>1, <1>2, <1>3, <1>4, <1>5, <1>6, <1>7, <1>8
-----------------------------------------------------------------------------
\* The invariant holds at the start.
LEMMA InitInv == Init => PipeInv
<1> SUFFICES ASSUME Init
             PROVE  PipeInv
  OBVIOUS
<1>1. TypeOK
  <2>1. child \in [Child -> {"none", "forked", "joined", "running", "zombie"}]
    BY DEF Init
  <2>2. left \in [Child -> Nat \cup {Endless}]
    BY DEF Init
  <2>3. ends \in [Process -> SUBSET {"fd0", "fd1", "in", "out"}]
    BY DEF Init
  <2>4. buf \in 0..Capacity
    BY CapacityAssumption DEF Init
  <2>5. QED
    BY <2>1, <2>2, <2>3, <2>4 DEF Init, TypeOK
<1>2. ShellEnds /\ LineInv /\ ChildInv /\ DoneInv /\ EofInv /\ BrokenInv
  BY DEF Init, ShellEnds, LineInv, ChildInv, DoneInv, EofInv, BrokenInv, Shell, Child, Process
<1>3. ChildEnds
  BY DEF Init, ChildEnds, ChildHolds, Shell, Child, Process
<1>4. QED
  BY <1>1, <1>2, <1>3 DEF PipeInv

\* Every step keeps it.
LEMMA NextInv == PipeInv /\ [Next]_vars => PipeInv'
<1> SUFFICES ASSUME PipeInv, [Next]_vars
             PROVE  PipeInv'
  OBVIOUS
<1>1. CASE UNCHANGED vars
  BY <1>1 DEF vars, PipeInv, TypeOK, ShellEnds, ChildEnds, ChildHolds, LineInv,
              ChildInv, DoneInv, EofInv, BrokenInv, Ended
<1>2. ASSUME ShellStep
      PROVE  PipeInv'
  BY <1>2, PipeStepInv, ForkInv, CloseInv, WaitInv DEF ShellStep
<1>3. ASSUME NEW l \in Lines, ReadLine(l)
      PROVE  PipeInv'
  BY <1>3, ReadLineInv
<1>4. ASSUME NEW k \in Child, ChildStep(k)
      PROVE  PipeInv'
  BY <1>4, RedirectInv, ExecInv, OutputInv, InputInv, TerminalInv, FinishInv
     DEF ChildStep
<1>5. QED
  BY <1>1, <1>2, <1>3, <1>4 DEF Next

\* The ends of the pipe that each process of the shell holds are those its
\* step says, in every state, whichever forks, execs and pipes fail.
THEOREM ShellPipeInvariant == Spec => []PipeInv
<1>1. QED
  BY InitInv, NextInv, PTL DEF Spec

\* Every variable keeps its type.
THEOREM ShellPipeTyped == Spec => []TypeOK
<1>1. PipeInv => TypeOK
  BY DEF PipeInv
<1>2. QED
  BY <1>1, ShellPipeInvariant, PTL

\* The shell comes back to its prompt with no child and no end of a pipe left.
THEOREM PromptIsClean == Spec => []CleanPrompt
<1>1. PipeInv => CleanPrompt
  <2> SUFFICES ASSUME PipeInv, shell = "prompt"
               PROVE  /\ \A k \in Child : child[k] = "none"
                      /\ \A p \in Process : ends[p] = {}
    BY DEF CleanPrompt, Readers, Writers
  <2>1. \A k \in Child : child[k] = "none"
    BY DEF PipeInv, ChildInv, Child
  <2>2. \A k \in Child : ends[k] = {}
    BY <2>1 DEF PipeInv, ChildEnds, ChildHolds, Ended
  <2>3. ends[Shell] = {}
    BY DEF PipeInv, ShellEnds
  <2>4. QED
    BY <2>1, <2>2, <2>3 DEF Process
<1>2. QED
  BY <1>1, ShellPipeInvariant, PTL

\* The end of file comes after all that the first command has written, and the
\* first command has then done all its work and ended.
THEOREM InputIsWhole == Spec => []WholeInput
<1>1. PipeInv => WholeInput
  BY DEF PipeInv, EofInv, WholeInput, Ended, Alive
<1>2. QED
  BY <1>1, ShellPipeInvariant, PTL

\* SIGPIPE never comes because the first command was there before the second.
THEOREM SigpipeIsNotEarly == Spec => []NoEarlySigpipe
<1>1. PipeInv => NoEarlySigpipe
  BY DEF PipeInv, BrokenInv, NoEarlySigpipe, Ended, Alive
<1>2. QED
  BY <1>1, ShellPipeInvariant, PTL
=============================================================================
