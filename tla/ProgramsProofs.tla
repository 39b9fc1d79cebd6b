--------------------------- MODULE ProgramsProofs ---------------------------
(***************************************************************************)
(* Proofs about Programs: for each group of small programs, the inductive  *)
(* invariant that its property rests on, for any words, lines, texts,      *)
(* modes and sizes.                                                        *)
(*                                                                         *)
(* A step of one group leaves the variables of the others alone (Apart),   *)
(* so each invariant is proved against the steps of its own group.         *)
(***************************************************************************)
EXTENDS Programs, SequenceTheorems, TLAPS

\* A step is one of a group's programs, or leaves their variables alone.
LEMMA Apart ==
    [Next]_vars => /\ F!ForkNext \/ UNCHANGED forkVars
                   /\ P!PipeNext \/ UNCHANGED pipeVars
                   /\ S!ShellNext \/ UNCHANGED shellVars
                   /\ M!ShmNext \/ UNCHANGED shmVars
                   /\ G!SignalNext \/ UNCHANGED signalVars
                   /\ T!ThreadNext \/ UNCHANGED threadVars
                   /\ L!Next \/ UNCHANGED listVars
                   /\ K!FileNext \/ UNCHANGED maskVars
<1>1. CASE UNCHANGED vars
  BY <1>1 DEF vars
<1>2. CASE Next
  BY <1>2 DEF Next, Alone
<1>3. QED
  BY <1>1, <1>2

-----------------------------------------------------------------------------
(***************************************************************************)
(* ForkPrograms and ThreadPrograms: who waits ends last.                   *)
(***************************************************************************)
\* What wait.c and zombie.c do.
Steps == {"fork", "print", "sleep", "wait"}

\* The steps of wait.c and zombie.c that are left: the last two are always the
\* wait and the print.
Waiting(r) ==
    /\ r \in Seq(Steps) /\ Len(r) <= 4
    /\ Len(r) >= 1 => r[Len(r)] = "print"
    /\ Len(r) >= 2 => r[Len(r) - 1] = "wait"
    /\ Len(r) >= 3 => r[Len(r) - 2] \in {"print", "sleep"}
    /\ Len(r) = 4 => r[1] = "fork"

\* What is true with k steps left.
WaitInv(k) ==
    /\ status[F!Parent] = "gone" => k = 0
    /\ k = 4 => status[F!Child] = "none"
    /\ k \in {0, 1} => status[F!Child] \in {"none", "gone"}
    /\ k = 0 => out # <<>> /\ out[Len(out)] = F!Parent

\* No child before the fork, none left after the wait; the parent prints after
\* it and nobody prints after the parent.
ParentInv ==
    /\ DOMAIN rest = {F!Parent, F!Child}
    /\ status \in [{F!Parent, F!Child} -> {"none", "run", "zombie", "gone"}]
    /\ out \in Seq({F!Parent, F!Child})
    /\ status[F!Parent] = "none" => status[F!Child] = "none" /\ script = "none"
    /\ script \in {"wait", "zombie"} /\ F!Parent \notin killed =>
         /\ Waiting(rest[F!Parent])
         /\ WaitInv(Len(rest[F!Parent]))

\* The worker's last steps come after its work is complete; main is over only
\* when the worker is.
WorkerInv ==
    /\ main \in {"off", "create", "create input"} => worker = "none"
    /\ worker \in {"print", "return", "ended"} => flag = 1 \/ count = Total
    /\ worker \in {"return", "ended"} => done
    /\ main = "ended" => worker \in {"none", "ended"}

\* The steps that are left fit in four places.
LEMMA WaitingLength ==
    ASSUME NEW r, Waiting(r)
    PROVE  /\ r \in Seq(Steps) /\ Len(r) \in Nat /\ Len(r) <= 4
           /\ r = <<>> => Len(r) = 0
           /\ r # <<>> => Len(r) > 0
<1>1. r \in Seq(Steps) /\ Len(r) <= 4
  BY DEF Waiting
<1>2. Len(r) \in Nat
  BY <1>1, LenProperties
<1>3. r = <<>> => Len(r) = 0
  BY <1>1, EmptySeq
<1>4. r # <<>> => Len(r) > 0
  BY <1>1, <1>2, EmptySeq
<1>5. QED
  BY <1>1, <1>2, <1>3, <1>4

\* What a step takes from the steps that are left says how many they were.
LEMMA WaitingTail ==
    ASSUME NEW r, Waiting(r), r # <<>>
    PROVE  /\ Waiting(Tail(r))
           /\ Head(r) = "fork" => Len(r) = 4 /\ Len(Tail(r)) = 3
           /\ Head(r) = "sleep" => Len(r) = 3 /\ Len(Tail(r)) = 2
           /\ Head(r) = "wait" => Len(r) = 2 /\ Len(Tail(r)) = 1
           /\ Head(r) = "print" => \/ Len(r) = 3 /\ Len(Tail(r)) = 2
                                   \/ Len(r) = 1 /\ Len(Tail(r)) = 0
           /\ Head(r) \notin {"getchar", "exec"}
<1>1. r \in Seq(Steps) /\ Len(r) \in Nat /\ Len(r) > 0 /\ Len(r) <= 4
  BY WaitingLength
<1>2. /\ Tail(r) \in Seq(Steps) /\ Len(Tail(r)) = Len(r) - 1
      /\ \A i \in 1..(Len(r) - 1) : Tail(r)[i] = r[i + 1]
  BY <1>1, HeadTailProperties
<1>3. Head(r) = r[1]
  BY <1>1
<1>4. Waiting(Tail(r))
  <2> DEFINE t == Tail(r)
  <2>1. Len(t) <= 4 /\ Len(t) # 4
    <3>1. Len(t) = Len(r) - 1
      BY <1>2
    <3>2. QED
      BY <1>1, <3>1
  <2>2. Len(t) >= 1 => t[Len(t)] = "print"
    BY <1>1, <1>2 DEF Waiting
  <2>3. Len(t) >= 2 => t[Len(t) - 1] = "wait"
    BY <1>1, <1>2 DEF Waiting
  <2>4. Len(t) >= 3 => t[Len(t) - 2] \in {"print", "sleep"}
    BY <1>1, <1>2 DEF Waiting
  <2>5. Waiting(t)
    BY <1>2, <2>1, <2>2, <2>3, <2>4, Zenon DEF Waiting, t
  <2>6. QED
    BY <2>5
<1>5. Len(Tail(r)) = Len(r) - 1
  BY <1>2
<1>6. \/ Len(r) = 1 /\ Head(r) = "print"
      \/ Len(r) = 2 /\ Head(r) = "wait"
      \/ Len(r) = 3 /\ Head(r) \in {"print", "sleep"}
      \/ Len(r) = 4 /\ Head(r) = "fork"
  <2>1. CASE Len(r) = 1
    BY <1>1, <1>3, <2>1 DEF Waiting
  <2>2. CASE Len(r) = 2
    BY <1>1, <1>3, <2>2 DEF Waiting
  <2>3. CASE Len(r) = 3
    BY <1>1, <1>3, <2>3 DEF Waiting
  <2>4. CASE Len(r) = 4
    BY <1>1, <1>3, <2>4 DEF Waiting
  <2>5. \E k \in Nat : k = Len(r)
    BY <1>1
  <2>6. QED
    BY <1>1, <2>1, <2>2, <2>3, <2>4, <2>5
<1>7. QED
  BY <1>4, <1>5, <1>6

\* The scripts of wait.c and zombie.c.
LEMMA WaitingScripts ==
    \A s \in {"wait", "zombie"} : Waiting(F!Script[s].parent) /\ Len(F!Script[s].parent) = 4
<1>1. /\ <<"fork", "print", "wait", "print">> \in Seq(Steps)
      /\ <<"fork", "sleep", "wait", "print">> \in Seq(Steps)
  BY DEF Steps
<1>2. /\ Waiting(<<"fork", "print", "wait", "print">>)
      /\ Waiting(<<"fork", "sleep", "wait", "print">>)
  BY <1>1 DEF Waiting
<1>3. /\ F!Script["wait"].parent = <<"fork", "print", "wait", "print">>
      /\ F!Script["zombie"].parent = <<"fork", "sleep", "wait", "print">>
  BY DEF F!Script, F!WaitC, F!Zombie
<1>4. QED
  BY <1>2, <1>3

\* ParentInv is inductive.
LEMMA ParentKept ==
    /\ Init => ParentInv
    /\ ParentInv /\ (F!ForkNext \/ UNCHANGED forkVars) => ParentInv'
<1> USE DEF ParentInv, WaitInv, F!Parent, F!Child
<1> DEFINE Ours == script \in {"wait", "zombie"} /\ "parent" \notin killed
<1>1. Init => ParentInv
  BY EmptySeq DEF Init, F!ForkInit
<1>2. ASSUME ParentInv, NEW s \in DOMAIN F!Script, F!StartScript(s)
      PROVE  ParentInv'
  <2>1. s \in {"wait", "zombie"} => Waiting(rest'["parent"]) /\ Len(rest'["parent"]) = 4
    BY <1>2, WaitingScripts DEF F!StartScript
  <2>2. Waiting(rest'["parent"]) /\ Len(rest'["parent"]) = 4 => rest'["parent"] # <<>>
    BY EmptySeq
  <2>3. s # "none"
    BY DEF F!Script
  <2>4. QED
    BY <1>2, <2>1, <2>2, <2>3 DEF F!StartScript
<1> DEFINE r == rest["parent"]
<1>3. ASSUME ParentInv, Ours, r # <<>>
      PROVE  /\ Waiting(Tail(r))
             /\ Head(r) = "fork" => Len(r) = 4 /\ Len(Tail(r)) = 3
             /\ Head(r) = "sleep" => Len(r) = 3 /\ Len(Tail(r)) = 2
             /\ Head(r) = "wait" => Len(r) = 2 /\ Len(Tail(r)) = 1
             /\ Head(r) = "print" => \/ Len(r) = 3 /\ Len(Tail(r)) = 2
                                     \/ Len(r) = 1 /\ Len(Tail(r)) = 0
             /\ Head(r) \notin {"getchar", "exec"}
  BY <1>3, WaitingTail
<1>4. ASSUME ParentInv, F!Fork
      PROVE  ParentInv'
  <2>1. /\ r # <<>> /\ Head(r) = "fork" /\ status["parent"] = "run"
        /\ DOMAIN rest' = {"parent", "child"} /\ rest'["parent"] = Tail(r)
        /\ UNCHANGED <<script, out, killed>> /\ status'["parent"] = "run"
        /\ status' \in [{"parent", "child"} -> {"none", "run", "zombie", "gone"}]
    BY <1>4 DEF F!Fork, F!Advance, F!At
  <2>2. Ours => Len(r) = 4 /\ Len(Tail(r)) = 3 /\ Waiting(Tail(r))
    BY <1>3, <1>4, <2>1
  <2>3. Ours' => Waiting(rest["parent"])' /\ Len(rest["parent"])' = 3
    BY <2>1, <2>2
  <2>4. Ours' => WaitInv(3)'
    BY <1>4, <2>1, <2>2
  <2>5. QED
    BY <1>4, <2>1, <2>3, <2>4
<1>5. ASSUME ParentInv, F!PrintLine("parent")
      PROVE  ParentInv'
  <2>1. out' \in Seq({"parent", "child"}) /\ out' # <<>> /\ out'[Len(out')] = "parent"
    BY <1>5, AppendProperties DEF F!PrintLine
  <2>2. QED
    <3>1. /\ r # <<>> /\ Head(r) = "print" /\ DOMAIN rest' = {"parent", "child"}
          /\ rest'["parent"] = Tail(r) /\ UNCHANGED <<script, status, killed>>
          /\ status["parent"] = "run"
      BY <1>5 DEF F!PrintLine, F!Advance, F!At
    <3>2. Ours => /\ Waiting(Tail(r))
                  /\ \/ Len(r) = 3 /\ Len(Tail(r)) = 2
                     \/ Len(r) = 1 /\ Len(Tail(r)) = 0
      BY <1>3, <1>5, <3>1
    <3>3. Ours' => /\ Waiting(rest["parent"])'
                   /\ Len(rest["parent"])' = 2 \/ Len(rest["parent"])' = 0
      BY <3>1, <3>2
    <3>4. Ours' => WaitInv(2)' /\ (Len(rest["parent"])' = 0 => WaitInv(0)')
      <4>1. Ours' /\ Len(r) = 1 => status["child"] \in {"none", "gone"}
        BY <1>5, <3>1
      <4>2. Ours' /\ Len(rest["parent"])' = 0 => Len(r) = 1
        BY <3>1, <3>2
      <4>3. QED
        BY <1>5, <2>1, <3>1, <4>1, <4>2
    <3>5. QED
      BY <1>5, <2>1, <3>1, <3>3, <3>4
<1>6. ASSUME ParentInv, F!PrintLine("child")
      PROVE  ParentInv'
  <2>1. out' \in Seq({"parent", "child"})
    BY <1>6, AppendProperties DEF F!PrintLine
  <2>2. /\ DOMAIN rest' = {"parent", "child"} /\ rest'["parent"] = rest["parent"]
        /\ UNCHANGED <<script, status, killed>> /\ status["child"] = "run"
    BY <1>6 DEF F!PrintLine, F!Advance, F!At
  <2>3. Ours => ~(Len(r) \in {0, 1})
    BY <1>6, <2>2
  <2>4. QED
    BY <1>6, <2>1, <2>2, <2>3
<1>7. ASSUME ParentInv, F!Sleep("parent") \/ F!Getchar
      PROVE  ParentInv'
  <2>1. /\ r # <<>> /\ Head(r) \in {"sleep", "getchar"} /\ DOMAIN rest' = {"parent", "child"}
        /\ rest'["parent"] = Tail(r) /\ UNCHANGED <<script, status, out, killed>>
        /\ status["parent"] = "run"
    BY <1>7 DEF F!Sleep, F!Getchar, F!Advance, F!At
  <2>2. Ours => Len(r) = 3 /\ Len(Tail(r)) = 2 /\ Waiting(Tail(r))
    BY <1>3, <1>7, <2>1
  <2>3. Ours' => Waiting(rest["parent"])' /\ Len(rest["parent"])' = 2
    BY <2>1, <2>2
  <2>4. Ours' => WaitInv(2)'
    BY <1>7, <2>1, <2>2
  <2>5. QED
    BY <1>7, <2>1, <2>3, <2>4
<1>8. ASSUME ParentInv, F!Sleep("child")
      PROVE  ParentInv'
  BY <1>8 DEF F!Sleep, F!Advance, F!At
<1>9. ASSUME ParentInv, F!Wait
      PROVE  ParentInv'
  <2>1. /\ r # <<>> /\ Head(r) = "wait" /\ DOMAIN rest' = {"parent", "child"}
        /\ rest'["parent"] = Tail(r) /\ UNCHANGED <<script, out, killed>>
        /\ status["parent"] = "run" /\ status'["parent"] = "run"
        /\ status' \in [{"parent", "child"} -> {"none", "run", "zombie", "gone"}]
        /\ status'["child"] \in {"none", "gone"}
    BY <1>9 DEF F!Wait, F!Advance, F!At
  <2>2. Ours => Len(r) = 2 /\ Len(Tail(r)) = 1 /\ Waiting(Tail(r))
    BY <1>3, <1>9, <2>1
  <2>3. Ours' => Waiting(rest["parent"])' /\ Len(rest["parent"])' = 1
    BY <2>1, <2>2
  <2>4. Ours' => WaitInv(1)'
    BY <1>9, <2>1, <2>2
  <2>5. QED
    BY <1>9, <2>1, <2>3, <2>4
<1>10. ASSUME ParentInv, F!Exec
       PROVE  ParentInv'
  <2>1. /\ r # <<>> /\ Head(r) = "exec" /\ DOMAIN rest' = {"parent", "child"}
        /\ UNCHANGED <<script, status, out, killed>> /\ status["parent"] = "run"
    BY <1>10 DEF F!Exec, F!Advance, F!At
  <2>2. ~Ours
    BY <1>3, <1>10, <2>1
  <2>3. QED
    BY <1>10, <2>1, <2>2
<1>11. Len(<<>>) = 0
  BY EmptySeq
<1>12. ASSUME ParentInv, F!Exit("parent") \/ F!Kill("parent")
       PROVE  ParentInv'
  BY <1>11, <1>12 DEF F!Exit, F!Kill, F!End
<1>13. ASSUME ParentInv, F!Exit("child") \/ F!Kill("child")
       PROVE  ParentInv'
  BY <1>11, <1>13 DEF F!Exit, F!Kill, F!End
<1>14. ASSUME ParentInv, UNCHANGED forkVars
       PROVE  ParentInv'
  BY <1>14 DEF forkVars
<1>15. QED
  BY <1>1, <1>2, <1>4, <1>5, <1>6, <1>7, <1>8, <1>9, <1>10, <1>12, <1>13, <1>14
     DEF F!ForkNext, F!ProcessStep

\* WorkerInv is inductive.
LEMMA WorkerKept ==
    /\ Init => WorkerInv
    /\ WorkerInv /\ (T!ThreadNext \/ UNCHANGED threadVars) => WorkerInv'
<1> USE DEF WorkerInv
<1>1. Init => WorkerInv
  BY DEF Init, T!ThreadInit
<1>2. ASSUME WorkerInv, T!MainStep \/ \E first \in {"create", "create input"} : T!StartMain(first)
      PROVE  WorkerInv'
  BY <1>2 DEF T!StartMain, T!MainStep, T!CreateProcessing, T!Poll, T!CreateInput,
              T!CreateQuery, T!Join
<1>3. ASSUME WorkerInv, T!WorkerStep
      PROVE  WorkerInv'
  BY <1>3, BoundsAssumption DEF T!WorkerStep, T!SetFlag, T!Increment, T!EndLoops, T!PrintDone,
              T!Return, T!Running
<1>4. ASSUME WorkerInv, T!KeyPressed \/ T!ShowCount \/ UNCHANGED threadVars
      PROVE  WorkerInv'
  BY <1>4 DEF T!KeyPressed, T!ShowCount, threadVars
<1>5. QED
  BY <1>1, <1>2, <1>3, <1>4 DEF T!ThreadNext

\* The parent of wait.c and zombie.c ends with its child reaped and its line
\* out, and main of the thread programs after its worker's last line, for any
\* number of increments.
THEOREM WaiterLastAlways == Spec => []WaiterLast
<1>1. ParentInv /\ WorkerInv /\ [Next]_vars => ParentInv' /\ WorkerInv'
  BY ParentKept, WorkerKept, Apart
<1>2. ParentInv => F!ParentLast
  BY DEF ParentInv, WaitInv, F!ParentLast, F!Parent, F!Child
<1>3. WorkerInv => T!DoneBeforeEnd
  BY DEF WorkerInv, T!DoneBeforeEnd
<1>4. ParentInv /\ WorkerInv => WaiterLast
  BY <1>2, <1>3 DEF WaiterLast
<1>5. QED
  BY <1>1, <1>4, ParentKept, WorkerKept, PTL DEF Spec

-----------------------------------------------------------------------------
(***************************************************************************)
(* PipeParentChild: what is in the pipe, and who can take it.              *)
(***************************************************************************)
\* The message in the pipe at each step of the two (Holds), and what the end of
\* the child tells of it (Left): nothing, if it was killed.
Left(how) ==
    \/ how = "exit 0" /\ pipe = <<"answer">>
    \/ how \in {"none", "exit 1"} /\ pipe = <<"word">>
    \/ how = "killed" /\ pipe \in {<<"word">>, <<"answer">>, <<>>}

Holds ==
    \/ parent \in {"type", "fork"} /\ child = "none" /\ pipe = <<>>
    \/ parent = "write" /\ child \in {"none", "exec", "read"} /\ pipe = <<>>
    \/ parent = "write" /\ child = "zombie" /\ end \in {"exit 1", "killed"} /\ pipe = <<>>
    \/ parent = "wait" /\ child \in {"none", "exec", "read"} /\ pipe = <<"word">>
    \/ parent = "wait" /\ child = "answer" /\ pipe = <<>>
    \/ parent = "wait" /\ child = "return" /\ pipe = <<"answer">>
    \/ parent = "wait" /\ child = "zombie" /\ Left(end)
    \/ parent = "read" /\ child = "none" /\ Left(st)
    \/ parent \in {"show", "done"} /\ child = "none"

AnswerInv ==
    /\ Holds
    /\ parent \in {"type", "fork", "write", "wait"} => st = "none"
    /\ parent \notin {"show", "done"} => n = P!OwnBytes
    /\ P!OwnAnswer

\* The sequences the pipe goes through.
LEMMA OneMessage ==
    ASSUME NEW m
    PROVE  /\ Append(<<>>, m) = <<m>>
           /\ <<m>> # <<>> /\ Head(<<m>>) = m /\ Tail(<<m>>) = <<>>
  OBVIOUS

\* AnswerInv is inductive: each step moves along the lines of Holds.
LEMMA AnswerKept ==
    /\ Init => AnswerInv
    /\ AnswerInv /\ (P!PipeNext \/ UNCHANGED pipeVars) => AnswerInv'
<1> USE DEF AnswerInv, Holds, Left, P!OwnAnswer, P!OwnBytes
<1>0. /\ Append(<<>>, "word") = <<"word">> /\ Append(<<>>, "answer") = <<"answer">>
      /\ <<"word">> # <<>> /\ Head(<<"word">>) = "word" /\ Tail(<<"word">>) = <<>>
      /\ <<"answer">> # <<>> /\ Head(<<"answer">>) = "answer" /\ Tail(<<"answer">>) = <<>>
      /\ <<"word">> # <<"answer">>
  BY OneMessage
<1>1. Init => AnswerInv
  BY DEF Init, P!PipeInit
<1>2. ASSUME AnswerInv, NEW w \in Words, P!Type(w)
      PROVE  AnswerInv'
  BY <1>2 DEF P!Type
<1>3. ASSUME AnswerInv, P!ForkChild
      PROVE  AnswerInv'
  BY <1>3 DEF P!ForkChild
<1>4. ASSUME AnswerInv, P!WriteWord
      PROVE  AnswerInv'
  BY <1>0, <1>4 DEF P!WriteWord
<1>5. ASSUME AnswerInv, P!WaitChild
      PROVE  AnswerInv'
  <2>1. CASE child = "none"
    BY <1>0, <1>5, <2>1 DEF P!WaitChild
  <2>2. CASE child = "zombie"
    BY <1>0, <1>5, <2>2 DEF P!WaitChild
  <2> QED
    BY <1>5, <2>1, <2>2 DEF P!WaitChild
<1>6. ASSUME AnswerInv, P!ReadAnswer
      PROVE  AnswerInv'
  BY <1>0, <1>6 DEF P!ReadAnswer
<1>7. ASSUME AnswerInv, P!Show
      PROVE  AnswerInv'
  BY <1>7 DEF P!Show
<1>8. ASSUME AnswerInv, P!ExecChild \/ P!KillChild
      PROVE  AnswerInv'
  BY <1>8 DEF P!ExecChild, P!KillChild, P!Ended
<1>9. ASSUME AnswerInv, P!ReadWord
      PROVE  AnswerInv'
  BY <1>0, <1>9 DEF P!ReadWord
<1>10. ASSUME AnswerInv, P!WriteAnswer
       PROVE  AnswerInv'
  BY <1>0, <1>10 DEF P!WriteAnswer, P!Ended
<1>13. ASSUME AnswerInv, P!ReturnChild
       PROVE  AnswerInv'
  BY <1>0, <1>13 DEF P!ReturnChild, P!Ended
<1>11. ASSUME AnswerInv, UNCHANGED pipeVars
       PROVE  AnswerInv'
  BY <1>11 DEF pipeVars
<1>12. QED
  BY <1>1, <1>2, <1>3, <1>4, <1>5, <1>6, <1>7, <1>8, <1>9, <1>10, <1>11, <1>13
     DEF P!PipeNext, P!ParentStep, P!ChildStep

\* The parent shows the length of its word when its child wrote it, and has then
\* left nothing in the pipe; it has when it ran to its end, has not when it never
\* ran, and may have when it was killed.
THEOREM OwnAnswerAlways == Spec => []OwnAnswer
<1>1. AnswerInv /\ [Next]_vars => AnswerInv'
  BY AnswerKept, Apart
<1>2. AnswerInv => OwnAnswer
  BY DEF AnswerInv, OwnAnswer
<1>3. QED
  BY <1>1, <1>2, AnswerKept, PTL DEF Spec

-----------------------------------------------------------------------------
(***************************************************************************)
(* SimpleShell: what the buffers hold of the last line with a word.        *)
(***************************************************************************)
LineInv ==
    /\ shell \in {"off", "shell", "shell_option"}
    /\ entered \in Lines \cup {S!Unknown}
    /\ line \in Lines \cup {S!EmptyLine, S!BlankLine, S!Unknown}
    /\ line = S!Unknown => entered = S!Unknown
    /\ shell = "off" => step = "prompt"
    /\ command = <<Head(entered)>> \/ (shell = "shell_option" /\ command = S!BlankLine)

\* What the child is given, from the fork on.
GivenInv ==
    step # "prompt" /\ arg # <<>> =>
        /\ S!IsPrefix(arg, entered)
        /\ shell = "shell" => arg = <<Head(entered)>>
        /\ fresh /\ shell # "shell" => arg = entered

RunInv ==
    /\ LineInv /\ GivenInv
    /\ kid # "none" => step = "wait"
    /\ kid = "running" => argv = arg /\ arg # <<>>

\* The first word of a line is a prefix of it.
LEMMA FirstWordPrefix ==
    ASSUME NEW W, NEW l \in Seq(W), l # <<>>
    PROVE  S!IsPrefix(<<Head(l)>>, l) /\ S!IsPrefix(l, l) /\ Head(<<Head(l)>>) = Head(l)
<1>1. /\ Len(l) >= 1 /\ Head(l) = l[1] /\ l[1] \in W
  BY EmptySeq, LenProperties
<1>2. <<l[1]>> \in Seq(W) /\ Len(<<l[1]>>) = 1 /\ <<l[1]>>[1] = l[1]
  BY <1>1
<1>3. SubSeq(<<l[1]>>, 1, 1) = SubSeq(l, 1, 1)
  <2>1. SubSeq(l, 1, 1) = <<l[1]>> \o SubSeq(l, 2, 1)
    BY <1>1, SubSeqRecursiveFirst
  <2>2. SubSeq(l, 2, 1) = <<>>
    BY <1>1, SubSeqEmpty
  <2>3. SubSeq(<<l[1]>>, 1, 1) = <<l[1]>>
    BY <1>2, SubSeqFull
  <2>4. <<l[1]>> \o <<>> = <<l[1]>>
    BY <1>2, ConcatEmptySeq
  <2>5. QED
    BY <2>1, <2>2, <2>3, <2>4
<1>4. S!IsPrefix(<<Head(l)>>, l)
  BY <1>1, <1>2, <1>3 DEF S!IsPrefix
<1>5. S!IsPrefix(l, l)
  BY <1>1 DEF S!IsPrefix
<1>6. QED
  BY <1>1, <1>4, <1>5

\* A line with words, and the unknown one of the start, is neither empty nor
\* blank.
LEMMA WordLine ==
    ASSUME NEW e \in Lines \cup {S!Unknown}
    PROVE  /\ e # S!EmptyLine /\ e # S!BlankLine /\ <<Head(e)>> # S!BlankLine
           /\ S!IsPrefix(<<Head(e)>>, e) /\ S!IsPrefix(e, e)
           /\ Head(<<Head(e)>>) = Head(e)
<1>1. \E W : e \in Seq(W) /\ e # <<>> /\ "" \notin W
  <2>1. CASE e \in Lines
    BY <2>1, LinesAssumption
  <2>2. CASE e = S!Unknown
    <3>1. <<"?">> \in Seq({"?"}) /\ <<"?">> # <<>> /\ "" \notin {"?"}
      OBVIOUS
    <3>2. QED
      BY <2>2, <3>1 DEF S!Unknown
  <2>3. QED
    BY <2>1, <2>2
<1>2. PICK W : e \in Seq(W) /\ e # <<>> /\ "" \notin W
  BY <1>1
<1>3. Head(e) # ""
  BY <1>2, HeadTailProperties
<1>4. e # <<"">> /\ <<Head(e)>> # <<"">>
  <2>1. Head(<<"">>) = "" /\ Head(<<Head(e)>>) = Head(e)
    BY OneMessage
  <2>2. QED
    BY <1>3, <2>1, Zenon
<1>5. QED
  BY <1>2, <1>4, FirstWordPrefix DEF S!EmptyLine, S!BlankLine

\* RunInv is inductive.
LEMMA RunKept ==
    /\ Init => RunInv
    /\ RunInv /\ (S!ShellNext \/ UNCHANGED shellVars) => RunInv'
<1> USE DEF RunInv, LineInv, GivenInv
<1>1. Init => RunInv
  BY DEF Init, S!ShellInit, S!Unknown
<1>2. ASSUME RunInv, NEW sh \in {"shell", "shell_option"}, S!StartShell(sh)
      PROVE  RunInv'
  BY <1>2 DEF S!StartShell
<1>3. ASSUME RunInv, NEW l \in Lines \cup {S!EmptyLine, S!BlankLine, line}, S!ReadCommand(l)
      PROVE  RunInv'
  <2> USE DEF S!ReadCommand, S!Fgets
  <2>1. CASE l \in Lines
    <3>1. /\ l # S!EmptyLine /\ l # S!BlankLine
          /\ S!IsPrefix(<<Head(l)>>, l) /\ S!IsPrefix(l, l)
      BY <2>1, WordLine
    <3>2. QED
      BY <1>3, <2>1, <3>1 DEF S!FirstWord, S!WholeLine, S!Cut, S!GetArg
  <2>2. CASE l \notin Lines
    <3>1. /\ entered # S!EmptyLine /\ entered # S!BlankLine /\ <<Head(entered)>> # S!BlankLine
          /\ S!IsPrefix(<<Head(entered)>>, entered) /\ S!IsPrefix(entered, entered)
          /\ Head(<<Head(entered)>>) = Head(entered)
      <4>1. entered \in Lines \cup {S!Unknown}
        BY <1>3
      <4>2. QED
        BY <4>1, WordLine
    <3>2. S!Unknown # S!EmptyLine /\ S!Unknown # S!BlankLine
      BY WordLine
    <3>3. /\ l \in {S!EmptyLine, S!BlankLine, S!Unknown}
          /\ l = S!Unknown => entered = S!Unknown
          /\ line' = l /\ entered' = entered /\ fresh' = FALSE /\ step' = "fork"
          /\ shell' = shell /\ kid' = kid /\ step = "prompt" /\ shell # "off"
      BY <1>3, <2>2, <3>2
    <3>4. CASE shell = "shell"
      <4>1. command' = <<Head(entered)>> /\ arg' = <<Head(entered)>>
        BY <1>3, <3>1, <3>3, <3>4 DEF S!FirstWord
      <4>2. LineInv'
        BY <1>3, <3>1, <3>3, <3>4, <4>1
      <4>3. GivenInv'
        BY <1>3, <3>1, <3>3, <3>4, <4>1
      <4>4. QED
        BY <1>3, <3>3, <4>2, <4>3
    <3>5. CASE shell = "shell_option"
      <4>1. CASE S!WholeLine(l, command) = S!BlankLine
        <5>1. command' = S!BlankLine /\ arg' = <<>>
          BY <1>3, <3>5, <4>1, OneMessage DEF S!Cut, S!GetArg, S!BlankLine
        <5>2. LineInv' /\ GivenInv'
          BY <1>3, <3>1, <3>3, <3>5, <5>1
        <5>3. QED
          BY <1>3, <3>3, <5>2
      <4>2. CASE S!WholeLine(l, command) # S!BlankLine
        <5>1. /\ S!WholeLine(l, command) \in {entered, <<Head(entered)>>}
          BY <1>3, <3>1, <3>3, <3>5, <4>2 DEF S!WholeLine
        <5>2. command' = <<Head(entered)>> /\ arg' \in {entered, <<Head(entered)>>}
          BY <1>3, <3>1, <3>5, <4>2, <5>1 DEF S!Cut, S!GetArg
        <5>3. LineInv' /\ GivenInv'
          BY <1>3, <3>1, <3>3, <3>5, <5>2
        <5>4. QED
          BY <1>3, <3>3, <5>3
      <4>3. QED
        BY <4>1, <4>2
    <3>6. QED
      BY <1>3, <3>3, <3>4, <3>5
  <2>3. QED
    BY <2>1, <2>2
<1>4. ASSUME RunInv, S!ForkKid \/ S!WaitKid
      PROVE  RunInv'
  BY <1>4 DEF S!ForkKid, S!WaitKid
<1>5. ASSUME RunInv, S!ExecKid \/ S!KidEnds
      PROVE  RunInv'
  BY <1>5 DEF S!ExecKid, S!KidEnds
<1>6. ASSUME RunInv, UNCHANGED shellVars
      PROVE  RunInv'
  BY <1>6 DEF shellVars
<1>7. QED
  BY <1>1, <1>2, <1>3, <1>4, <1>5, <1>6
     DEF S!ShellNext, S!ShellUser, S!ShellStep, S!KidStep

\* What runs is the command of the last line with a word, with the options of
\* no other line, for any set of lines.
THEOREM RunsTheLineAlways == Spec => []RunsTheLine
<1>1. RunInv /\ [Next]_vars => RunInv'
  BY RunKept, Apart
<1>2. RunInv => RunsTheLine
  BY DEF RunInv, LineInv, GivenInv, RunsTheLine, S!RunsTheLine
<1>3. QED
  BY <1>1, <1>2, RunKept, PTL DEF Spec

-----------------------------------------------------------------------------
(***************************************************************************)
(* ShmLifecycle: every object holds a whole text but the one being copied. *)
(***************************************************************************)
Pairs == (Halves \cup {""}) \X (Halves \cup {""})
Whole == M!Texts \cup {M!NoText}

\* Only the object that the writer is about to fill up is not whole, and it
\* has the first half of the text.
ObjectInv ==
    /\ \A o \in M!Object :
          content[o] \in Whole \/ (at[M!Writer] = "pad" /\ open[M!Writer] = o)
    /\ at[M!Writer] = "pad" => content[open[M!Writer]][1] = text[1]

\* What an untorn reader has seen is the first half of the object as it is now,
\* and then all of it.
ReaderInv ==
    ~torn =>
      /\ at[M!Reader] = "second" =>
           /\ content[open[M!Reader]] \in Whole
           /\ ~(at[M!Writer] = "pad" /\ open[M!Writer] = open[M!Reader])
           /\ seen = <<content[open[M!Reader]][1], "">>
      /\ at[M!Reader] = "unlink" => seen \in Whole

ShmTyped ==
    /\ name \in M!Object \cup {M!None}
    /\ open \in [{M!Writer, M!Reader} -> M!Object \cup {M!None}]
    /\ seen \in Pairs
    /\ at \in [{M!Writer, M!Reader} -> {"off", "open", "size", "type", "copy", "pad", "close",
                                        "first", "second", "unlink"}]
    /\ content \in [M!Object -> Pairs]
    /\ at[M!Writer] \in {"size", "type", "copy", "pad", "close"} => open[M!Writer] \in M!Object
    /\ at[M!Reader] \in {"first", "second", "unlink"} => open[M!Reader] \in M!Object
    /\ at[M!Writer] \in {"copy", "pad"} => text \in M!Texts

TextInv == ShmTyped /\ ObjectInv /\ ReaderInv

\* The texts as pairs.
LEMMA TextPairs ==
    /\ \A t \in M!Texts : t[1] \in Halves /\ t[2] \in Halves \cup {""} /\ t = <<t[1], t[2]>>
    /\ Whole \subseteq Pairs
    /\ M!NoText \in Whole /\ M!NoText = <<"", "">>
    /\ \A a \in Halves \cup {""} : <<a, "">> \in Whole
<1> USE DEF M!NoText, Whole
<1>1. ASSUME NEW t \in M!Texts
      PROVE  t[1] \in Halves /\ t[2] \in Halves \cup {""} /\ t = <<t[1], t[2]>>
  <2>1. PICK a \in Halves, b \in Halves \cup {""} : t = <<a, b>>
    BY DEF M!Texts
  <2>2. t[1] = a /\ t[2] = b
    BY <2>1
  <2>3. QED
    BY <2>1, <2>2
<1>2. ASSUME NEW w \in Whole
      PROVE  w \in Pairs
  <2>1. CASE w \in M!Texts
    <3>1. PICK a \in Halves \cup {""}, b \in Halves \cup {""} : w = <<a, b>>
      BY <1>1, <2>1
    <3>2. QED
      BY <3>1 DEF Pairs
  <2>2. CASE w = M!NoText
    BY <2>2 DEF Pairs
  <2>3. QED
    BY <2>1, <2>2
<1>3. M!NoText \in Whole
  OBVIOUS
<1>4. \A a \in Halves \cup {""} : <<a, "">> \in Whole
  BY DEF M!Texts
<1>5. QED
  BY <1>1, <1>2, <1>3, <1>4

\* A change of one half of a pair.
LEMMA PairExcept ==
    ASSUME NEW A, NEW p \in A \X A, NEW a \in A
    PROVE  /\ p[1] \in A /\ p[2] \in A /\ p = <<p[1], p[2]>>
           /\ [p EXCEPT ![1] = a] = <<a, p[2]>> /\ [p EXCEPT ![2] = a] = <<p[1], a>>
           /\ <<a, p[2]>> \in A \X A /\ <<p[1], a>> \in A \X A
<1>1. PICK b \in A, c \in A : p = <<b, c>>
  OBVIOUS
<1>2. p[1] = b /\ p[2] = c
  BY <1>1
<1>3. [<<b, c>> EXCEPT ![1] = a] = <<a, c>>
  OBVIOUS
<1>4. [<<b, c>> EXCEPT ![2] = a] = <<b, a>>
  OBVIOUS
<1>5. <<a, c>> \in A \X A /\ <<b, a>> \in A \X A
  OBVIOUS
<1>6. QED
  BY <1>1, <1>2, <1>3, <1>4, <1>5

\* The same for the halves of a text.
LEMMA TextExcept ==
    ASSUME NEW p \in Pairs, NEW a \in Halves \cup {""}
    PROVE  /\ p[1] \in Halves \cup {""} /\ p[2] \in Halves \cup {""} /\ p = <<p[1], p[2]>>
           /\ [p EXCEPT ![1] = a] = <<a, p[2]>> /\ [p EXCEPT ![2] = a] = <<p[1], a>>
           /\ <<a, p[2]>> \in Pairs /\ <<p[1], a>> \in Pairs
<1> DEFINE H == Halves \cup {""}
<1> HIDE DEF H
<1>1. p \in H \X H /\ a \in H
  BY DEF Pairs, H
<1>2. QED
  BY <1>1, PairExcept DEF Pairs, H

\* What the two halves of strncpy do to the object.
LEMMA Copied ==
    ASSUME ShmTyped
    PROVE  LET o == open[M!Writer] IN
           /\ M!WCopyFirst => /\ content' = [content EXCEPT ![o] = <<text[1], content[o][2]>>]
                              /\ <<text[1], content[o][2]>> \in Pairs
           /\ M!WCopyRest => /\ content' = [content EXCEPT ![o] = <<content[o][1], text[2]>>]
                             /\ <<content[o][1], text[2]>> \in Pairs
<1> DEFINE o == open[M!Writer]
<1>1. ASSUME M!WCopyFirst \/ M!WCopyRest
      PROVE  /\ o \in M!Object /\ content[o] \in Pairs
             /\ text[1] \in Halves \cup {""} /\ text[2] \in Halves \cup {""}
  BY <1>1, TextPairs DEF ShmTyped, M!WCopyFirst, M!WCopyRest
<1>2. ASSUME M!WCopyFirst
      PROVE  /\ content' = [content EXCEPT ![o] = <<text[1], content[o][2]>>]
             /\ <<text[1], content[o][2]>> \in Pairs
  <2>1. content' = [content EXCEPT ![o] = [content[o] EXCEPT ![1] = text[1]]]
    BY <1>2 DEF M!WCopyFirst, M!Copy
  <2>2. QED
    BY <1>1, <1>2, <2>1, TextExcept
<1>3. ASSUME M!WCopyRest
      PROVE  /\ content' = [content EXCEPT ![o] = <<content[o][1], text[2]>>]
             /\ <<content[o][1], text[2]>> \in Pairs
  <2>1. content' = [content EXCEPT ![o] = [content[o] EXCEPT ![2] = text[2]]]
    BY <1>3 DEF M!WCopyRest, M!Copy
  <2>2. QED
    BY <1>1, <1>3, <2>1, TextExcept
<1>4. QED
  BY <1>2, <1>3

\* What the reader has seen after the second half.
LEMMA SeenSecond ==
    ASSUME ShmTyped, M!RSecond
    PROVE  /\ seen' = <<seen[1], content[open[M!Reader]][2]>> /\ seen' \in Pairs
           /\ content[open[M!Reader]] \in Pairs
<1> DEFINE o == open[M!Reader]
<1>1. seen \in Pairs /\ content[o] \in Pairs
  BY DEF ShmTyped, M!RSecond
<1>2. content[o][2] \in Halves \cup {""}
  BY <1>1, TextExcept
<1>3. seen' = [seen EXCEPT ![2] = content[o][2]]
  BY DEF M!RSecond
<1>4. QED
  BY <1>1, <1>2, <1>3, TextExcept

\* There is an object that the reader does not have open.
LEMMA FreeObject ==
    ASSUME NEW x
    PROVE  LET new == CHOOSE o \in M!Object : o # x IN new \in M!Object /\ new # x
<1>1. 1 \in M!Object /\ 2 \in M!Object /\ 1 # 2
  BY DEF M!Object
<1>2. \E o \in M!Object : o # x
  BY <1>1, Zenon
<1>3. QED
  BY <1>2, Zenon

\* ShmTyped is inductive.
LEMMA ShmTypedKept ==
    /\ Init => ShmTyped
    /\ ShmTyped /\ (M!ShmNext \/ UNCHANGED shmVars) => ShmTyped'
<1> USE DEF ShmTyped, M!Writer, M!Reader, M!Object, M!None
<1> DEFINE H == Halves \cup {""}
<1>1. Init => ShmTyped
  <2>1. M!NoText \in Pairs
    BY TextPairs
  <2>2. QED
    BY <2>1 DEF Init, M!ShmInit
<1>2. ASSUME ShmTyped, NEW q \in {"writer", "reader"}, M!Start(q) \/ M!Fail(q)
      PROVE  ShmTyped'
  <2>1. CASE q = "writer"
    BY <1>2, <2>1 DEF M!Start, M!Fail, M!Ends, M!Goto
  <2>2. CASE q = "reader"
    BY <1>2, <2>2 DEF M!Start, M!Fail, M!Ends, M!Goto
  <2>3. QED
    BY <2>1, <2>2
<1>3. ASSUME ShmTyped, NEW t \in M!Texts \cup {M!NoText}, M!WType(t)
      PROVE  ShmTyped'
  BY <1>3 DEF M!WType, M!Goto
<1>4. ASSUME ShmTyped, M!WOpen
      PROVE  ShmTyped'
  <2>1. CASE name # 0
    BY <1>4, <2>1 DEF M!WOpen, M!Goto
  <2>2. CASE name = 0
    <3> DEFINE new == CHOOSE o \in 1..3 : o # open["reader"]
    <3>1. new \in 1..3
      BY FreeObject DEF M!Object
    <3> HIDE DEF new
    <3>2. M!NoText \in Pairs
      BY TextPairs
    <3>3. /\ name' = new /\ open' = [open EXCEPT !["writer"] = new] /\ sized' = sized \ {new}
          /\ content' = [content EXCEPT ![new] = M!NoText]
          /\ at' = [at EXCEPT !["writer"] = "size"] /\ UNCHANGED <<text, seen, torn>>
      BY <1>4, <2>2 DEF M!WOpen, M!Goto, new
    <3>4. QED
      BY <1>4, <2>2, <3>1, <3>2, <3>3
  <2>3. QED
    BY <2>1, <2>2
<1>5. ASSUME ShmTyped, M!WSize \/ M!WClose
      PROVE  ShmTyped'
  BY <1>5 DEF M!WSize, M!WClose, M!Ends, M!Goto
<1>6. ASSUME ShmTyped, M!WCopyFirst \/ M!WCopyRest
      PROVE  ShmTyped'
  <2>1. open["writer"] \in 1..3
    BY <1>6 DEF M!WCopyFirst, M!WCopyRest
  <2>2. PICK c \in Pairs : content' = [content EXCEPT ![open["writer"]] = c]
    BY <1>6, Copied
  <2>3. QED
    BY <1>6, <2>1, <2>2 DEF M!WCopyFirst, M!WCopyRest, M!Copy, M!Goto, M!Overlap
<1>7. ASSUME ShmTyped, M!ROpen \/ M!RUnlink
      PROVE  ShmTyped'
  BY <1>7 DEF M!ROpen, M!RUnlink, M!Ends, M!Goto
<1>8. ASSUME ShmTyped, M!RFirst
      PROVE  ShmTyped'
  <2>1. seen' \in Pairs
    <3>1. content[open["reader"]] \in Pairs
      BY <1>8 DEF M!RFirst
    <3>2. content[open["reader"]][1] \in H
      BY <3>1, TextExcept
    <3>3. QED
      BY <1>8, <3>2, TextPairs DEF M!RFirst
  <2>2. QED
    BY <1>8, <2>1 DEF M!RFirst, M!Ends, M!Goto
<1>9. ASSUME ShmTyped, M!RSecond
      PROVE  ShmTyped'
  <2>1. seen' \in Pairs
    BY <1>9, SeenSecond
  <2>2. QED
    BY <1>9, <2>1 DEF M!RSecond, M!Goto
<1>10. ASSUME ShmTyped, UNCHANGED shmVars
       PROVE  ShmTyped'
  BY <1>10 DEF shmVars
<1>11. QED
  BY <1>1, <1>2, <1>3, <1>4, <1>5, <1>6, <1>7, <1>8, <1>9, <1>10
     DEF M!ShmNext, M!WriterStep, M!ReaderStep

\* TextInv is inductive.
LEMMA TextKept ==
    /\ Init => TextInv
    /\ TextInv /\ (M!ShmNext \/ UNCHANGED shmVars) => TextInv'
<1> USE DEF TextInv, ObjectInv, ReaderInv, M!Writer, M!Reader, M!Object, M!None
<1>1. Init => TextInv
  BY ShmTypedKept DEF Init, M!ShmInit, Whole
<1> SUFFICES ASSUME TextInv, M!ShmNext \/ UNCHANGED shmVars
             PROVE  ObjectInv' /\ ReaderInv'
  BY <1>1, ShmTypedKept
<1> USE DEF ShmTyped
<1>2. ASSUME NEW q \in {"writer", "reader"}, M!Start(q) \/ M!Fail(q)
      PROVE  ObjectInv' /\ ReaderInv'
  <2>1. CASE q = "writer"
    BY <1>2, <2>1 DEF M!Start, M!Fail, M!Ends, M!Goto
  <2>2. CASE q = "reader"
    BY <1>2, <2>2 DEF M!Start, M!Fail, M!Ends, M!Goto
  <2>3. QED
    BY <1>2, <2>1, <2>2
<1>3. ASSUME NEW t \in M!Texts \cup {M!NoText}, M!WType(t)
      PROVE  ObjectInv' /\ ReaderInv'
  BY <1>3 DEF M!WType, M!Goto
<1>4. ASSUME M!WOpen
      PROVE  ObjectInv' /\ ReaderInv'
  <2>1. CASE name # 0
    BY <1>4, <2>1 DEF M!WOpen, M!Goto
  <2>2. CASE name = 0
    <3> DEFINE new == CHOOSE o \in 1..3 : o # open["reader"]
    <3>1. new \in 1..3 /\ new # open["reader"]
      BY FreeObject DEF M!Object
    <3>2. /\ open' = [open EXCEPT !["writer"] = new]
          /\ content' = [content EXCEPT ![new] = M!NoText]
          /\ at' = [at EXCEPT !["writer"] = "size"] /\ UNCHANGED <<text, seen, torn>>
      BY <1>4, <2>2 DEF M!WOpen, M!Goto
    <3> HIDE DEF new
    <3>3. M!NoText \in Whole
      BY TextPairs
    <3>4. /\ at'["writer"] = "size" /\ at'["reader"] = at["reader"]
          /\ open'["reader"] = open["reader"] /\ at["writer"] = "open"
          /\ content'[new] = M!NoText
          /\ \A o \in 1..3 : o # new => content'[o] = content[o]
      BY <1>4, <3>1, <3>2 DEF M!WOpen
    <3>5. ObjectInv'
      BY <3>1, <3>3, <3>4
    <3>6. ReaderInv'
      BY <3>1, <3>2, <3>4
    <3>7. QED
      BY <3>5, <3>6
  <2>3. QED
    BY <2>1, <2>2
<1>5. ASSUME M!WSize \/ M!WClose
      PROVE  ObjectInv' /\ ReaderInv'
  BY <1>5 DEF M!WSize, M!WClose, M!Ends, M!Goto
<1>6. ASSUME M!WCopyFirst
      PROVE  ObjectInv' /\ ReaderInv'
  <2> DEFINE o == open["writer"]
  <2>1. /\ content' = [content EXCEPT ![o] = <<text[1], content[o][2]>>]
        /\ at' = [at EXCEPT !["writer"] = "pad"] /\ UNCHANGED <<open, text, seen>>
        /\ torn' = (torn \/ (at["reader"] = "second" /\ open["reader"] = o))
        /\ o \in 1..3 /\ at["writer"] = "copy"
    BY <1>6, Copied DEF M!WCopyFirst, M!Copy, M!Overlap, M!Goto
  <2>2. <<text[1], content[o][2]>>[1] = text[1]
    OBVIOUS
  <2>3. ObjectInv'
    BY <2>1, <2>2
  <2>4. ReaderInv'
    BY <2>1
  <2>5. QED
    BY <2>3, <2>4
<1>7. ASSUME M!WCopyRest
      PROVE  ObjectInv' /\ ReaderInv'
  <2> DEFINE o == open["writer"]
  <2>1. /\ content' = [content EXCEPT ![o] = <<content[o][1], text[2]>>]
        /\ at' = [at EXCEPT !["writer"] = "close"] /\ UNCHANGED <<open, text, seen>>
        /\ torn' = (torn \/ (at["reader"] = "second" /\ open["reader"] = o))
        /\ o \in 1..3 /\ at["writer"] = "pad"
    BY <1>7, Copied DEF M!WCopyRest, M!Copy, M!Overlap, M!Goto
  <2>2. <<content[o][1], text[2]>> \in Whole
    <3>1. text \in M!Texts /\ content[o][1] = text[1]
      BY <2>1
    <3>2. text = <<text[1], text[2]>>
      BY <3>1, TextPairs
    <3>3. <<content[o][1], text[2]>> = text
      BY <3>1, <3>2
    <3>4. text \in Whole
      BY <3>1 DEF Whole
    <3>5. QED
      BY <3>3, <3>4
  <2>3. ObjectInv'
    BY <2>1, <2>2
  <2>4. ReaderInv'
    BY <2>1
  <2>5. QED
    BY <2>3, <2>4
<1>8. ASSUME M!ROpen \/ M!RUnlink
      PROVE  ObjectInv' /\ ReaderInv'
  BY <1>8 DEF M!ROpen, M!RUnlink, M!Ends, M!Goto
<1>9. ASSUME M!RFirst
      PROVE  ObjectInv' /\ ReaderInv'
  <2> DEFINE o == open["reader"]
  <2>1. o \in 1..3
    BY <1>9 DEF M!RFirst
  <2>2. CASE o \notin sized
    BY <1>9, <2>2 DEF M!RFirst, M!Ends, M!Goto
  <2>3. CASE o \in sized
    <3>1. /\ seen' = <<content[o][1], "">> /\ UNCHANGED <<content, open, text>>
          /\ torn' = (at["writer"] = "pad" /\ open["writer"] = o)
          /\ \/ seen' = M!NoText /\ at' = [at EXCEPT !["reader"] = "unlink"]
             \/ at' = [at EXCEPT !["reader"] = "second"]
      BY <1>9, <2>3 DEF M!RFirst, M!Goto
    <3>2. M!NoText \in Whole
      BY TextPairs
    <3>3. QED
      BY <2>1, <3>1, <3>2
  <2>4. QED
    BY <2>2, <2>3
<1>10. ASSUME M!RSecond
       PROVE  ObjectInv' /\ ReaderInv'
  <2> DEFINE o == open["reader"]
  <2>1. /\ seen' = <<seen[1], content[o][2]>> /\ content[o] \in Pairs
        /\ at["reader"] = "second" /\ at' = [at EXCEPT !["reader"] = "unlink"]
        /\ UNCHANGED <<content, open, text, torn>>
    BY <1>10, SeenSecond DEF M!RSecond, M!Goto
  <2>2. ~torn => seen' \in Whole
    <3>1. content[o] = <<content[o][1], content[o][2]>>
      BY <2>1, TextExcept
    <3>2. ~torn => seen[1] = content[o][1]
      <4>1. ~torn => seen = <<content[o][1], "">>
        BY <2>1
      <4>2. <<content[o][1], "">>[1] = content[o][1]
        OBVIOUS
      <4>3. QED
        BY <4>1, <4>2
    <3>3. QED
      BY <2>1, <3>1, <3>2
  <2>3. QED
    BY <2>1, <2>2
<1>11. ASSUME UNCHANGED shmVars
       PROVE  ObjectInv' /\ ReaderInv'
  BY <1>11 DEF shmVars
<1>12. QED
  BY <1>2, <1>3, <1>4, <1>5, <1>6, <1>7, <1>8, <1>9, <1>10, <1>11
     DEF M!ShmNext, M!WriterStep, M!ReaderStep

\* The reader prints nothing or a whole text unless a copy overlapped with its
\* reading, for any texts.
THEOREM WholeTextAlways == Spec => []WholeText
<1>1. TextInv /\ [Next]_vars => TextInv'
  BY TextKept, Apart
<1>2. TextInv => WholeText
  BY DEF TextInv, ReaderInv, WholeText, M!WholeText, Whole
<1>3. QED
  BY <1>1, <1>2, TextKept, PTL DEF Spec

-----------------------------------------------------------------------------
(***************************************************************************)
(* SignalPrograms: two ticks of the clock for each dot.                    *)
(***************************************************************************)
ClockInv ==
    /\ now \in Nat /\ start \in Nat /\ wake \in Nat /\ dots \in Nat
    /\ next \in {"off", "signal"} => dots = 0 /\ 2 * start <= now
    /\ next = "sleep" => 2 * start + 2 * dots + 2 <= wake /\ wake <= now + 2
    /\ next # "done" => elapsed = G!NotShown
    /\ elapsed # G!NotShown => elapsed \in Nat /\ dots <= elapsed

AlarmInv ==
    /\ next = "judge" => timer # "set"
    /\ verdict # "none" => next = "done" /\ timer # "set"
    /\ verdict # "none" /\ input # "unread" => verdict = input

\* ClockInv and AlarmInv are inductive.
LEMMA SignalKept ==
    /\ Init => ClockInv /\ AlarmInv
    /\ ClockInv /\ AlarmInv /\ (G!SignalNext \/ UNCHANGED signalVars) => ClockInv' /\ AlarmInv'
<1> USE DEF ClockInv, AlarmInv, G!NotShown, G!Seconds, G!timerVars, G!alarmVars
<1>1. Init => ClockInv /\ AlarmInv
  BY DEF Init, G!SignalInit
<1> SUFFICES ASSUME ClockInv, AlarmInv, G!SignalNext \/ UNCHANGED signalVars
             PROVE  ClockInv' /\ AlarmInv'
  BY <1>1
<1>2. CASE G!Ask \/ G!AlarmFires \/ G!Cancel \/ G!Judge
  BY <1>2 DEF G!Ask, G!AlarmFires, G!Cancel, G!Judge
<1>3. ASSUME NEW i \in {"right", "wrong", "unread"}, G!Answer(i)
      PROVE  ClockInv' /\ AlarmInv'
  BY <1>3 DEF G!Answer
<1>4. ASSUME NEW tick \in 0..1, G!StartTimer(tick)
      PROVE  ClockInv' /\ AlarmInv'
  BY <1>4 DEF G!StartTimer
<1>5. CASE G!Install \/ G!Tick \/ G!Dot
  BY <1>5 DEF G!Install, G!Tick, G!Dot
<1>6. CASE G!Interrupt
  BY <1>6 DEF G!Interrupt
<1>7. CASE UNCHANGED signalVars
  BY <1>7 DEF signalVars
<1>8. QED
  BY <1>2, <1>3, <1>4, <1>5, <1>6, <1>7 DEF G!SignalNext, G!SignalMain

\* After the verdict no alarm comes, and it is that of the number entered; the
\* seconds shown are no fewer than the dots, for any length of the run.
THEOREM OnTimeAlways == Spec => []OnTime
<1>1. ClockInv /\ AlarmInv /\ [Next]_vars => ClockInv' /\ AlarmInv'
  BY SignalKept, Apart
<1>2. ClockInv /\ AlarmInv => OnTime
  BY DEF ClockInv, AlarmInv, OnTime, G!OnTime
<1>3. QED
  BY <1>1, <1>2, SignalKept, PTL DEF Spec

-----------------------------------------------------------------------------
(***************************************************************************)
(* LinearList                                                              *)
(***************************************************************************)
\* ListInv holds at the start.
LEMMA InitListInv == ASSUME L!SizeAssumption, L!Init PROVE L!ListInv
<1>1. <<>> \in Seq(Numbers \cup {Garbage}) /\ Len(<<>>) = 0
  BY EmptySeq
<1> QED
  BY <1>1 DEF L!SizeAssumption, L!Init, L!ListInv, L!TypeOK, L!Nodes, L!Null, L!Linked

\* A round of the loop links one node more.
LEMMA ReadKeeps == ASSUME L!SizeAssumption, L!ListInv, L!Read PROVE L!ListInv'
<1>1. /\ part = "read" /\ ptr \in 1..Size /\ curr = ptr - 1 /\ L!Linked(curr) /\ printout = <<>>
      /\ part' = part /\ printout' = printout /\ curr' = ptr /\ ptr' = ptr + 1
      /\ link' = [link EXCEPT ![ptr] = ptr + 1]
  BY DEF L!SizeAssumption, L!ListInv, L!Read
<1>2. L!TypeOK'
  BY <1>1 DEF L!SizeAssumption, L!ListInv, L!TypeOK, L!Read, L!Nodes
<1>3. \A i \in L!Nodes : i <= curr' => link'[i] = i + 1
  BY <1>1 DEF L!SizeAssumption, L!ListInv, L!TypeOK, L!Linked, L!Nodes
<1> QED
  BY <1>1, <1>2, <1>3 DEF L!SizeAssumption, L!ListInv, L!Linked, L!Nodes

\* NULL replaces the link out of the array.
LEMMA FinishKeeps == ASSUME L!SizeAssumption, L!ListInv, L!Finish PROVE L!ListInv'
<1>1. /\ part = "read" /\ ptr = Size + 1 /\ curr = Size /\ L!Linked(Size) /\ printout = <<>>
      /\ part' = "walk" /\ ptr' = 1 /\ printout' = printout /\ curr' = curr /\ data' = data
      /\ link' = [link EXCEPT ![Size] = L!Null]
  <2>1. part = "read" /\ ptr = Size + 1 /\ curr = ptr - 1 /\ L!Linked(curr) /\ printout = <<>>
    BY DEF L!SizeAssumption, L!ListInv, L!Finish
  <2>2. curr = Size
    BY <2>1 DEF L!SizeAssumption
  <2> QED
    BY <2>1, <2>2 DEF L!Finish
<1>2. L!TypeOK'
  BY <1>1 DEF L!SizeAssumption, L!ListInv, L!TypeOK, L!Nodes, L!Null
<1>3. /\ \A i \in L!Nodes : i <= Size - 1 => link'[i] = i + 1
      /\ link'[Size] = L!Null
  BY <1>1 DEF L!SizeAssumption, L!ListInv, L!TypeOK, L!Linked, L!Nodes
<1>4. Len(printout') = 0
  BY <1>1, EmptySeq
<1>5. L!PrintsInOrder'
  BY <1>1, <1>4 DEF L!SizeAssumption, L!PrintsInOrder, L!Nodes, L!Null
<1> QED
  BY <1>1, <1>2, <1>3, <1>4, <1>5 DEF L!SizeAssumption, L!ListInv, L!Linked

\* A round of the walk prints one number more.
LEMMA WalkKeeps == ASSUME L!SizeAssumption, L!ListInv, L!Walk PROVE L!ListInv'
<1> DEFINE k == Len(printout)
<1>1. /\ part = "walk" /\ ptr \in L!Nodes /\ part' = "walk" /\ curr' = curr /\ data' = data
      /\ link' = link /\ ptr' = link[ptr] /\ printout' = Append(printout, data[ptr])
  BY DEF L!Walk
<1>2. /\ printout \in Seq(Numbers \cup {Garbage}) /\ k \in Nat /\ data[ptr] \in Numbers \cup {Garbage}
  BY <1>1, LenProperties DEF L!ListInv, L!TypeOK
<1>3. k < Size /\ ptr = k + 1
  BY <1>1, <1>2 DEF L!SizeAssumption, L!ListInv, L!PrintsInOrder, L!Nodes, L!Null
<1>4. /\ printout' \in Seq(Numbers \cup {Garbage}) /\ Len(printout') = k + 1
      /\ \A i \in 1..k : printout'[i] = printout[i]
      /\ printout'[k + 1] = data[k + 1]
  BY <1>1, <1>2, <1>3, AppendProperties
<1>5. ptr' = IF Len(printout') = Size THEN L!Null ELSE Len(printout') + 1
  BY <1>1, <1>2, <1>3, <1>4 DEF L!SizeAssumption, L!ListInv, L!Linked, L!Nodes
<1>6. L!TypeOK'
  BY <1>1, <1>4 DEF L!ListInv, L!TypeOK
<1>7. L!PrintsInOrder'
  BY <1>1, <1>2, <1>3, <1>4, <1>5 DEF L!SizeAssumption, L!ListInv, L!PrintsInOrder, L!Nodes, L!Null
<1> QED
  BY <1>1, <1>5, <1>6, <1>7 DEF L!ListInv, L!Linked

\* ListInv is inductive.
LEMMA ListKept ==
    /\ Init => L!ListInv
    /\ L!ListInv /\ (L!Next \/ UNCHANGED listVars) => L!ListInv'
<1>1. Init => L!ListInv
  BY InitListInv, SizeAssumption DEF Init
<1>2. ASSUME L!ListInv, UNCHANGED listVars
      PROVE  L!ListInv'
  BY <1>2 DEF listVars, L!ListInv, L!TypeOK, L!Linked, L!PrintsInOrder
<1>3. L!ListInv /\ L!Next => L!ListInv'
  BY SizeAssumption, ReadKeeps, FinishKeeps, WalkKeeps DEF L!Next, L!ListStep
<1>4. QED
  BY <1>1, <1>2, <1>3

\* The numbers are printed once and in the order read, and no link out of
\* the array is followed, whatever the size.
THEOREM PrintsInOrderAlways == Spec => []PrintsInOrder
<1>1. L!ListInv /\ [Next]_vars => L!ListInv'
  BY ListKept, Apart
<1>2. L!ListInv => PrintsInOrder
  BY DEF L!ListInv, PrintsInOrder, L!PrintsInOrder
<1>3. QED
  BY <1>1, <1>2, ListKept, PTL DEF Spec

-----------------------------------------------------------------------------
(***************************************************************************)
(* FileMode                                                                *)
(***************************************************************************)
\* What each run between its stat and its chmod has stored is as ChangesKept says
\* of the mode, but for what was taken away since.
BufferOK(r) ==
    /\ buf[r] \subseteq original
    /\ original \ (taken \cup K!Gone) \subseteq buf[r]
    /\ buf[r] \cap taken \subseteq K!Undone \cup unseen[r]

MaskInv ==
    /\ call \in [Runs -> {"stat", "chmod", "done", "failed"}]
    /\ buf \in [Runs -> SUBSET K!Bits] /\ unseen \in [Runs -> SUBSET K!Bits]
    /\ \A r \in Runs : call[r] = "stat" => unseen[r] = {}
    /\ \A r \in Runs : call[r] = "chmod" => BufferOK(r)
    /\ mode \subseteq K!Bits /\ taken \subseteq K!Bits
    /\ K!ChangesKept

\* A run between its stat and its chmod passes what it has read on to the mode.
LEMMA MaskKept ==
    /\ Init => MaskInv
    /\ MaskInv /\ (K!FileNext \/ UNCHANGED maskVars) => MaskInv'
<1> USE DEF MaskInv, BufferOK, K!ChangesKept
<1>1. Init => MaskInv
  BY ModesAssumption DEF Init, K!FileInit, K!Gone, K!Undone
<1>2. ASSUME MaskInv, NEW r \in Runs, K!Stat(r)
      PROVE  MaskInv'
  <2>1. K!Gone' = K!Gone /\ K!Undone' = K!Undone
    BY <1>2 DEF K!Stat, K!Gone, K!Undone
  <2>2. \A s \in Runs : call'[s] = "chmod" => BufferOK(s)'
    BY <1>2, <2>1 DEF K!Stat
  <2> HIDE DEF BufferOK
  <2> QED
    BY <1>2, <2>1, <2>2 DEF K!Stat
<1>3. ASSUME MaskInv, NEW r \in Runs, K!Chmod(r)
      PROVE  MaskInv'
  <2>1. CASE call' = [call EXCEPT ![r] = "failed"] /\ mode' = mode
    <3>1. K!Gone' = K!Gone /\ K!Undone' = K!Undone
      BY <1>3, <2>1 DEF K!Chmod, K!Gone, K!Undone
    <3> QED
      BY <1>3, <2>1, <3>1 DEF K!Chmod
  <2>2. CASE call' = [call EXCEPT ![r] = "done"] /\ mode' = K!Masked(buf[r])
    <3>1. K!Gone' = K!Mask /\ K!Gone \subseteq K!Mask
      BY <1>3, <2>2 DEF K!Gone
    <3>2. K!Undone' = K!Undone \cup unseen[r]
      BY <1>3, <2>2 DEF K!Chmod, K!Undone
    <3>3. \A s \in Runs : call'[s] = "chmod" => BufferOK(s)'
      BY <1>3, <2>2, <3>1, <3>2 DEF K!Chmod
    <3>4. K!ChangesKept'
      BY <1>3, <2>2, <3>1, <3>2 DEF K!Chmod, K!Masked
    <3>5. mode' \subseteq K!Bits
      BY <1>3, <2>2 DEF K!Masked
    <3> HIDE DEF BufferOK, K!ChangesKept
    <3> QED
      BY <1>3, <2>2, <3>3, <3>4, <3>5 DEF K!Chmod
  <2> QED
    BY <1>3, <2>1, <2>2 DEF K!Chmod
<1>4. ASSUME MaskInv, NEW b \in K!Bits, K!Revoke(b)
      PROVE  MaskInv'
  <2>1. K!Gone' = K!Gone /\ K!Undone' = K!Undone
    BY <1>4 DEF K!Revoke, K!Gone, K!Undone
  <2>2. \A s \in Runs : call'[s] = "chmod" => BufferOK(s)'
    BY <1>4, <2>1 DEF K!Revoke
  <2>3. K!ChangesKept'
    BY <1>4, <2>1 DEF K!Revoke
  <2> HIDE DEF BufferOK, K!ChangesKept
  <2> QED
    BY <1>4, <2>2, <2>3 DEF K!Revoke
<1>5. ASSUME MaskInv, UNCHANGED maskVars
      PROVE  MaskInv'
  BY <1>5 DEF maskVars, K!Gone, K!Undone
<1>6. QED
  BY <1>1, <1>2, <1>3, <1>4, <1>5 DEF K!FileNext

\* Overlapping runs of mymask.c bring a permission back only if it was taken away
\* between the stat and the chmod of one that succeeded, and lose no other.
THEOREM ChangesKeptAlways == Spec => []ChangesKept
<1>1. MaskInv /\ [Next]_vars => MaskInv'
  BY MaskKept, Apart
<1>2. MaskInv => ChangesKept
  BY DEF MaskInv, ChangesKept
<1>3. QED
  BY <1>1, <1>2, MaskKept, PTL DEF Spec
=============================================================================
