---------------------------- MODULE ForkPrograms ----------------------------
(***************************************************************************)
(* The programs of chapters 2, 3 and 5 about fork, wait, exit and exec,    *)
(* and chapter07/sig_kill.c, which ends one of their processes.            *)
(*                                                                         *)
(* Each is a script for the parent and one for its child.  What matters is *)
(* the process table: a child that ends is a zombie until its parent waits *)
(* for it or ends; one that outlives its parent is adopted, and reaped, by *)
(* init.                                                                   *)
(***************************************************************************)
EXTENDS Integers, Sequences

CONSTANT Rounds  \* bound: the lines each process of fk1 and fk2 prints (10)

Parent == "parent"
Child  == "child"

VARIABLES
    script,  \* the program that runs
    rest,    \* the steps each process has before it
    status,  \* "none", "run", "zombie", or "gone" from the process table
    out,     \* who printed, line by line
    killed   \* the processes ended by a signal

forkVars == <<script, rest, status, out, killed>>

Prints(k) == [i \in 1..k |-> "print"]

Fk1 == [parent |-> <<"fork">> \o Prints(Rounds), child |-> Prints(Rounds)]
Fk2 == [parent |-> <<"fork">> \o Prints(Rounds), child |-> Prints(Rounds)]
WaitC == [parent |-> <<"fork", "print", "wait", "print">>, child |-> <<"print">>]
Zombie == [parent |-> <<"fork", "sleep", "wait", "print">>, child |-> <<>>]
CheckPpid == [parent |-> <<"fork", "getchar", "print">>, child |-> <<"sleep", "print">>]
ExeA == [parent |-> <<"print", "exec", "print">>, child |-> <<>>]
ExeB == [parent |-> <<"print", "getchar", "exec">>, child |-> <<>>]
Execv1 == [parent |-> <<"exec">>, child |-> <<>>]
Execv2 == [parent |-> <<"exec">>, child |-> <<>>]

Script == [fk1 |-> Fk1, fk2 |-> Fk2, wait |-> WaitC, zombie |-> Zombie,
           checkppid |-> CheckPpid, exeA |-> ExeA, exeB |-> ExeB,
           execv1 |-> Execv1, execv2 |-> Execv2]

ForkInit ==
    /\ script = "none"
    /\ rest = [p \in {Parent, Child} |-> <<>>]
    /\ status = [p \in {Parent, Child} |-> "none"]
    /\ out = <<>> /\ killed = {}

\* The user starts one of the programs.
StartScript(s) ==
    /\ status[Parent] = "none"
    /\ script' = s
    /\ rest' = [rest EXCEPT ![Parent] = Script[s].parent]
    /\ status' = [status EXCEPT ![Parent] = "run"]
    /\ UNCHANGED <<out, killed>>

At(p, op) == status[p] = "run" /\ rest[p] # <<>> /\ Head(rest[p]) = op

Advance(p) == rest' = [rest EXCEPT ![p] = Tail(@)]

\* fork; no program looks at its failure: with -1 the parent's branch is taken.
Fork ==
    /\ At(Parent, "fork")
    /\ \/ /\ rest' = [parent |-> Tail(rest[Parent]), child |-> Script[script].child]
          /\ status' = [status EXCEPT ![Child] = "run"]
       \/ Advance(Parent) /\ UNCHANGED status
    /\ UNCHANGED <<script, out, killed>>

PrintLine(p) ==
    /\ At(p, "print") /\ Advance(p)
    /\ out' = Append(out, p)
    /\ UNCHANGED <<script, status, killed>>

\* sleep(20) is over.
Sleep(p) == At(p, "sleep") /\ Advance(p) /\ UNCHANGED <<script, status, out, killed>>

\* The user types something, or the end of input.
Getchar == At(Parent, "getchar") /\ Advance(Parent) /\ UNCHANGED <<script, status, out, killed>>

\* Mutant of Wait: the call does not wait for the child (WNOHANG).
WaitNot ==
    /\ At(Parent, "wait") /\ Advance(Parent)
    /\ status' = [status EXCEPT ![Child] = IF @ = "zombie" THEN "gone" ELSE @]
    /\ UNCHANGED <<script, out, killed>>

\* wait(&st): the child has ended, or there is none.
Wait ==
    /\ At(Parent, "wait") /\ status[Child] # "run" /\ Advance(Parent)
    /\ status' = [status EXCEPT ![Child] = IF @ = "zombie" THEN "gone" ELSE @]
    /\ UNCHANGED <<script, out, killed>>

\* execl or execv: the process goes on as another program, of which only its
\* output is of interest, or, when that cannot be run, as what it is.
Exec ==
    /\ At(Parent, "exec")
    /\ \/ rest' = [rest EXCEPT ![Parent] = <<"print">>]
       \/ Advance(Parent)
    /\ UNCHANGED <<script, status, out, killed>>

\* The end of a process, with which its children pass to init.
End(p) ==
    status' = IF p = Parent
              THEN [parent |-> "gone", child |-> IF status[Child] = "zombie" THEN "gone"
                                                 ELSE status[Child]]
              ELSE [status EXCEPT ![Child] = IF status[Parent] = "run" THEN "zombie" ELSE "gone"]

\* exit, or return from main.
Exit(p) ==
    /\ status[p] = "run" /\ rest[p] = <<>> /\ End(p)
    /\ UNCHANGED <<script, rest, out, killed>>

\* sig_kill: SIGKILL to a process of the user's choice; to a zombie it does
\* nothing.
Kill(p) ==
    /\ status[p] = "run" /\ End(p)
    /\ killed' = killed \cup {p}
    /\ UNCHANGED <<script, rest, out>>

ProcessStep(p) ==
    \/ PrintLine(p) \/ Sleep(p) \/ Exit(p)
    \/ p = Parent /\ (Fork \/ Wait \/ Exec)

ForkNext ==
    \/ \E s \in DOMAIN Script : StartScript(s)
    \/ Getchar
    \/ \E p \in {Parent, Child} : ProcessStep(p) \/ Kill(p)

ForkFairness == WF_forkVars(ProcessStep(Parent)) /\ WF_forkVars(ProcessStep(Child))
-----------------------------------------------------------------------------
ForkTypeOK ==
    /\ script \in DOMAIN Script \cup {"none"}
    /\ rest \in [{Parent, Child} -> Seq({"fork", "print", "sleep", "getchar", "wait", "exec"})]
    /\ status[Parent] \in {"none", "run", "gone"}
    /\ status[Child] \in {"none", "run", "zombie", "gone"}
    /\ out \in Seq({Parent, Child})
    /\ killed \subseteq {Parent, Child}

\* wait.c, zombie.c: when the parent has come to its end its child has ended
\* and is no zombie, and the parent's line is the last, however the two were
\* scheduled and whoever was killed.
ParentLast ==
    script \in {"wait", "zombie"} /\ status[Parent] = "gone" /\ Parent \notin killed =>
        status[Child] \in {"none", "gone"} /\ out # <<>> /\ out[Len(out)] = Parent

\* A zombie does not stay: its parent waits for it or ends, unless the parent
\* itself waits for the user.
ForkEnds ==
    status[Parent] = "run" ~>
        At(Parent, "getchar") \/ (status[Parent] = "gone" /\ status[Child] \in {"none", "gone"})
=============================================================================
