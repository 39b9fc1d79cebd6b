-------------------------- MODULE PipeParentChild --------------------------
(***************************************************************************)
(* chapter08/pip_p.c and pip_c.c: a parent sends a word to the program it  *)
(* runs as its child and gets the length back, both through the same pipe. *)
(* Each keeps both ends open, so neither ever reads an end of file, and    *)
(* only the parent's wait keeps it from taking its own word back.          *)
(***************************************************************************)
EXTENDS Integers, Sequences

CONSTANTS Words, Length  \* what the user may type, and the lengths

\* The first bytes of the word, read as an int.
OwnBytes == -1

NoWord == ""

VARIABLES
    parent,  \* the next step of pip_p
    child,   \* the next step of its child, "none" or "zombie"
    end,     \* how the child ended: the status wait can tell the parent
    st,      \* what wait stored in st
    pipe,    \* the messages in the pipe
    word,    \* what the parent has read from the user
    n        \* the parent's n

pipeVars == <<parent, child, end, st, pipe, word, n>>

PipeInit ==
    /\ parent = "type" /\ child = "none"
    /\ end = "none" /\ st = "none"
    /\ pipe = <<>> /\ word = NoWord /\ n = OwnBytes
-----------------------------------------------------------------------------
\* pipe, which may fail, fgets and sscanf.  At the end of input sscanf reads an
\* uninitialised line: a word, or none as in an empty line.
Type(w) ==
    /\ parent = "type"
    /\ \/ parent' = "fork" /\ word' = w
       \/ parent' = "done" /\ UNCHANGED word
    /\ UNCHANGED <<child, end, st, pipe, n>>

\* fork; its failure is not looked at.
ForkChild ==
    /\ parent = "fork"
    /\ parent' = "write"
    /\ child' \in {"exec", "none"}
    /\ UNCHANGED <<end, st, pipe, word, n>>

WriteWord ==
    /\ parent = "write"
    /\ parent' = "wait"
    /\ pipe' = Append(pipe, "word")
    /\ UNCHANGED <<child, end, st, word, n>>

\* Mutant of WaitChild: the parent does not wait.
WaitChildNot ==
    /\ parent = "wait"
    /\ parent' = "read"
    /\ st' = IF child = "zombie" THEN end ELSE st
    /\ UNCHANGED <<child, end, pipe, word, n>>

\* wait(&st), which fails when there is no child.
WaitChild ==
    /\ parent = "wait" /\ child \in {"none", "zombie"}
    /\ parent' = "read"
    /\ st' = IF child = "zombie" THEN end ELSE st
    /\ child' = "none"
    /\ UNCHANGED <<end, pipe, word, n>>

\* read of sizeof(n) bytes: all of an answer, or a part of a word.  An empty
\* pipe blocks, as the parent itself could still write to it.
ReadAnswer ==
    /\ parent = "read" /\ pipe # <<>>
    /\ parent' = "show"
    /\ IF Head(pipe) = "answer" THEN n' = Length[word] /\ pipe' = Tail(pipe)
                                ELSE n' = OwnBytes /\ UNCHANGED pipe
    /\ UNCHANGED <<child, end, st, word>>

\* The print and the closes.
Show == parent = "show" /\ parent' = "done" /\ UNCHANGED <<child, end, st, pipe, word, n>>
-----------------------------------------------------------------------------
Ended(how) == child' = "zombie" /\ end' = how

\* execl of pip_c, or exit(1).
ExecChild ==
    /\ child = "exec"
    /\ \/ child' = "read" /\ UNCHANGED end
       \/ Ended("exit 1")
    /\ UNCHANGED <<parent, st, pipe, word, n>>

\* read and strlen.
ReadWord ==
    /\ child = "read" /\ pipe # <<>>
    /\ child' = "answer"
    /\ pipe' = Tail(pipe)
    /\ UNCHANGED <<parent, end, st, word, n>>

\* The write of n after the sleep.
WriteAnswer ==
    /\ child = "answer"
    /\ child' = "return"
    /\ pipe' = Append(pipe, "answer")
    /\ UNCHANGED <<parent, end, st, word, n>>

\* The closes and the end.
ReturnChild ==
    /\ child = "return"
    /\ Ended("exit 0")
    /\ UNCHANGED <<parent, st, pipe, word, n>>

\* A signal from outside ends the child, also between its write and its end.
KillChild ==
    /\ child \in {"exec", "read", "answer", "return"}
    /\ Ended("killed")
    /\ UNCHANGED <<parent, st, pipe, word, n>>

ParentStep == ForkChild \/ WriteWord \/ WaitChild \/ ReadAnswer \/ Show
ChildStep  == ExecChild \/ ReadWord \/ WriteAnswer \/ ReturnChild

PipeNext == ParentStep \/ ChildStep \/ KillChild \/ \E w \in Words : Type(w)

PipeFairness == WF_pipeVars(ParentStep) /\ WF_pipeVars(ChildStep)
-----------------------------------------------------------------------------
PipeTypeOK ==
    /\ parent \in {"type", "fork", "write", "wait", "read", "show", "done"}
    /\ child \in {"none", "exec", "read", "answer", "return", "zombie"}
    /\ {end, st} \subseteq {"none", "exit 0", "exit 1", "killed"}
    /\ pipe \in Seq({"word", "answer"})
    /\ word \in Words \cup {NoWord} /\ n \in {Length[w] : w \in Words} \cup {OwnBytes}

\* The parent shows the length of its word and leaves nothing in the pipe, or
\* shows its own word and leaves the word there.  The status it has and does not
\* look at tells which, but for a child that was killed: that one may have
\* written its answer before.
OwnAnswer ==
    parent = "show" =>
        /\ IF pipe = <<>> THEN n = Length[word] ELSE n = OwnBytes /\ pipe = <<"word">>
        /\ st = "exit 0" => pipe = <<>>
        /\ st \in {"none", "exit 1"} => pipe # <<>>

\* The parent gets to its end, unless its child was killed after it had taken
\* the word.
PipeEnds == parent = "fork" ~> parent = "done" \/ (st = "killed" /\ pipe = <<>>)
=============================================================================
