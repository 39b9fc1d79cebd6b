---------------------------- MODULE ShmLifecycle ----------------------------
(***************************************************************************)
(* chapter09/mmap_sec.c and mmap_rec.c: a writer puts a line into a shared *)
(* object, a reader prints it and removes the name.  Nothing orders the    *)
(* two: the user starts each of them, again and again, when he likes.      *)
(*                                                                         *)
(* A text is a pair of halves, so that one that is half copied can be told *)
(* from a whole one; a short text has an empty second half.                *)
(***************************************************************************)
EXTENDS Integers, FiniteSets

CONSTANTS Halves  \* what a half of a text may be

Texts == {<<a, a>> : a \in Halves} \cup {<<a, "">> : a \in Halves}

NoText == <<"", "">>

Writer == "writer"
Reader == "reader"
Object == 1..3  \* one with the name, and one each program may still have open
None   == 0

VARIABLES
    name,     \* the object "/shared_memory" names, or None
    sized,    \* the objects ftruncate has given their size
    content,  \* their content
    at,       \* the next step of each program
    open,     \* the object it has open, or None
    command,  \* the text the writer has read from the user
    seen,     \* what the reader has read of the content
    torn      \* history: a copy overlapped with the reading

shmVars == <<name, sized, content, at, open, command, seen, torn>>

ShmInit ==
    /\ name = None /\ sized = {}
    /\ content = [o \in Object |-> NoText]
    /\ at = [p \in {Writer, Reader} |-> "off"]
    /\ open = [p \in {Writer, Reader} |-> None]
    /\ command = NoText /\ seen = NoText /\ torn = FALSE

Goto(p, label) == at' = [at EXCEPT ![p] = label]

\* A program ends, at its end or because a call failed.
Ends(p) == Goto(p, "off") /\ open' = [open EXCEPT ![p] = None]

Start(p) ==
    /\ at[p] = "off" /\ Goto(p, "open")
    /\ UNCHANGED <<name, sized, content, open, command, seen, torn>>

\* shm_open, ftruncate or mmap fails.
Fail(p) ==
    /\ at[p] = "open" \/ (p = Writer /\ at[p] = "size")
    /\ Ends(p)
    /\ UNCHANGED <<name, sized, content, command, seen, torn>>
-----------------------------------------------------------------------------
\* shm_open with O_CREAT: the named object, or a new one of size 0.
WOpen ==
    /\ at[Writer] = "open" /\ Goto(Writer, "size")
    /\ IF name # None
       THEN open' = [open EXCEPT ![Writer] = name] /\ UNCHANGED <<name, sized, content>>
       ELSE LET new == CHOOSE o \in Object : o # open[Reader] IN
              /\ name' = new
              /\ open' = [open EXCEPT ![Writer] = new]
              /\ sized' = sized \ {new}
              /\ content' = [content EXCEPT ![new] = NoText]
    /\ UNCHANGED <<command, seen, torn>>

\* ftruncate and mmap.
WSize ==
    /\ at[Writer] = "size" /\ Goto(Writer, "type")
    /\ sized' = sized \cup {open[Writer]}
    /\ UNCHANGED <<name, content, open, command, seen, torn>>

\* fgets and sscanf; an empty line, or none, is not stored.
WType(t) ==
    /\ at[Writer] = "type"
    /\ IF t = NoText THEN Goto(Writer, "close") ELSE Goto(Writer, "copy")
    /\ command' = t
    /\ UNCHANGED <<name, sized, content, open, seen, torn>>

\* The reader has read a half of what the writer writes to.
Overlap == at[Reader] = "second" /\ open[Reader] = open[Writer]

Copy(k, text) ==
    /\ content' = [content EXCEPT ![open[Writer]][k] = text]
    /\ torn' = (torn \/ Overlap)
    /\ UNCHANGED <<name, sized, open, command, seen>>

\* strncpy, in two halves.
WCopyFirst == at[Writer] = "copy" /\ Goto(Writer, "pad") /\ Copy(1, command[1])

\* Mutant of WCopyRest: the rest of the region is not filled with zeros, so that
\* a short text keeps the end of the one before.
WCopyRestShort ==
    /\ at[Writer] = "pad" /\ Goto(Writer, "close")
    /\ Copy(2, IF command[2] = "" THEN content[open[Writer]][2] ELSE command[2])

\* The second half, or the zeros strncpy pads with.
WCopyRest == at[Writer] = "pad" /\ Goto(Writer, "close") /\ Copy(2, command[2])

\* munmap and close.
WClose ==
    /\ at[Writer] = "close" /\ Ends(Writer)
    /\ UNCHANGED <<name, sized, content, command, seen, torn>>
-----------------------------------------------------------------------------
\* shm_open, which fails without a name, and mmap, which does not look at the
\* size of the object.
ROpen ==
    /\ at[Reader] = "open"
    /\ IF name = None THEN Ends(Reader)
       ELSE Goto(Reader, "first") /\ open' = [open EXCEPT ![Reader] = name]
    /\ UNCHANGED <<name, sized, content, command, seen, torn>>

\* The print reads the region up to the first zero.  An object without a size is
\* SIGBUS, before the name is removed.
RFirst ==
    /\ at[Reader] = "first"
    /\ IF open[Reader] \notin sized THEN Ends(Reader) /\ UNCHANGED <<seen, torn>>
       ELSE /\ seen' = <<content[open[Reader]][1], "">>
            /\ torn' = (at[Writer] = "pad" /\ open[Writer] = open[Reader])
            /\ IF seen' = NoText THEN Goto(Reader, "unlink") ELSE Goto(Reader, "second")
            /\ UNCHANGED open
    /\ UNCHANGED <<name, sized, content, command>>

RSecond ==
    /\ at[Reader] = "second" /\ Goto(Reader, "unlink")
    /\ seen' = [seen EXCEPT ![2] = content[open[Reader]][2]]
    /\ UNCHANGED <<name, sized, content, open, command, torn>>

\* munmap, shm_unlink of whatever has the name now, and close.
RUnlink ==
    /\ at[Reader] = "unlink" /\ Ends(Reader)
    /\ name' = None
    /\ UNCHANGED <<sized, content, command, seen, torn>>

WriterStep == WOpen \/ WSize \/ WCopyFirst \/ WCopyRest \/ WClose
ReaderStep == ROpen \/ RFirst \/ RSecond \/ RUnlink

ShmNext ==
    \/ \E p \in {Writer, Reader} : Start(p) \/ Fail(p)
    \/ \E t \in Texts \cup {NoText} : WType(t)
    \/ WriterStep \/ ReaderStep

ShmFairness == WF_shmVars(WriterStep) /\ WF_shmVars(ReaderStep)
-----------------------------------------------------------------------------
ShmTypeOK ==
    /\ name \in Object \cup {None} /\ sized \subseteq Object
    /\ \A o \in Object : content[o] \in (Halves \cup {""}) \X (Halves \cup {""})
    /\ at[Writer] \in {"off", "open", "size", "type", "copy", "pad", "close"}
    /\ at[Reader] \in {"off", "open", "first", "second", "unlink"}
    /\ open \in [{Writer, Reader} -> Object \cup {None}]
    /\ command \in Texts \cup {NoText} /\ seen \in (Halves \cup {""}) \X (Halves \cup {""})
    /\ torn \in BOOLEAN

\* The reader prints nothing or a whole text, unless a copy overlapped with its
\* reading: whatever texts were in the object before, and whichever object it
\* has when the name has been removed and made again.
WholeText == at[Reader] = "unlink" /\ ~torn => seen \in Texts \cup {NoText}

\* Both programs come to an end; neither waits for the other.
ShmEnds ==
    /\ at[Reader] = "open" ~> at[Reader] = "off"
    /\ at[Writer] \in {"copy", "close"} ~> at[Writer] = "off"
=============================================================================
