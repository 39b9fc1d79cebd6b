------------------------------ MODULE FileMode ------------------------------
(***************************************************************************)
(* chapter06/mymask.c: stat reads the mode of a file, chmod stores it back *)
(* without the bits of 0066.  Between the two calls another run of the     *)
(* program, or another process, may change the mode.  A mode is the set of *)
(* its permission bits; group and others, which the program treats alike,  *)
(* are one class "g", and the file type, which chmod ignores, is left out. *)
(***************************************************************************)
CONSTANTS
    Runs,    \* runs of mymask on the same file
    Modes    \* the modes the file may have at the start

\* The bits of a mode: who may do what.
Bits == {"u", "g"} \X {"r", "w", "x"}

\* 0066.
Mask == {"g"} \X {"r", "w"}

VARIABLES
    call,      \* the next call of each run
    mode,      \* st_mode of the file
    buf,       \* what stat has stored for each run
    original,  \* history: the mode at the start
    taken,     \* history: the permissions another process has taken away
    unseen     \* history: those taken away between the stat and the chmod of
               \* each run

vars == <<call, mode, buf, original, taken, unseen>>

\* mode = buf.st_mode & ~0066.
Masked(m) == m \ Mask

FileInit ==
    /\ call = [r \in Runs |-> "stat"]
    /\ mode \in Modes
    /\ buf = [r \in Runs |-> {}]
    /\ original = mode /\ taken = {}
    /\ unseen = [r \in Runs |-> {}]

\* Mutant of Stat: its failure is not looked at.
StatUnchecked(r) ==
    /\ call[r] = "stat"
    /\ call' = [call EXCEPT ![r] = "chmod"]
    /\ buf' = [buf EXCEPT ![r] = mode] \/ UNCHANGED buf
    /\ UNCHANGED <<mode, original, taken, unseen>>

Stat(r) ==
    /\ call[r] = "stat"
    /\ \/ call' = [call EXCEPT ![r] = "chmod"] /\ buf' = [buf EXCEPT ![r] = mode]
       \/ call' = [call EXCEPT ![r] = "failed"] /\ UNCHANGED buf
    /\ UNCHANGED <<mode, original, taken, unseen>>

Chmod(r) ==
    /\ call[r] = "chmod"
    /\ \/ call' = [call EXCEPT ![r] = "done"] /\ mode' = Masked(buf[r])
       \/ call' = [call EXCEPT ![r] = "failed"] /\ UNCHANGED mode
    /\ UNCHANGED <<buf, original, taken, unseen>>

\* Another process takes a permission away.
Revoke(b) ==
    /\ b \in mode
    /\ mode' = mode \ {b}
    /\ taken' = taken \cup {b}
    /\ unseen' = [r \in Runs |-> IF call[r] = "chmod" THEN unseen[r] \cup {b} ELSE unseen[r]]
    /\ UNCHANGED <<call, buf, original>>

FileNext == (\E r \in Runs : Stat(r) \/ Chmod(r)) \/ \E b \in Bits : Revoke(b)
-----------------------------------------------------------------------------
FileTypeOK ==
    /\ call \in [Runs -> {"stat", "chmod", "done", "failed"}]
    /\ mode \subseteq Bits /\ buf \in [Runs -> SUBSET Bits]
    /\ original \subseteq Bits /\ taken \subseteq Bits /\ unseen \in [Runs -> SUBSET Bits]

\* The permissions that overlapping runs may have brought back: each of them had
\* been taken away between the stat and the chmod of a run that succeeded.
Undone == UNION {unseen[r] : r \in {s \in Runs : call[s] = "done"}}

\* The bits that are to be gone.
Gone == IF \E r \in Runs : call[r] = "done" THEN Mask ELSE {}

\* Several runs overlap with each other and with a process that takes permissions
\* away, and each stores a whole mode it has read before.  No run gives the file a
\* permission it did not have, nor, once one has succeeded, one of the mask; none
\* loses a permission that nobody took away; and what was taken away comes back
\* only by a run whose stat came before and whose chmod came after.
ChangesKept ==
    /\ mode \subseteq original \ Gone
    /\ original \ (taken \cup Gone) \subseteq mode
    /\ mode \cap taken \subseteq Undone
=============================================================================
