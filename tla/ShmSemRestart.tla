--------------------------- MODULE ShmSemRestart ---------------------------
(***************************************************************************)
(* The dialogue of ShmSem when programs are killed at any step and run     *)
(* again on what is left behind: the semaphore set with its value (no      *)
(* operation has SEM_UNDO, and a set that exists is not set to 1 again),   *)
(* the object with its content, and a program of the other side that still *)
(* runs.  At most one sender and one receiver run at a time.               *)
(***************************************************************************)
EXTENDS ShmSem

CONSTANT MaxRuns   \* bound of the model: how often the programs are started

ASSUME MaxRunsAssumption == MaxRuns \in Nat

VARIABLES
    runs,   \* how often a program was started (bounds the model)
    stale   \* history: when the sender was started, a request of an earlier one
            \* was untaken, or a receiver was running that belongs to a removed
            \* set or works on a request of a stale dialogue

restart     == <<runs, stale>>
restartVars == <<vars, restart>>

RestartInit == Init /\ runs = 0 /\ stale = FALSE

Idle(p) == pc[p] \in {"off", "done"}
-----------------------------------------------------------------------------
Enter(p) ==
    /\ Idle(p) /\ runs < MaxRuns
    /\ runs' = runs + 1
    /\ Goto(p, "create")
    /\ semid' = [semid EXCEPT ![p] = "none"]
    /\ UNCHANGED <<exists, val, waiting, shm>>

\* The sender is started; its buffer `command` is not initialised.  The
\* history of a set it has removed ends.
RunSender ==
    /\ Enter(Sender)
    /\ command' \in Contents /\ asked' = 0
    /\ overtaken' = FALSE
    /\ LET gone == pc[Sender] = "done" IN
         /\ published' = IF gone THEN 0 ELSE published
         /\ served'    = IF gone THEN 0 ELSE served
         /\ stale' = \/ ~Idle(Receiver) /\ (semid[Receiver] = "dead" \/ (stale /\ RBusy))
                     \/ ~gone /\ published # served
    /\ UNCHANGED count

RunReceiver ==
    /\ Enter(Receiver)
    /\ count' = Empty
    /\ UNCHANGED <<command, asked, hist, stale>>

\* A program is killed, be it asleep in semop: the value stays as it is.
Kill(p) ==
    /\ ~Idle(p)
    /\ Goto(p, "off")
    /\ waiting' = waiting \ {p}
    /\ semid' = [semid EXCEPT ![p] = "none"]
    /\ UNCHANGED <<exists, val, shm, bufs, hist, restart>>

\* ipcrm -s, as in the sample run of mmap_r_sem.c, when no program runs.
Ipcrm ==
    /\ exists /\ \A p \in Process : Idle(p)
    /\ exists' = FALSE /\ val' = 0
    /\ semid' = [p \in Process |-> IF semid[p] = "live" THEN "dead" ELSE semid[p]]
    /\ published' = 0 /\ served' = 0
    /\ UNCHANGED <<pc, waiting, shm, bufs, overtaken, restart>>

\* shm_open with O_CREAT after the name was unlinked: an object without size
\* and content.  (The sender's old object, if any, died with its process.)
NewObject ==
    /\ pc[Sender] = "open" /\ ~named
    /\ named' = TRUE /\ sized' = FALSE /\ content' = Empty
    /\ Goto(Sender, "size")
    /\ UNCHANGED <<sem, bufs, hist>>

SenderRuns ==
    /\ \/ NewObject
       \/ SenderStep /\ ~(SOpen /\ ~named /\ named')
    /\ UNCHANGED restart

ReceiverRuns == ReceiverStep /\ UNCHANGED restart

Typing ==
    /\ (\E w \in Words : SType(w)) \/ SRepeat \/ SUninitialised
    /\ UNCHANGED restart

RestartNext ==
    \/ SenderRuns \/ ReceiverRuns \/ Typing
    \/ RunSender \/ RunReceiver
    \/ \E p \in Process : Kill(p)
    \/ Ipcrm

RestartSpec ==
    /\ RestartInit /\ [][RestartNext]_restartVars
    /\ WF_restartVars(SenderRuns) /\ WF_restartVars(ReceiverRuns)
-----------------------------------------------------------------------------
\* A program between a completed take and the add that gives a token back.
Holds(p) ==
    /\ semid[p] = "live"
    /\ IF p = Sender THEN SHolds
       ELSE pc[p] \in {"compare", "measure", "write", "notify", "unlink"}

\* The tokens of the set that are gone for good: the one a new set is to get,
\* one for each untaken request, less those in the value and in hand.
Lost ==
    LET inHand == {p \in Process : Holds(p) \/ pc[p] = "setval"}
    IN  1 + published - served - val
          - (IF Sender \in inHand THEN 1 ELSE 0)
          - (IF Receiver \in inHand THEN 1 ELSE 0)

\* What loses a token: a program killed with it (or before it has put it
\* into the new set), an add that the semaphore refuses, a sender whose input
\* has ended and a receiver that was told to exit.
Left(p, label) == pc[p] = label /\ pc'[p] # label

Loses ==
    \/ \E p \in Process : (Holds(p) \/ pc[p] = "setval") /\ pc'[p] = "off"
    \/ Left(Sender, "publish") /\ val + 2 > SemMax
    \/ Left(Sender, "show") /\ val + 1 > SemMax
    \/ Left(Sender, "prompt") /\ pc'[Sender] = "remove"
    \/ Holds(Receiver) /\ Left(Receiver, "notify") /\ val + 1 > SemMax
    \/ Holds(Receiver) /\ Left(Receiver, "unlink")

\* The semaphore is accounted for exactly over any number of kills and runs:
\* a token of the set is lost in these cases and in no other, and none ever
\* comes back or is invented.
TokenAccount ==
    [][exists /\ exists' /\ SessionOpen =>
         IF Loses THEN Lost' = Lost + 1 ELSE Lost' = Lost]_restartVars

\* A dialogue that began over no such remains (stale) is as good as a first one,
\* whatever its set and its object went through before: unless the sender
\* overtakes the receiver, the two are not in the region together, the answer
\* printed is the one to the command, and the receiver finds an object with a
\* size.
CleanStart ==
    ~stale /\ ~overtaken =>
      /\ ~(SHolds /\ RServing)
      /\ pc[Sender] = "show" => content = Strlen[command]
      /\ SessionOpen /\ Holds(Receiver) => sized

\* A sender waits in semop only as long as a token is lost: as long as all are
\* accounted for, it gets on even if the receiver is killed and started again
\* (with RestartSpec).
SenderWaits == exists /\ pc[Sender] \in {"acquire", "await"}
Recovers == (SenderWaits /\ Lost = 0) ~> (~SenderWaits \/ Lost > 0)
=============================================================================
