------------------------------- MODULE ShmSem -------------------------------
(***************************************************************************)
(* chapter09/mmap_s_sem.c (the sender) and chapter09/mmap_r_sem.c (the     *)
(* receiver): a request/response dialogue through one POSIX shared-memory  *)
(* object, ordered by one System V semaphore.                              *)
(*                                                                         *)
(* The sender takes 1, stores a request, adds 2, takes 1, prints what the  *)
(* region holds and adds 1; the receiver takes 2, replaces the request by  *)
(* its length and adds 1.  The semaphore is modelled as Linux implements   *)
(* it: an operation that can proceed does so at once, whoever is queued;   *)
(* one that cannot is queued; an operation that raises the value completes *)
(* the queued operation it satisfies; a value above SEMVMX is refused with *)
(* ERANGE; an operation on a removed set returns at once with EIDRM or     *)
(* EINVAL.  Neither program looks at the result of semop.                  *)
(*                                                                         *)
(* The result of ftruncate is not looked at either: SIGBUS ends a program  *)
(* that touches an object without a size.                                  *)
(*                                                                         *)
(* One session: the sender is not run again once it has removed the set,   *)
(* or has died with the only token.                                        *)
(***************************************************************************)
EXTENDS Integers

CONSTANTS
    Words,        \* what the user may type on a line of the sender
    Contents,     \* the strings a buffer may hold
    Empty,        \* the empty string
    Strlen,       \* Strlen[c]: the length of c, printed in decimal
    SemMax,       \* SEMVMX, the largest value of a semaphore
    MaxRequests   \* bound of the model: lines the user may give before "exit"

ASSUME ContentsAssumption ==
    /\ Words \subseteq Contents
    /\ Empty \in Contents \ {"exit"} /\ "exit" \in Words
    /\ Strlen \in [Contents -> Contents \ {"exit"}]

ASSUME BoundsAssumption ==
    /\ SemMax \in Nat /\ SemMax >= 2
    /\ MaxRequests \in Nat

Sender   == "sender"
Receiver == "receiver"
Process  == {Sender, Receiver}
Other(p) == IF p = Sender THEN Receiver ELSE Sender

VARIABLES
    pc,        \* the next step of each process
    exists,    \* the semaphore set of the key exists
    val,       \* its value
    waiting,   \* the processes asleep in semop on it
    semid,     \* the identifier each process holds: of no set, of the
               \* existing set, or of a removed one
    named,     \* the name "/shared_memory" is linked
    sized,     \* ftruncate has given the object its size
    content,   \* the string the object holds
    command,   \* the sender's buffer `command`
    count,     \* the receiver's buffer `count`
    asked,     \* lines the sender has read (bounds the model)
    published, \* history: requests whose +2 succeeded
    served,    \* history: requests the receiver took with -2
    overtaken  \* history: the sender took the token it waits for as its
               \* answer while a published request had not been taken

sem  == <<exists, val, waiting, semid>>
shm  == <<named, sized, content>>
bufs == <<command, count, asked>>
hist == <<published, served, overtaken>>
vars == <<pc, sem, shm, bufs, hist>>

Setup == {"off", "create", "setval", "get", "open"}
SLabel == Setup \cup {"size", "acquire", "prompt", "store", "publish",
                      "await", "show", "remove", "done"}
RLabel == Setup \cup {"map", "take", "compare", "measure", "write",
                      "notify", "unlink", "done"}

Init ==
    /\ pc = [p \in Process |-> "off"]
    /\ exists = FALSE /\ val = 0 /\ waiting = {}
    /\ semid = [p \in Process |-> "none"]
    /\ named = FALSE /\ sized = FALSE /\ content = Empty
    /\ command \in Contents /\ count = Empty /\ asked = 0  \* `command` is not initialised
    /\ published = 0 /\ served = 0 /\ overtaken = FALSE

Goto(p, label) == pc' = [pc EXCEPT ![p] = label]
-----------------------------------------------------------------------------
(***************************************************************************)
(* The semaphore.                                                          *)
(***************************************************************************)
\* Mutant of Need: the receiver takes 1 token instead of 2.
NeedOne == [acquire |-> 1, await |-> 1, take |-> 1]

\* Mutant of Need: the sender's first operation takes 2.
NeedMore == [acquire |-> 2, await |-> 1, take |-> 2]

\* What each semop with a negative sem_op takes, and the step after it.
Need    == [acquire |-> 1, await |-> 1, take |-> 2]
Granted == [acquire |-> "prompt", await |-> "show", take |-> "compare"]

\* The history of a completed take of p, when `pub` requests are published.
Took(p, pub) ==
    /\ served' = IF p = Receiver THEN served + 1 ELSE served
    /\ overtaken' = (overtaken \/ (pc[p] = "await" /\ pub # served))

\* semop with sem_op = -Need[pc[p]].
Take(p) ==
    /\ pc[p] \in DOMAIN Need /\ p \notin waiting
    /\ UNCHANGED <<exists, semid, shm, bufs, published>>
    /\ \/ /\ semid[p] = "live" /\ val >= Need[pc[p]]
          /\ val' = val - Need[pc[p]]
          /\ Goto(p, Granted[pc[p]])
          /\ Took(p, published)
          /\ UNCHANGED waiting
       \/ /\ semid[p] = "live" /\ val < Need[pc[p]]
          /\ waiting' = waiting \cup {p}
          /\ UNCHANGED <<pc, val, served, overtaken>>
       \/ /\ semid[p] = "dead"               \* EINVAL, not looked at
          /\ Goto(p, Granted[pc[p]])
          /\ UNCHANGED <<val, waiting, served, overtaken>>

\* q is queued for no more than v.
Wakes(q, v) == q \in waiting /\ v >= Need[pc[q]]

\* The value becomes v by an operation of p, whose next step is `label`; the
\* operation of the other process q is completed if v satisfies it.
SetTo(p, q, v, label, pub) ==
    \/ /\ Wakes(q, v)
       /\ val' = v - Need[pc[q]]
       /\ waiting' = waiting \ {q}
       /\ pc' = [pc EXCEPT ![p] = label, ![q] = Granted[pc[q]]]
       /\ Took(q, pub)
    \/ /\ ~Wakes(q, v)
       /\ val' = v
       /\ Goto(p, label)
       /\ UNCHANGED <<waiting, served, overtaken>>

\* semop with a positive sem_op, by a process whose set may be gone or full.
Accepted(p, k) == semid[p] = "live" /\ val + k <= SemMax

Add(p, q, k, label, pub) ==
    \/ Accepted(p, k) /\ SetTo(p, q, val + k, label, pub)
    \/ /\ ~Accepted(p, k)                   \* ERANGE or EINVAL, not looked at
       /\ Goto(p, label)
       /\ UNCHANGED <<val, waiting, served, overtaken>>
-----------------------------------------------------------------------------
(***************************************************************************)
(* Start-up, the same code in both programs up to shm_open.                *)
(***************************************************************************)
\* The set has no token, and none is about to be put into it.
NoToken == exists /\ val = 0 /\ \A p \in Process : pc[p] # "setval"

Start(p) ==
    /\ pc[p] = "off"
    /\ p = Sender => ~NoToken
    /\ Goto(p, "create")
    /\ UNCHANGED <<sem, shm, bufs, hist>>

\* A set created by semget has the value 0.
NewSet(p) ==
    /\ exists' = TRUE
    /\ val' = 0
    /\ semid' = [semid EXCEPT ![p] = "live"]
    /\ UNCHANGED waiting

\* Mutant of Create: without IPC_EXCL both programs set the value.
CreateBoth(p) ==
    /\ pc[p] = "create"
    /\ Goto(p, "setval")
    /\ \/ ~exists /\ NewSet(p)
       \/ exists /\ semid' = [semid EXCEPT ![p] = "live"] /\ UNCHANGED <<exists, val, waiting>>
    /\ UNCHANGED <<shm, bufs, hist>>

\* semget with IPC_CREAT | IPC_EXCL: only the one that creates the set goes on
\* to set its value.
Create(p) ==
    /\ pc[p] = "create"
    /\ \/ ~exists /\ NewSet(p) /\ Goto(p, "setval")
       \/ exists /\ Goto(p, "get") /\ UNCHANGED sem
    /\ UNCHANGED <<shm, bufs, hist>>

\* semget with IPC_CREAT: opens the set, or makes one again if it was removed
\* since; its value is then never set.
Get(p) ==
    /\ pc[p] = "get"
    /\ Goto(p, "open")
    /\ \/ ~exists /\ NewSet(p)
       \/ /\ exists /\ semid' = [semid EXCEPT ![p] = "live"]
          /\ UNCHANGED <<exists, val, waiting>>
    /\ UNCHANGED <<shm, bufs, hist>>

\* semctl(semid, 0, SETVAL, 1).  The set of its creator is still there: only
\* the sender removes one, and it waits for this value first.
SetVal(p) ==
    /\ pc[p] = "setval"
    /\ SetTo(p, Other(p), 1, "open", published)
    /\ UNCHANGED <<exists, semid, shm, bufs, published>>

\* A failed shm_open or mmap, or SIGBUS, ends the program; the set stays.
Fail(p) ==
    /\ Goto(p, "off")
    /\ semid' = [semid EXCEPT ![p] = "none"]
    /\ UNCHANGED <<exists, val, waiting, shm, bufs, hist>>
-----------------------------------------------------------------------------
(***************************************************************************)
(* The sender.                                                             *)
(***************************************************************************)
\* shm_open with O_CREAT.
SOpen ==
    /\ pc[Sender] = "open"
    /\ \/ /\ named' = TRUE
          /\ Goto(Sender, "size")
          /\ UNCHANGED <<sized, content, sem, bufs, hist>>
       \/ Fail(Sender)

\* ftruncate, which leaves a fresh object full of zeros and one of the right
\* size as it is, and may fail, and mmap.
SSize ==
    /\ pc[Sender] = "size"
    /\ \/ /\ sized' \in {TRUE, sized}
          /\ Goto(Sender, "acquire")
          /\ UNCHANGED <<named, content, sem, bufs, hist>>
       \/ Fail(Sender)

\* fgets and sscanf read a word.
SType(w) ==
    /\ pc[Sender] = "prompt"
    /\ asked < MaxRequests \/ w = "exit"
    /\ command' = w
    /\ asked' = asked + 1
    /\ Goto(Sender, "store")
    /\ UNCHANGED <<count, sem, shm, hist>>

\* An empty line makes sscanf return 0, and at the end of input fgets leaves
\* the last line in place: the previous command is sent again.
SRepeat ==
    /\ pc[Sender] = "prompt" /\ asked < MaxRequests
    /\ asked' = asked + 1
    /\ Goto(Sender, "store")
    /\ UNCHANGED <<command, count, sem, shm, hist>>

\* End of input at the first prompt: sscanf scans the uninitialised `line`,
\* which holds some string, or nothing (sscanf returns EOF: the loop ends).
SUninitialised ==
    /\ pc[Sender] = "prompt" /\ asked = 0 /\ asked < MaxRequests
    /\ asked' = asked + 1
    /\ \/ command' \in Contents \ {Empty} /\ Goto(Sender, "store")
       \/ UNCHANGED command /\ Goto(Sender, "remove")
    /\ UNCHANGED <<count, sem, shm, hist>>

\* strncpy(p, command, ...).
SStore ==
    /\ pc[Sender] = "store"
    /\ \/ /\ sized
          /\ content' = command
          /\ Goto(Sender, "publish")
          /\ UNCHANGED <<named, sized, sem, bufs, hist>>
       \/ ~sized /\ Fail(Sender)

\* Mutant of SPublish: sem_op = 1.
SPublishOne ==
    /\ pc[Sender] = "publish"
    /\ published' = IF Accepted(Sender, 1) THEN published + 1 ELSE published
    /\ Add(Sender, Receiver, 1, IF command = "exit" THEN "remove" ELSE "await", published')
    /\ UNCHANGED <<exists, semid, shm, bufs>>

\* sem_op = 2, then the test of "exit".
SPublish ==
    /\ pc[Sender] = "publish"
    /\ published' = IF Accepted(Sender, 2) THEN published + 1 ELSE published
    /\ Add(Sender, Receiver, 2, IF command = "exit" THEN "remove" ELSE "await", published')
    /\ UNCHANGED <<exists, semid, shm, bufs>>

\* Prints command and the region, then sem_op = 1.
SShow ==
    /\ pc[Sender] = "show"
    /\ Add(Sender, Receiver, 1, "acquire", published)
    /\ UNCHANGED <<exists, semid, shm, bufs, published>>

\* semctl IPC_RMID: whoever waits is woken with EIDRM and goes on as if granted.
SRemove ==
    /\ pc[Sender] = "remove"
    /\ exists' = FALSE /\ val' = 0 /\ waiting' = {}
    /\ semid' = [p \in Process |-> IF semid[p] = "live" THEN "dead" ELSE semid[p]]
    /\ pc' = [p \in Process |-> IF p = Sender THEN "done"
                                ELSE IF p \in waiting THEN Granted[pc[p]] ELSE pc[p]]
    /\ UNCHANGED <<shm, bufs, hist>>
-----------------------------------------------------------------------------
(***************************************************************************)
(* The receiver.                                                           *)
(***************************************************************************)
\* shm_open without O_CREAT.
ROpen ==
    /\ pc[Receiver] = "open"
    /\ \/ /\ named
          /\ Goto(Receiver, "map")
          /\ UNCHANGED <<sem, shm, bufs, hist>>
       \/ Fail(Receiver)

RMap ==
    /\ pc[Receiver] = "map"
    /\ \/ /\ Goto(Receiver, "take")
          /\ UNCHANGED <<sem, shm, bufs, hist>>
       \/ Fail(Receiver)

\* Mutant of RCompare: another buffer is compared.
RCompareCount ==
    /\ pc[Receiver] = "compare"
    /\ Goto(Receiver, IF count = "exit" THEN "unlink" ELSE "measure")
    /\ UNCHANGED <<sem, shm, bufs, hist>>

\* strcmp(p, "exit").
RCompare ==
    /\ pc[Receiver] = "compare"
    /\ \/ /\ sized
          /\ Goto(Receiver, IF content = "exit" THEN "unlink" ELSE "measure")
          /\ UNCHANGED <<sem, shm, bufs, hist>>
       \/ ~sized /\ Fail(Receiver)

\* strlen(p) and snprintf into `count`.
RMeasure ==
    /\ pc[Receiver] = "measure"
    /\ count' = Strlen[content]
    /\ Goto(Receiver, "write")
    /\ UNCHANGED <<command, asked, sem, shm, hist>>

\* Mutant of RWrite: the answer is not copied to the region.
RWriteNot ==
    /\ pc[Receiver] = "write"
    /\ Goto(Receiver, "notify")
    /\ UNCHANGED <<sem, shm, bufs, hist>>

\* strncpy(p, count, 4096).
RWrite ==
    /\ pc[Receiver] = "write"
    /\ content' = count
    /\ Goto(Receiver, "notify")
    /\ UNCHANGED <<named, sized, sem, bufs, hist>>

\* Mutant of RNotify: the token is not given back.
RNotifyNot ==
    /\ pc[Receiver] = "notify"
    /\ Goto(Receiver, "take")
    /\ UNCHANGED <<sem, shm, bufs, hist>>

\* sem_op = 1.
RNotify ==
    /\ pc[Receiver] = "notify"
    /\ Add(Receiver, Sender, 1, "take", published)
    /\ UNCHANGED <<exists, semid, shm, bufs, published>>

\* munmap, close and shm_unlink.
RUnlink ==
    /\ pc[Receiver] = "unlink"
    /\ named' = FALSE
    /\ Goto(Receiver, "done")
    /\ UNCHANGED <<sized, content, sem, bufs, hist>>
-----------------------------------------------------------------------------
Common(p) == Create(p) \/ Get(p) \/ SetVal(p) \/ Take(p)

\* The steps a program takes without waiting for its user.
SenderStep   == Common(Sender) \/ SOpen \/ SSize \/ SStore \/ SPublish
                  \/ SShow \/ SRemove
ReceiverStep == Common(Receiver) \/ ROpen \/ RMap \/ RCompare \/ RMeasure
                  \/ RWrite \/ RNotify \/ RUnlink

UserStep == \/ \E p \in Process : Start(p)
            \/ \E w \in Words : SType(w)
            \/ SRepeat
            \/ SUninitialised

Next == SenderStep \/ ReceiverStep \/ UserStep

Spec == Init /\ [][Next]_vars

\* The kernel runs every program that can run; nothing obliges the user.
FairSpec == Spec /\ WF_vars(SenderStep) /\ WF_vars(ReceiverStep)
-----------------------------------------------------------------------------
\* Every variable keeps its type, and each process stays in its own program.
TypeOK ==
    /\ pc \in [Process -> SLabel \cup RLabel]
    /\ pc[Sender] \in SLabel /\ pc[Receiver] \in RLabel
    /\ exists \in BOOLEAN /\ val \in 0..SemMax /\ waiting \subseteq Process
    /\ semid \in [Process -> {"none", "live", "dead"}]
    /\ named \in BOOLEAN /\ sized \in BOOLEAN /\ content \in Contents
    /\ command \in Contents /\ count \in Contents /\ asked \in Nat
    /\ published \in Nat /\ served \in Nat /\ overtaken \in BOOLEAN

\* The sender has not yet removed the set.
SessionOpen == pc[Sender] # "done"

\* The sender between a completed -1 and its next +2 or +1.
SHolds == pc[Sender] \in {"prompt", "store", "publish", "show"}

\* The receiver between a completed -2 and its next +1.
RBusy == pc[Receiver] \in {"compare", "measure", "write", "notify", "unlink", "done"}

\* The receiver handles a request it took from the existing set, as opposed to
\* running on because its set is gone.
RServing == RBusy /\ semid[Receiver] = "live"

Serving == IF RServing THEN 1 ELSE 0
Holding == IF SHolds THEN 1 ELSE 0

\* As long as the sender runs, the value never exceeds what the protocol has
\* issued: one token, one more for each published request not yet taken, less
\* the one each process holds.  (It can be below: ERANGE loses tokens.)
TokensConserved ==
    SessionOpen => val + Holding + Serving <= 1 + published - served

\* The receiver never handles a request that was not published: with the set
\* in place its -2 cannot be satisfied by left-over tokens of earlier rounds.
NoPhantomRequest == SessionOpen => served <= published

\* The two processes are in the region together only when the sender has
\* overtaken the receiver; otherwise the strncpy of one never meets a strncpy,
\* strcmp or strlen of the other.
Exclusion == SHolds /\ RServing => overtaken

\* Unless the sender has overtaken the receiver, the region it prints holds
\* the length of the very command it sent.
ReplyMatches ==
    pc[Sender] = "show" /\ ~overtaken => content = Strlen[command]

\* The receiver takes a request only from an object that ftruncate has given a
\* size, although neither program checks: as long as the sender has not removed
\* the set, the receiver does not die of SIGBUS.
SizedBeforeUse == SessionOpen /\ RServing => sized

\* The receiver unlinks the name only when the sender has stored "exit" or is
\* gone: it never takes the region away from a dialogue that continues.
UnlinkedLast == pc[Receiver] \in {"unlink", "done"} =>
                   \/ pc[Sender] \in {"remove", "done"}
                   \/ pc[Sender] = "publish" /\ command = "exit"

\* A request published while the receiver sleeps for it is handed over in the
\* same step: a sender that has not overtaken the receiver cannot do so then.
HandedOver ==
    [][(Receiver \in waiting /\ ~overtaken /\ published' > published)
           => served' = published']_vars
-----------------------------------------------------------------------------
\* A sender that waits for its turn or for an answer always gets on: whatever
\* the interleaving, tokens are not lost for good and the receiver gives one
\* back (with FairSpec).
SenderServed == (pc[Sender] \in {"acquire", "await"})
                   ~> (pc[Sender] \notin {"acquire", "await"})

\* "exit" was sent and the set is removed under a receiver attached to it.
ExitSent == /\ pc[Sender] = "done" /\ published > 0 /\ command = "exit"
            /\ semid[Receiver] = "dead"

\* Unless the sender has overtaken the receiver, the receiver attached to the
\* set of a sender that sent "exit" finishes too.
CleanShutdown == (ExitSent /\ ~overtaken) ~> (pc[Receiver] \in {"done", "off"})
-----------------------------------------------------------------------------
(***************************************************************************)
(* The inductive invariant: why the safety properties hold.                *)
(***************************************************************************)
\* Which identifier a process holds at which step.
SemidOK ==
    /\ \A p \in Process :
          /\ pc[p] \in {"off", "create", "get"} <=> semid[p] = "none"
          /\ semid[p] = "live" => exists
          /\ pc[p] = "setval" => semid[p] = "live"
    /\ semid[Sender] = "dead" <=> pc[Sender] = "done"
    /\ semid[Receiver] = "dead" => pc[Sender] = "done"
    /\ ~exists => val = 0

\* A process asleep is at a take, on the existing set, which holds too little.
SleepOK ==
    \A p \in waiting : /\ pc[p] \in DOMAIN Need
                       /\ semid[p] = "live"
                       /\ val < Need[pc[p]]

\* Nothing has happened on the set before its creator sets the value.
FreshOK ==
    SessionOpen =>
      /\ ~exists => /\ published = 0 /\ served = 0
                    /\ \A p \in Process : pc[p] \in {"off", "create"}
      /\ \A p \in Process :
            pc[p] = "setval" =>
              /\ val = 0 /\ published = 0 /\ served = 0
              /\ pc[Other(p)] # "setval" /\ ~RServing
              /\ pc[Sender] \in Setup \cup {"size", "acquire"}
      /\ pc[Sender] \in Setup \cup {"size"} => published = 0

\* A request has been stored only in an object with a size.
SizeOK ==
    /\ pc[Sender] \in {"publish", "await", "show"} => sized
    /\ published > 0 => sized
    /\ RBusy => sized \/ pc[Receiver] = "compare"
    /\ SizedBeforeUse

\* "exit" in the region is the sender's last request.
ExitOK ==
    /\ content = "exit" => \/ pc[Sender] \in {"remove", "done"}
                           \/ pc[Sender] = "publish" /\ command = "exit"
    /\ count # "exit"
    /\ pc[Sender] = "await" => command # "exit"

\* Where the request and its answer are while the sender waits, as long as it
\* has not overtaken the receiver.
Answering ==
    /\ pc[Receiver] \in {"compare", "measure"} => content = command
    /\ pc[Receiver] = "write" => count = Strlen[command]
    /\ pc[Receiver] = "notify" => content = Strlen[command]
    /\ pc[Receiver] \notin {"unlink", "done"}

InStep ==
    SessionOpen /\ ~overtaken =>
      /\ pc[Sender] \notin {"await", "remove"} => published = served
      /\ pc[Sender] = "publish" => content = command
      /\ pc[Sender] = "show" => content = Strlen[command]
      /\ pc[Sender] = "await" =>
           \/ /\ published = served + 1 /\ ~RServing
              /\ content = command
           \/ /\ published = served
              /\ IF RServing THEN Answering ELSE content = Strlen[command]

IInv ==
    /\ TypeOK
    /\ SemidOK
    /\ SleepOK
    /\ FreshOK
    /\ TokensConserved
    /\ NoPhantomRequest
    /\ SizeOK
    /\ ExitOK
    /\ UnlinkedLast
    /\ InStep
-----------------------------------------------------------------------------
\* mmap_s_sem.c:282: the second -1 waits until the other side has written its
\* answer.  (Violated: the sender may take the tokens it has just added.)
AnswerAwaited == pc[Sender] = "show" => content = Strlen[command]

\* mmap_r_sem.c:212: the receiver ends when the request is "exit".  (Violated:
\* when it was overtaken, its late answer replaces "exit", and it then runs on
\* without the set.)
ExitEndsReceiver == ExitSent ~> (pc[Receiver] \in {"done", "off"})
=============================================================================
