---------------------------- MODULE ShmSemProofs ----------------------------
(***************************************************************************)
(* Proofs about ShmSem, for every set of words, every SEMVMX of at least 2 *)
(* and every number of requests.  All theorems follow from one inductive   *)
(* invariant, IInv of ShmSem: the count of tokens (TokensConserved) makes  *)
(* the -2 of the receiver wait for a published request and keeps the two   *)
(* processes apart, and InStep follows a request and its answer through    *)
(* the region while the sender has not overtaken the receiver.             *)
(***************************************************************************)
EXTENDS ShmSem, TLAPS

\* What the three takes need and where they lead.
LEMMA TakeLabels ==
    /\ DOMAIN Need = {"acquire", "await", "take"}
    /\ Need["acquire"] = 1 /\ Need["await"] = 1 /\ Need["take"] = 2
    /\ Granted["acquire"] = "prompt" /\ Granted["await"] = "show"
    /\ Granted["take"] = "compare"
BY DEF Need, Granted

\* The initial states satisfy the invariant.
LEMMA InitIInv == ASSUME Init PROVE IInv
<1>1. /\ pc = [p \in Process |-> "off"] /\ semid = [p \in Process |-> "none"]
      /\ exists = FALSE /\ val = 0 /\ waiting = {} /\ published = 0 /\ served = 0
      /\ overtaken = FALSE /\ content = Empty /\ count = Empty
  BY DEF Init
<1>2. pc[Sender] = "off" /\ pc[Receiver] = "off"
  BY <1>1 DEF Process
<1>3. TypeOK
  <2>1. pc \in [Process -> SLabel \cup RLabel] /\ semid \in [Process -> {"none", "live", "dead"}]
    BY <1>1 DEF SLabel, Setup
  <2>2. pc[Sender] \in SLabel /\ pc[Receiver] \in RLabel
    BY <1>2 DEF SLabel, RLabel, Setup
  <2>3. val \in 0..SemMax
    BY <1>1, BoundsAssumption
  <2>4. content \in Contents /\ command \in Contents /\ count \in Contents
    BY ContentsAssumption DEF Init
  <2>5. named \in BOOLEAN /\ sized \in BOOLEAN /\ asked \in Nat
    BY DEF Init
  <2> QED
    BY <2>1, <2>2, <2>3, <2>4, <2>5, <1>1 DEF TypeOK
<1>4. SemidOK
  BY <1>1, <1>2 DEF SemidOK, Process, Sender, Receiver
<1>5. SleepOK
  BY <1>1 DEF SleepOK
<1>6. FreshOK
  BY <1>1, <1>2 DEF FreshOK, Process, Setup
<1>7. ~SHolds /\ ~RBusy
  BY <1>2 DEF SHolds, RBusy
<1>8. TokensConserved /\ NoPhantomRequest
  BY <1>1, <1>7 DEF TokensConserved, NoPhantomRequest, Holding, Serving, RServing
<1>9. SizeOK /\ UnlinkedLast /\ InStep /\ ExitOK
  BY <1>1, <1>2, <1>7, ContentsAssumption
     DEF SizeOK, SizedBeforeUse, RServing, UnlinkedLast, InStep, ExitOK, Setup
<1> QED
  BY <1>3, <1>4, <1>5, <1>6, <1>8, <1>9 DEF IInv

\* Which takes belong to which process.
LEMMA Roles ==
    ASSUME IInv, NEW p \in Process, pc[p] \in DOMAIN Need
    PROVE  \/ /\ p = Sender /\ pc[p] \in {"acquire", "await"}
              /\ Need[pc[p]] = 1
              /\ Granted[pc[p]] = IF pc[p] = "acquire" THEN "prompt" ELSE "show"
           \/ /\ p = Receiver /\ pc[p] = "take" /\ Need[pc[p]] = 2
              /\ Granted[pc[p]] = "compare"
<1>1. p = Sender \/ p = Receiver
  BY DEF Process
<1> QED
  BY <1>1, TakeLabels DEF IInv, TypeOK, SLabel, RLabel, Setup, Sender, Receiver

\* Where a process sleeps.
LEMMA Sleepers ==
    ASSUME IInv
    PROVE  /\ Sender \in waiting =>
                /\ pc[Sender] \in {"acquire", "await"} /\ semid[Sender] = "live"
                /\ val = 0 /\ Need[pc[Sender]] = 1
           /\ Receiver \in waiting =>
                /\ pc[Receiver] = "take" /\ semid[Receiver] = "live"
                /\ val < 2 /\ Need[pc[Receiver]] = 2
<1>1. val \in Nat
  BY BoundsAssumption DEF IInv, TypeOK
<1> QED
  BY <1>1, Roles DEF IInv, TypeOK, SleepOK, Process, Sender, Receiver

\* As long as the sender runs, the receiver's set is the existing one.
LEMMA BusyServes == IInv /\ SessionOpen /\ RBusy => RServing
BY DEF IInv, TypeOK, SemidOK, SessionOpen, RBusy, RServing, Process

\* A sender in the region that has not overtaken the receiver is there alone.
LEMMA InStepExclusion ==
    ASSUME IInv, SHolds, ~overtaken
    PROVE  ~RServing /\ ~RBusy /\ val = 0
<1>1. published = served /\ SessionOpen
  BY DEF IInv, InStep, SessionOpen, SHolds
<1>2. ~RServing /\ val = 0
  BY <1>1, BoundsAssumption DEF IInv, TypeOK, TokensConserved, Holding, Serving
<1> QED
  BY <1>1, <1>2, BusyServes

\* What a positive semop of the sender does.
LEMMA SenderAdds ==
    ASSUME IInv, NEW k \in {1, 2}, NEW label, NEW pub,
           pc[Sender] \in {"publish", "show"}, Add(Sender, Receiver, k, label, pub)
    PROVE  \/ /\ semid[Sender] = "live" /\ val + k \in 2..SemMax
              /\ Receiver \in waiting /\ pc[Receiver] = "take"
              /\ semid[Receiver] = "live"
              /\ val' = val + k - 2 /\ waiting' = {}
              /\ pc' = [pc EXCEPT ![Sender] = label, ![Receiver] = "compare"]
              /\ served' = served + 1 /\ overtaken' = overtaken
           \/ /\ semid[Sender] = "live" /\ val + k \in 0..SemMax
              /\ Receiver \in waiting => val + k < 2
              /\ val' = val + k /\ waiting' = waiting
              /\ pc' = [pc EXCEPT ![Sender] = label]
              /\ served' = served /\ overtaken' = overtaken
           \/ /\ ~Accepted(Sender, k)
              /\ val' = val /\ waiting' = waiting
              /\ pc' = [pc EXCEPT ![Sender] = label]
              /\ served' = served /\ overtaken' = overtaken
<1>1. val \in Nat /\ SemMax \in Nat /\ waiting \subseteq {Sender, Receiver}
  BY BoundsAssumption DEF IInv, TypeOK, Process
<1>2. Other(Sender) = Receiver /\ Sender # Receiver
  BY DEF Other, Sender, Receiver
<1>3. Sender \notin waiting
  BY Sleepers
<1>4. Receiver \in waiting => /\ pc[Receiver] = "take" /\ semid[Receiver] = "live"
                              /\ Need[pc[Receiver]] = 2 /\ Granted[pc[Receiver]] = "compare"
  BY Sleepers, TakeLabels
<1>5. CASE Accepted(Sender, k) /\ Wakes(Receiver, val + k)
  <2>1. Receiver \in waiting /\ Need[pc[Receiver]] = 2 /\ val + k >= 2
    BY <1>4, <1>5 DEF Wakes
  <2>2. SetTo(Sender, Receiver, val + k, label, pub)
    BY <1>5 DEF Add
  <2>3. val' = val + k - 2 /\ waiting' = waiting \ {Receiver}
    BY <2>1, <2>2, <1>1, <1>5 DEF SetTo
  <2>4. pc' = [pc EXCEPT ![Sender] = label, ![Receiver] = "compare"]
    BY <2>1, <2>2, <1>4, <1>5 DEF SetTo
  <2>5. served' = served + 1 /\ overtaken' = overtaken
    BY <2>1, <2>2, <1>4, <1>5 DEF SetTo, Took, IInv, TypeOK
  <2> QED
    BY <2>1, <2>3, <2>4, <2>5, <1>1, <1>3, <1>4, <1>5 DEF Accepted
<1>6. CASE Accepted(Sender, k) /\ ~Wakes(Receiver, val + k)
  <2>1. Receiver \in waiting => val + k < 2
    BY <1>1, <1>4, <1>6 DEF Wakes
  <2> QED
    BY <2>1, <1>1, <1>6 DEF Add, SetTo, Accepted, Goto
<1>7. CASE ~Accepted(Sender, k)
  BY <1>7 DEF Add, Goto
<1> QED
  BY <1>5, <1>6, <1>7

\* What the receiver's +1 does.
LEMMA ReceiverAdds ==
    ASSUME IInv, pc[Receiver] = "notify", Add(Receiver, Sender, 1, "take", published)
    PROVE  \/ /\ Sender \in waiting /\ pc[Sender] \in {"acquire", "await"}
              /\ semid[Receiver] = "live" /\ semid[Sender] = "live" /\ val = 0
              /\ val' = 0 /\ waiting' = {}
              /\ pc' = [pc EXCEPT ![Receiver] = "take", ![Sender] = Granted[pc[Sender]]]
              /\ served' = served
              /\ overtaken' = (overtaken \/ (pc[Sender] = "await" /\ published # served))
           \/ /\ Sender \notin waiting
              /\ semid[Receiver] = "live" /\ val + 1 \in 0..SemMax
              /\ val' = val + 1 /\ waiting' = waiting
              /\ pc' = [pc EXCEPT ![Receiver] = "take"]
              /\ served' = served /\ overtaken' = overtaken
           \/ /\ Sender \notin waiting
              /\ val' = val /\ waiting' = waiting
              /\ pc' = [pc EXCEPT ![Receiver] = "take"]
              /\ served' = served /\ overtaken' = overtaken
<1>1. /\ val \in Nat /\ SemMax \in Nat /\ SemMax >= 2
      /\ waiting \subseteq {Sender, Receiver} /\ Sender # Receiver
  BY BoundsAssumption DEF IInv, TypeOK, Process, Sender, Receiver
<1>2. Receiver \notin waiting
  BY Sleepers
<1>3. Sender \in waiting => /\ pc[Sender] \in {"acquire", "await"} /\ semid[Sender] = "live"
                            /\ val = 0 /\ Need[pc[Sender]] = 1
                            /\ semid[Receiver] = "live"
  <2>1. semid[Receiver] \in {"live", "dead"}
    BY DEF IInv, TypeOK, SemidOK, Process
  <2> QED
    BY <2>1, Sleepers DEF IInv, SemidOK
<1>4. CASE Accepted(Receiver, 1) /\ Wakes(Sender, val + 1)
  <2>1. Sender \in waiting
    BY <1>4 DEF Wakes
  <2>2. SetTo(Receiver, Sender, val + 1, "take", published)
    BY <1>4 DEF Add
  <2>3. val' = 0 /\ waiting' = waiting \ {Sender}
    BY <2>1, <2>2, <1>1, <1>3, <1>4 DEF SetTo
  <2>4. pc' = [pc EXCEPT ![Receiver] = "take", ![Sender] = Granted[pc[Sender]]]
    BY <2>2, <1>4 DEF SetTo
  <2>5. /\ served' = served
        /\ overtaken' = (overtaken \/ (pc[Sender] = "await" /\ published # served))
    BY <2>2, <1>1, <1>4 DEF SetTo, Took
  <2> QED
    BY <2>1, <2>3, <2>4, <2>5, <1>1, <1>2, <1>3, <1>4
<1>5. CASE Accepted(Receiver, 1) /\ ~Wakes(Sender, val + 1)
  <2>1. Sender \notin waiting
    BY <1>1, <1>3, <1>5 DEF Wakes
  <2> QED
    BY <2>1, <1>1, <1>5 DEF Add, SetTo, Accepted, Goto
<1>6. CASE ~Accepted(Receiver, 1)
  <2>1. Sender \notin waiting
    BY <1>1, <1>3, <1>6 DEF Accepted
  <2> QED
    BY <2>1, <1>6 DEF Add, Goto
<1> QED
  BY <1>4, <1>5, <1>6

\* What a take of the sender does: its set exists.
LEMMA SenderTakes ==
    ASSUME IInv, Take(Sender)
    PROVE  /\ pc[Sender] \in {"acquire", "await"} /\ Sender \notin waiting
           /\ semid[Sender] = "live"
           /\ \/ /\ val >= 1 /\ val' = val - 1 /\ waiting' = waiting
                 /\ pc' = [pc EXCEPT ![Sender] =
                             IF pc[Sender] = "acquire" THEN "prompt" ELSE "show"]
                 /\ served' = served
                 /\ overtaken' = (overtaken \/ (pc[Sender] = "await" /\ published # served))
              \/ /\ val = 0 /\ val' = val /\ waiting' = waiting \cup {Sender}
                 /\ pc' = pc /\ served' = served /\ overtaken' = overtaken
<1>1. Sender \in Process /\ pc[Sender] \in DOMAIN Need /\ Sender \notin waiting
  BY DEF Take, Process
<1>2. /\ pc[Sender] \in {"acquire", "await"} /\ Need[pc[Sender]] = 1
      /\ Granted[pc[Sender]] = IF pc[Sender] = "acquire" THEN "prompt" ELSE "show"
  BY <1>1, Roles DEF Sender, Receiver
<1>3. semid[Sender] = "live" /\ val \in Nat
  BY <1>1, <1>2, BoundsAssumption DEF IInv, TypeOK, SemidOK
<1>4. Sender # Receiver
  BY DEF Sender, Receiver
<1> QED
  BY <1>1, <1>2, <1>3, <1>4 DEF Take, Took, Goto

\* What a take of the receiver does, also when its set is gone.
LEMMA ReceiverTakes ==
    ASSUME IInv, Take(Receiver)
    PROVE  /\ pc[Receiver] = "take" /\ Receiver \notin waiting
           /\ overtaken' = overtaken
           /\ \/ /\ semid[Receiver] = "live" /\ val >= 2 /\ val' = val - 2
                 /\ waiting' = waiting
                 /\ pc' = [pc EXCEPT ![Receiver] = "compare"]
                 /\ served' = served + 1
              \/ /\ semid[Receiver] = "live" /\ val < 2 /\ val' = val
                 /\ waiting' = waiting \cup {Receiver}
                 /\ pc' = pc /\ served' = served
              \/ /\ semid[Receiver] = "dead" /\ val' = val /\ waiting' = waiting
                 /\ pc' = [pc EXCEPT ![Receiver] = "compare"]
                 /\ served' = served
<1>1. Receiver \in Process /\ pc[Receiver] \in DOMAIN Need /\ Receiver \notin waiting
  BY DEF Take, Process
<1>2. /\ pc[Receiver] = "take" /\ Need[pc[Receiver]] = 2
      /\ Granted[pc[Receiver]] = "compare"
  BY <1>1, Roles DEF Sender, Receiver
<1>3. val \in Nat /\ overtaken \in BOOLEAN
  BY BoundsAssumption DEF IInv, TypeOK
<1> QED
  BY <1>1, <1>2, <1>3 DEF Take, Took, Goto

\* Starting a program.
LEMMA StartStep == ASSUME IInv, NEW p \in Process, Start(p) PROVE IInv'
<1> USE DEF Start, Goto, sem, shm, bufs, hist, IInv, Process, Sender, Receiver, Setup
<1>1. TypeOK'
  BY DEF TypeOK, SLabel, RLabel
<1>2. SemidOK'
  BY DEF TypeOK, SemidOK
<1>3. SleepOK'
  BY TakeLabels DEF TypeOK, SleepOK
<1>4. FreshOK'
  BY DEF TypeOK, FreshOK, SessionOpen, RServing, RBusy, Other
<1>5. TokensConserved'
  BY DEF TypeOK, TokensConserved, SessionOpen, Holding, Serving, SHolds, RServing, RBusy
<1>6. NoPhantomRequest'
  BY DEF TypeOK, NoPhantomRequest, SessionOpen
<1>7. SizeOK'
  BY DEF TypeOK, SizeOK, SizedBeforeUse, SessionOpen, RServing, RBusy
<1>8. ExitOK'
  BY DEF TypeOK, ExitOK
<1>9. UnlinkedLast'
  BY DEF TypeOK, UnlinkedLast, ExitOK
<1>10. InStep'
  BY DEF TypeOK, InStep, SessionOpen, RServing, RBusy, Answering
<1> QED
  BY <1>1, <1>2, <1>3, <1>4, <1>5, <1>6, <1>7, <1>8, <1>9, <1>10

\* The user gives a line.
LEMMA TypeStep == ASSUME IInv, NEW w \in Words, SType(w) PROVE IInv'
<1> USE DEF SType, Goto, sem, shm, bufs, hist, IInv, Process, Sender, Receiver, Setup
<1>1. TypeOK'
  BY ContentsAssumption DEF TypeOK, SLabel, RLabel
<1>2. SemidOK'
  BY DEF TypeOK, SemidOK
<1>3. SleepOK'
  BY TakeLabels DEF TypeOK, SleepOK
<1>4. FreshOK'
  BY DEF TypeOK, FreshOK, SessionOpen, RServing, RBusy, Other
<1>5. TokensConserved'
  BY DEF TypeOK, TokensConserved, SessionOpen, Holding, Serving, SHolds, RServing, RBusy
<1>6. NoPhantomRequest'
  BY DEF TypeOK, NoPhantomRequest, SessionOpen
<1>7. SizeOK'
  BY DEF TypeOK, SizeOK, SizedBeforeUse, SessionOpen, RServing, RBusy
<1>8. ExitOK'
  BY DEF TypeOK, ExitOK
<1>9. UnlinkedLast'
  BY DEF TypeOK, UnlinkedLast, ExitOK
<1>10. InStep'
  BY DEF TypeOK, InStep, SessionOpen, RServing, RBusy, Answering
<1> QED
  BY <1>1, <1>2, <1>3, <1>4, <1>5, <1>6, <1>7, <1>8, <1>9, <1>10

\* The previous command is sent again.
LEMMA RepeatStep == ASSUME IInv, SRepeat PROVE IInv'
<1> USE DEF SRepeat, Goto, sem, shm, bufs, hist, IInv, Process, Sender, Receiver, Setup
<1>1. TypeOK'
  BY DEF TypeOK, SLabel, RLabel
<1>2. SemidOK'
  BY DEF TypeOK, SemidOK
<1>3. SleepOK'
  BY TakeLabels DEF TypeOK, SleepOK
<1>4. FreshOK'
  BY DEF TypeOK, FreshOK, SessionOpen, RServing, RBusy, Other
<1>5. TokensConserved'
  BY DEF TypeOK, TokensConserved, SessionOpen, Holding, Serving, SHolds, RServing, RBusy
<1>6. NoPhantomRequest'
  BY DEF TypeOK, NoPhantomRequest, SessionOpen
<1>7. SizeOK'
  BY DEF TypeOK, SizeOK, SizedBeforeUse, SessionOpen, RServing, RBusy
<1>8. ExitOK'
  BY DEF TypeOK, ExitOK
<1>9. UnlinkedLast'
  BY DEF TypeOK, UnlinkedLast, ExitOK
<1>10. InStep'
  BY DEF TypeOK, InStep, SessionOpen, RServing, RBusy, Answering
<1> QED
  BY <1>1, <1>2, <1>3, <1>4, <1>5, <1>6, <1>7, <1>8, <1>9, <1>10

\* End of input at the first prompt.
LEMMA UninitialisedStep == ASSUME IInv, SUninitialised PROVE IInv'
<1> USE DEF SUninitialised, Goto, sem, shm, bufs, hist, IInv, Process, Sender, Receiver, Setup
<1>1. TypeOK'
  BY DEF TypeOK, SLabel, RLabel
<1>2. SemidOK'
  BY DEF TypeOK, SemidOK
<1>3. SleepOK'
  BY TakeLabels DEF TypeOK, SleepOK
<1>4. FreshOK'
  BY DEF TypeOK, FreshOK, SessionOpen, RServing, RBusy, Other
<1>5. TokensConserved'
  BY DEF TypeOK, TokensConserved, SessionOpen, Holding, Serving, SHolds, RServing, RBusy
<1>6. NoPhantomRequest'
  BY DEF TypeOK, NoPhantomRequest, SessionOpen
<1>7. SizeOK'
  BY DEF TypeOK, SizeOK, SizedBeforeUse, SessionOpen, RServing, RBusy
<1>8. ExitOK'
  BY DEF TypeOK, ExitOK
<1>9. UnlinkedLast'
  BY DEF TypeOK, UnlinkedLast, ExitOK
<1>10. InStep'
  BY DEF TypeOK, InStep, SessionOpen, RServing, RBusy, Answering
<1> QED
  BY <1>1, <1>2, <1>3, <1>4, <1>5, <1>6, <1>7, <1>8, <1>9, <1>10

\* SIGBUS ends a program: nothing has been published then, or the sender is gone.
LEMMA SigbusStep ==
    ASSUME IInv, ~sized, NEW p \in Process, Fail(p),
           pc[p] = IF p = Sender THEN "store" ELSE "compare"
    PROVE  IInv'
<1> USE DEF Fail, Goto, bufs, hist, IInv, Process, Sender, Receiver, Setup
<1>1. TypeOK'
  BY DEF TypeOK, SLabel, RLabel, shm
<1>2. SemidOK'
  BY DEF TypeOK, SemidOK
<1>3. SleepOK'
  BY TakeLabels DEF TypeOK, SleepOK
<1>4. p = Sender => published = 0
  BY DEF TypeOK, SizeOK
<1>5. p = Receiver => ~SessionOpen
  BY DEF TypeOK, SemidOK, SizeOK, SizedBeforeUse, SessionOpen, RServing, RBusy
<1>6. FreshOK'
  BY <1>4, <1>5 DEF TypeOK, SemidOK, FreshOK, SessionOpen, RServing, RBusy, Other
<1>7. TokensConserved' /\ NoPhantomRequest'
  BY <1>5 DEF TypeOK, TokensConserved, NoPhantomRequest, SessionOpen, Holding, Serving, SHolds,
              RServing, RBusy
<1>8. SizeOK'
  BY DEF TypeOK, SizeOK, SizedBeforeUse, SessionOpen, RServing, RBusy, shm
<1>9. ExitOK' /\ UnlinkedLast'
  BY DEF TypeOK, UnlinkedLast, ExitOK, shm
<1>10. InStep'
  BY <1>5 DEF TypeOK, InStep, SessionOpen, RServing, RBusy, Answering
<1> QED
  BY <1>1, <1>2, <1>3, <1>6, <1>7, <1>8, <1>9, <1>10

\* Storing a request: the receiver is not in the region, or was overtaken.
LEMMA StoreStep == ASSUME IInv, SStore PROVE IInv'
<1> SUFFICES ASSUME /\ sized /\ pc[Sender] = "store" /\ content' = command
                    /\ Goto(Sender, "publish")
                    /\ UNCHANGED <<named, sized, sem, bufs, hist>>
             PROVE  IInv'
  BY SigbusStep DEF SStore, Process, Sender, Receiver
<1> USE DEF Goto, sem, shm, bufs, hist, IInv, Process, Sender, Receiver, Setup
<1>1. TypeOK'
  BY DEF TypeOK, SLabel, RLabel
<1>2. SemidOK'
  BY DEF TypeOK, SemidOK
<1>3. SleepOK'
  BY TakeLabels DEF TypeOK, SleepOK
<1>4. FreshOK'
  BY DEF TypeOK, FreshOK, SessionOpen, RServing, RBusy, Other
<1>5. TokensConserved'
  BY DEF TypeOK, TokensConserved, SessionOpen, Holding, Serving, SHolds, RServing, RBusy
<1>6. NoPhantomRequest'
  BY DEF TypeOK, NoPhantomRequest, SessionOpen
<1>7. SizeOK'
  BY DEF TypeOK, SizeOK, SizedBeforeUse, SessionOpen, RServing, RBusy
<1>8. ExitOK'
  BY DEF TypeOK, ExitOK
<1>9. UnlinkedLast'
  BY DEF TypeOK, UnlinkedLast, ExitOK
<1>10. InStep'
  BY InStepExclusion DEF TypeOK, InStep, SessionOpen, RServing, RBusy, Answering, SHolds
<1> QED
  BY <1>1, <1>2, <1>3, <1>4, <1>5, <1>6, <1>7, <1>8, <1>9, <1>10

\* Looking for "exit".
LEMMA CompareStep == ASSUME IInv, RCompare PROVE IInv'
<1> SUFFICES ASSUME /\ sized /\ pc[Receiver] = "compare"
                    /\ Goto(Receiver, IF content = "exit" THEN "unlink" ELSE "measure")
                    /\ UNCHANGED <<sem, shm, bufs, hist>>
             PROVE  IInv'
  BY SigbusStep DEF RCompare, Process, Sender, Receiver
<1> USE DEF Goto, sem, shm, bufs, hist, IInv, Process, Sender, Receiver, Setup
<1>1. TypeOK'
  BY DEF TypeOK, SLabel, RLabel
<1>2. SemidOK'
  BY DEF TypeOK, SemidOK
<1>3. SleepOK'
  BY TakeLabels DEF TypeOK, SleepOK
<1>4. FreshOK'
  BY DEF TypeOK, FreshOK, SessionOpen, RServing, RBusy, Other
<1>5. TokensConserved'
  BY DEF TypeOK, TokensConserved, SessionOpen, Holding, Serving, SHolds, RServing, RBusy
<1>6. NoPhantomRequest'
  BY DEF TypeOK, NoPhantomRequest, SessionOpen
<1>7. SizeOK'
  BY DEF TypeOK, SizeOK, SizedBeforeUse, SessionOpen, RServing, RBusy
<1>8. ExitOK'
  BY DEF TypeOK, ExitOK
<1>9. UnlinkedLast'
  BY DEF TypeOK, UnlinkedLast, ExitOK
<1>10. InStep'
  BY DEF TypeOK, InStep, SessionOpen, RServing, RBusy, Answering, ExitOK
<1> QED
  BY <1>1, <1>2, <1>3, <1>4, <1>5, <1>6, <1>7, <1>8, <1>9, <1>10

\* Computing an answer.
LEMMA MeasureStep == ASSUME IInv, RMeasure PROVE IInv'
<1> USE DEF RMeasure, Goto, sem, shm, bufs, hist, IInv, Process, Sender, Receiver, Setup
<1>1. TypeOK'
  BY ContentsAssumption DEF TypeOK, SLabel, RLabel
<1>2. SemidOK'
  BY DEF TypeOK, SemidOK
<1>3. SleepOK'
  BY TakeLabels DEF TypeOK, SleepOK
<1>4. FreshOK'
  BY DEF TypeOK, FreshOK, SessionOpen, RServing, RBusy, Other
<1>5. TokensConserved'
  BY DEF TypeOK, TokensConserved, SessionOpen, Holding, Serving, SHolds, RServing, RBusy
<1>6. NoPhantomRequest'
  BY DEF TypeOK, NoPhantomRequest, SessionOpen
<1>7. SizeOK'
  BY DEF TypeOK, SizeOK, SizedBeforeUse, SessionOpen, RServing, RBusy
<1>8. ExitOK'
  BY ContentsAssumption DEF TypeOK, ExitOK
<1>9. UnlinkedLast'
  BY DEF TypeOK, UnlinkedLast, ExitOK
<1>10. InStep'
  BY DEF TypeOK, InStep, SessionOpen, RServing, RBusy, Answering
<1> QED
  BY <1>1, <1>2, <1>3, <1>4, <1>5, <1>6, <1>7, <1>8, <1>9, <1>10

\* Writing an answer.
LEMMA WriteStep == ASSUME IInv, RWrite PROVE IInv'
<1> USE DEF RWrite, Goto, sem, shm, bufs, hist, IInv, Process, Sender, Receiver, Setup
<1>1. TypeOK'
  BY DEF TypeOK, SLabel, RLabel
<1>2. SemidOK'
  BY DEF TypeOK, SemidOK
<1>3. SleepOK'
  BY TakeLabels DEF TypeOK, SleepOK
<1>4. FreshOK'
  BY DEF TypeOK, FreshOK, SessionOpen, RServing, RBusy, Other
<1>5. TokensConserved'
  BY DEF TypeOK, TokensConserved, SessionOpen, Holding, Serving, SHolds, RServing, RBusy
<1>6. NoPhantomRequest'
  BY DEF TypeOK, NoPhantomRequest, SessionOpen
<1>7. SizeOK'
  BY DEF TypeOK, SizeOK, SizedBeforeUse, SessionOpen, RServing, RBusy
<1>8. ExitOK'
  BY DEF TypeOK, ExitOK
<1>9. UnlinkedLast'
  BY DEF TypeOK, UnlinkedLast, ExitOK
<1>10. InStep'
  BY InStepExclusion, BusyServes DEF TypeOK, InStep, SessionOpen, RServing, RBusy, Answering, SHolds
<1> QED
  BY <1>1, <1>2, <1>3, <1>4, <1>5, <1>6, <1>7, <1>8, <1>9, <1>10

\* Unlinking the name.
LEMMA UnlinkStep == ASSUME IInv, RUnlink PROVE IInv'
<1> USE DEF RUnlink, Goto, sem, shm, bufs, hist, IInv, Process, Sender, Receiver, Setup
<1>1. TypeOK'
  BY DEF TypeOK, SLabel, RLabel
<1>2. SemidOK'
  BY DEF TypeOK, SemidOK
<1>3. SleepOK'
  BY TakeLabels DEF TypeOK, SleepOK
<1>4. FreshOK'
  BY DEF TypeOK, FreshOK, SessionOpen, RServing, RBusy, Other
<1>5. TokensConserved'
  BY DEF TypeOK, TokensConserved, SessionOpen, Holding, Serving, SHolds, RServing, RBusy
<1>6. NoPhantomRequest'
  BY DEF TypeOK, NoPhantomRequest, SessionOpen
<1>7. SizeOK'
  BY DEF TypeOK, SizeOK, SizedBeforeUse, SessionOpen, RServing, RBusy
<1>8. ExitOK'
  BY DEF TypeOK, ExitOK
<1>9. UnlinkedLast'
  BY DEF TypeOK, UnlinkedLast, ExitOK
<1>10. InStep'
  BY DEF TypeOK, InStep, SessionOpen, RServing, RBusy, Answering
<1> QED
  BY <1>1, <1>2, <1>3, <1>4, <1>5, <1>6, <1>7, <1>8, <1>9, <1>10

\* A step of a process that is not at a take does not disturb a sleeper, nor
\* does the creation of a set, on which nobody can sleep.
LEMMA SleepKept ==
    ASSUME IInv, NEW p \in Process, pc[p] \notin {"acquire", "await", "take"},
           waiting' = waiting, val' = val \/ ~exists,
           NEW label, pc' = [pc EXCEPT ![p] = label],
           semid' = semid \/ \E x : semid' = [semid EXCEPT ![p] = x]
    PROVE  SleepOK'
<1>1. p \notin waiting /\ waiting \subseteq Process
  BY TakeLabels DEF IInv, TypeOK, SleepOK
<1>2. \A q \in waiting : pc'[q] = pc[q] /\ semid'[q] = semid[q]
  BY <1>1 DEF IInv, TypeOK
<1>3. ~exists => waiting = {}
  BY <1>1 DEF IInv, SemidOK, SleepOK
<1> QED
  BY <1>2, <1>3 DEF IInv, SleepOK

\* A step of the start-up, which both programs share, keeps the types.
LEMMA SetupTyped ==
    ASSUME IInv, NEW p \in Process,
           NEW label, \/ label \in Setup
                      \/ p = Sender /\ label \in {"size", "acquire"}
                      \/ p = Receiver /\ label \in {"map", "take"},
           pc' = [pc EXCEPT ![p] = label],
           \/ semid' = semid
           \/ \E x \in {"none", "live"} : semid' = [semid EXCEPT ![p] = x],
           exists' \in BOOLEAN, val' = val \/ val' = 0, waiting' = waiting,
           named' \in BOOLEAN, sized' \in BOOLEAN, content' = content,
           UNCHANGED <<bufs, hist>>
    PROVE  TypeOK'
<1>1. pc' \in [Process -> SLabel \cup RLabel]
  BY DEF IInv, TypeOK, SLabel, RLabel, Setup
<1>2. pc'[Sender] \in SLabel /\ pc'[Receiver] \in RLabel
  BY DEF IInv, TypeOK, SLabel, RLabel, Setup, Sender, Receiver, Process
<1>3. semid' \in [Process -> {"none", "live", "dead"}]
  BY DEF IInv, TypeOK
<1>4. val' \in 0..SemMax
  BY BoundsAssumption DEF IInv, TypeOK
<1> QED
  BY <1>1, <1>2, <1>3, <1>4 DEF IInv, TypeOK, bufs, hist

\* Creating the set, or finding it.
LEMMA CreateStep == ASSUME IInv, NEW p \in Process, Create(p) PROVE IInv'
<1>1. TypeOK'
  BY SetupTyped DEF Create, NewSet, Goto, sem, shm, bufs, hist, IInv, TypeOK, Setup
<1>2. SleepOK'
  BY SleepKept DEF Create, NewSet, Goto, sem, shm, bufs, hist
<1>3. SemidOK'
  BY DEF Create, NewSet, Goto, sem, shm, bufs, hist, IInv, Process, Sender, Receiver, Setup, TypeOK, SemidOK
<1>4. FreshOK'
  BY DEF Create, NewSet, Goto, sem, shm, bufs, hist, IInv, Process, Sender, Receiver, Setup, TypeOK, FreshOK, SessionOpen, RServing, RBusy, Other
<1>5. TokensConserved'
  BY DEF Create, NewSet, Goto, sem, shm, bufs, hist, IInv, Process, Sender, Receiver, Setup, TypeOK, TokensConserved, SessionOpen, Holding, Serving, SHolds, RServing, RBusy, FreshOK, SemidOK
<1>6. NoPhantomRequest'
  BY DEF Create, NewSet, Goto, sem, shm, bufs, hist, IInv, Process, Sender, Receiver, Setup, TypeOK, NoPhantomRequest, SessionOpen
<1>7. SizeOK'
  BY DEF Create, NewSet, Goto, sem, shm, bufs, hist, IInv, Process, Sender, Receiver, Setup, TypeOK, SizeOK, SizedBeforeUse, SessionOpen, RServing, RBusy
<1>8. ExitOK'
  BY DEF Create, NewSet, Goto, sem, shm, bufs, hist, IInv, Process, Sender, Receiver, Setup, TypeOK, ExitOK
<1>9. UnlinkedLast'
  BY DEF Create, NewSet, Goto, sem, shm, bufs, hist, IInv, Process, Sender, Receiver, Setup, TypeOK, UnlinkedLast, ExitOK
<1>10. InStep'
  BY DEF Create, NewSet, Goto, sem, shm, bufs, hist, IInv, Process, Sender, Receiver, Setup, TypeOK, InStep, SessionOpen, RServing, RBusy, Answering
<1> QED
  BY <1>1, <1>2, <1>3, <1>4, <1>5, <1>6, <1>7, <1>8, <1>9, <1>10 DEF IInv

\* Opening the set.
LEMMA GetStep == ASSUME IInv, NEW p \in Process, Get(p) PROVE IInv'
<1>1. TypeOK'
  BY SetupTyped DEF Get, NewSet, Goto, sem, shm, bufs, hist, IInv, TypeOK, Setup
<1>2. SleepOK'
  BY SleepKept DEF Get, NewSet, Goto, sem, shm, bufs, hist
<1>3. SemidOK'
  BY DEF Get, NewSet, Goto, sem, shm, bufs, hist, IInv, Process, Sender, Receiver, Setup, TypeOK, SemidOK
<1>4. FreshOK'
  BY DEF Get, NewSet, Goto, sem, shm, bufs, hist, IInv, Process, Sender, Receiver, Setup, TypeOK, FreshOK, SessionOpen, RServing, RBusy, Other
<1>5. TokensConserved'
  BY DEF Get, NewSet, Goto, sem, shm, bufs, hist, IInv, Process, Sender, Receiver, Setup, TypeOK, TokensConserved, SessionOpen, Holding, Serving, SHolds, RServing, RBusy, FreshOK, SemidOK
<1>6. NoPhantomRequest'
  BY DEF Get, NewSet, Goto, sem, shm, bufs, hist, IInv, Process, Sender, Receiver, Setup, TypeOK, NoPhantomRequest, SessionOpen
<1>7. SizeOK'
  BY DEF Get, NewSet, Goto, sem, shm, bufs, hist, IInv, Process, Sender, Receiver, Setup, TypeOK, SizeOK, SizedBeforeUse, SessionOpen, RServing, RBusy
<1>8. ExitOK'
  BY DEF Get, NewSet, Goto, sem, shm, bufs, hist, IInv, Process, Sender, Receiver, Setup, TypeOK, ExitOK
<1>9. UnlinkedLast'
  BY DEF Get, NewSet, Goto, sem, shm, bufs, hist, IInv, Process, Sender, Receiver, Setup, TypeOK, UnlinkedLast, ExitOK
<1>10. InStep'
  BY DEF Get, NewSet, Goto, sem, shm, bufs, hist, IInv, Process, Sender, Receiver, Setup, TypeOK, InStep, SessionOpen, RServing, RBusy, Answering
<1> QED
  BY <1>1, <1>2, <1>3, <1>4, <1>5, <1>6, <1>7, <1>8, <1>9, <1>10 DEF IInv

\* The sender's shm_open.
LEMMA SOpenStep == ASSUME IInv, SOpen PROVE IInv'
<1>1. TypeOK'
  BY SetupTyped DEF SOpen, Fail, Goto, sem, shm, bufs, hist, IInv, TypeOK, Setup, Process
<1>2. SleepOK'
  BY SleepKept DEF SOpen, Fail, Goto, sem, shm, bufs, hist, Process
<1>3. SemidOK'
  BY DEF SOpen, Fail, Goto, sem, shm, bufs, hist, IInv, Process, Sender, Receiver, Setup, TypeOK, SemidOK
<1>4. FreshOK'
  BY DEF SOpen, Fail, Goto, sem, shm, bufs, hist, IInv, Process, Sender, Receiver, Setup, TypeOK, FreshOK, SessionOpen, RServing, RBusy, Other
<1>5. TokensConserved'
  BY DEF SOpen, Fail, Goto, sem, shm, bufs, hist, IInv, Process, Sender, Receiver, Setup, TypeOK, TokensConserved, SessionOpen, Holding, Serving, SHolds, RServing, RBusy
<1>6. NoPhantomRequest'
  BY DEF SOpen, Fail, Goto, sem, shm, bufs, hist, IInv, Process, Sender, Receiver, Setup, TypeOK, NoPhantomRequest, SessionOpen
<1>7. SizeOK'
  BY DEF SOpen, Fail, Goto, sem, shm, bufs, hist, IInv, Process, Sender, Receiver, Setup, TypeOK, SizeOK, SizedBeforeUse, SessionOpen, RServing, RBusy
<1>8. ExitOK'
  BY DEF SOpen, Fail, Goto, sem, shm, bufs, hist, IInv, Process, Sender, Receiver, Setup, TypeOK, ExitOK
<1>9. UnlinkedLast'
  BY DEF SOpen, Fail, Goto, sem, shm, bufs, hist, IInv, Process, Sender, Receiver, Setup, TypeOK, UnlinkedLast, ExitOK
<1>10. InStep'
  BY DEF SOpen, Fail, Goto, sem, shm, bufs, hist, IInv, Process, Sender, Receiver, Setup, TypeOK, InStep, SessionOpen, RServing, RBusy, Answering
<1> QED
  BY <1>1, <1>2, <1>3, <1>4, <1>5, <1>6, <1>7, <1>8, <1>9, <1>10 DEF IInv

\* The sender's ftruncate and mmap.
LEMMA SSizeStep == ASSUME IInv, SSize PROVE IInv'
<1>1. TypeOK'
  BY SetupTyped DEF SSize, Fail, Goto, sem, shm, bufs, hist, IInv, TypeOK, Setup, Process
<1>2. SleepOK'
  BY SleepKept DEF SSize, Fail, Goto, sem, shm, bufs, hist, Process
<1>3. SemidOK'
  BY DEF SSize, Fail, Goto, sem, shm, bufs, hist, IInv, Process, Sender, Receiver, Setup, TypeOK, SemidOK
<1>4. FreshOK'
  BY DEF SSize, Fail, Goto, sem, shm, bufs, hist, IInv, Process, Sender, Receiver, Setup, TypeOK, FreshOK, SessionOpen, RServing, RBusy, Other
<1>5. TokensConserved'
  BY DEF SSize, Fail, Goto, sem, shm, bufs, hist, IInv, Process, Sender, Receiver, Setup, TypeOK, TokensConserved, SessionOpen, Holding, Serving, SHolds, RServing, RBusy
<1>6. NoPhantomRequest'
  BY DEF SSize, Fail, Goto, sem, shm, bufs, hist, IInv, Process, Sender, Receiver, Setup, TypeOK, NoPhantomRequest, SessionOpen
<1>7. SizeOK'
  BY DEF SSize, Fail, Goto, sem, shm, bufs, hist, IInv, Process, Sender, Receiver, Setup, TypeOK, SizeOK, SizedBeforeUse, SessionOpen, RServing, RBusy
<1>8. ExitOK'
  BY DEF SSize, Fail, Goto, sem, shm, bufs, hist, IInv, Process, Sender, Receiver, Setup, TypeOK, ExitOK
<1>9. UnlinkedLast'
  BY DEF SSize, Fail, Goto, sem, shm, bufs, hist, IInv, Process, Sender, Receiver, Setup, TypeOK, UnlinkedLast, ExitOK
<1>10. InStep'
  BY DEF SSize, Fail, Goto, sem, shm, bufs, hist, IInv, Process, Sender, Receiver, Setup, TypeOK, InStep, SessionOpen, RServing, RBusy, Answering
<1> QED
  BY <1>1, <1>2, <1>3, <1>4, <1>5, <1>6, <1>7, <1>8, <1>9, <1>10 DEF IInv

\* The receiver's shm_open.
LEMMA ROpenStep == ASSUME IInv, ROpen PROVE IInv'
<1>1. TypeOK'
  BY SetupTyped DEF ROpen, Fail, Goto, sem, shm, bufs, hist, IInv, TypeOK, Setup, Process
<1>2. SleepOK'
  BY SleepKept DEF ROpen, Fail, Goto, sem, shm, bufs, hist, Process
<1>3. SemidOK'
  BY DEF ROpen, Fail, Goto, sem, shm, bufs, hist, IInv, Process, Sender, Receiver, Setup, TypeOK, SemidOK
<1>4. FreshOK'
  BY DEF ROpen, Fail, Goto, sem, shm, bufs, hist, IInv, Process, Sender, Receiver, Setup, TypeOK, FreshOK, SessionOpen, RServing, RBusy, Other
<1>5. TokensConserved'
  BY DEF ROpen, Fail, Goto, sem, shm, bufs, hist, IInv, Process, Sender, Receiver, Setup, TypeOK, TokensConserved, SessionOpen, Holding, Serving, SHolds, RServing, RBusy
<1>6. NoPhantomRequest'
  BY DEF ROpen, Fail, Goto, sem, shm, bufs, hist, IInv, Process, Sender, Receiver, Setup, TypeOK, NoPhantomRequest, SessionOpen
<1>7. SizeOK'
  BY DEF ROpen, Fail, Goto, sem, shm, bufs, hist, IInv, Process, Sender, Receiver, Setup, TypeOK, SizeOK, SizedBeforeUse, SessionOpen, RServing, RBusy
<1>8. ExitOK'
  BY DEF ROpen, Fail, Goto, sem, shm, bufs, hist, IInv, Process, Sender, Receiver, Setup, TypeOK, ExitOK
<1>9. UnlinkedLast'
  BY DEF ROpen, Fail, Goto, sem, shm, bufs, hist, IInv, Process, Sender, Receiver, Setup, TypeOK, UnlinkedLast, ExitOK
<1>10. InStep'
  BY DEF ROpen, Fail, Goto, sem, shm, bufs, hist, IInv, Process, Sender, Receiver, Setup, TypeOK, InStep, SessionOpen, RServing, RBusy, Answering
<1> QED
  BY <1>1, <1>2, <1>3, <1>4, <1>5, <1>6, <1>7, <1>8, <1>9, <1>10 DEF IInv

\* The receiver's mmap.
LEMMA RMapStep == ASSUME IInv, RMap PROVE IInv'
<1>1. TypeOK'
  BY SetupTyped DEF RMap, Fail, Goto, sem, shm, bufs, hist, IInv, TypeOK, Setup, Process
<1>2. SleepOK'
  BY SleepKept DEF RMap, Fail, Goto, sem, shm, bufs, hist, Process
<1>3. SemidOK'
  BY DEF RMap, Fail, Goto, sem, shm, bufs, hist, IInv, Process, Sender, Receiver, Setup, TypeOK, SemidOK
<1>4. FreshOK'
  BY DEF RMap, Fail, Goto, sem, shm, bufs, hist, IInv, Process, Sender, Receiver, Setup, TypeOK, FreshOK, SessionOpen, RServing, RBusy, Other
<1>5. TokensConserved'
  BY DEF RMap, Fail, Goto, sem, shm, bufs, hist, IInv, Process, Sender, Receiver, Setup, TypeOK, TokensConserved, SessionOpen, Holding, Serving, SHolds, RServing, RBusy
<1>6. NoPhantomRequest'
  BY DEF RMap, Fail, Goto, sem, shm, bufs, hist, IInv, Process, Sender, Receiver, Setup, TypeOK, NoPhantomRequest, SessionOpen
<1>7. SizeOK'
  BY DEF RMap, Fail, Goto, sem, shm, bufs, hist, IInv, Process, Sender, Receiver, Setup, TypeOK, SizeOK, SizedBeforeUse, SessionOpen, RServing, RBusy
<1>8. ExitOK'
  BY DEF RMap, Fail, Goto, sem, shm, bufs, hist, IInv, Process, Sender, Receiver, Setup, TypeOK, ExitOK
<1>9. UnlinkedLast'
  BY DEF RMap, Fail, Goto, sem, shm, bufs, hist, IInv, Process, Sender, Receiver, Setup, TypeOK, UnlinkedLast, ExitOK
<1>10. InStep'
  BY DEF RMap, Fail, Goto, sem, shm, bufs, hist, IInv, Process, Sender, Receiver, Setup, TypeOK, InStep, SessionOpen, RServing, RBusy, Answering
<1> QED
  BY <1>1, <1>2, <1>3, <1>4, <1>5, <1>6, <1>7, <1>8, <1>9, <1>10 DEF IInv

\* A take of the sender.
LEMMA SenderTakeStep == ASSUME IInv, Take(Sender) PROVE IInv'
<1>1. /\ exists' = exists /\ semid' = semid /\ published' = published /\ UNCHANGED <<shm, bufs>>
      /\ pc[Sender] \in {"acquire", "await"} /\ semid[Sender] = "live" /\ Sender \notin waiting
      /\ \/ /\ val >= 1 /\ val' = val - 1 /\ waiting' = waiting
            /\ pc' = [pc EXCEPT ![Sender] =
                        IF pc[Sender] = "acquire" THEN "prompt" ELSE "show"]
            /\ served' = served
            /\ overtaken' = (overtaken \/ (pc[Sender] = "await" /\ published # served))
         \/ /\ val = 0 /\ val' = val /\ waiting' = waiting \cup {Sender}
            /\ pc' = pc /\ served' = served /\ overtaken' = overtaken
  BY SenderTakes DEF Take
<1>2. /\ pc' \in [Process -> SLabel \cup RLabel]
      /\ pc'[Sender] \in SLabel /\ pc'[Receiver] = pc[Receiver]
      /\ pc'[Sender] \in {pc[Sender], "prompt", "show"}
  BY <1>1 DEF IInv, TypeOK, SLabel, Process, Sender, Receiver
<1>3. val \in Nat /\ val' \in 0..SemMax
  BY <1>1, BoundsAssumption DEF IInv, TypeOK
<1>4. TypeOK'
  BY <1>1, <1>2, <1>3 DEF IInv, TypeOK, Process, shm, bufs
<1>5. SemidOK'
  BY <1>1, <1>2, <1>3 DEF IInv, TypeOK, SemidOK, Process, Sender, Receiver
<1>6. SleepOK'
  <2>1. CASE waiting' = waiting /\ val' = val - 1
    <3>1. waiting' \subseteq {Receiver}
      BY <2>1, <1>1 DEF IInv, TypeOK, Process
    <3> QED
      BY <2>1, <3>1, <1>1, <1>2, <1>3, Sleepers, TakeLabels DEF SleepOK
  <2>2. CASE waiting' = waiting \cup {Sender} /\ val = 0 /\ val' = val /\ pc' = pc
    BY <2>2, <1>1, TakeLabels DEF IInv, SleepOK
  <2> QED
    BY <2>1, <2>2, <1>1
<1>7. RServing' = RServing /\ SessionOpen' /\ SessionOpen
  BY <1>1, <1>2 DEF RServing, RBusy, SessionOpen
<1>8. FreshOK'
  BY <1>1, <1>2, <1>3, <1>7 DEF IInv, TypeOK, SemidOK, FreshOK, Process, Sender, Receiver, Other, Setup
<1>9. TokensConserved' /\ NoPhantomRequest'
  BY <1>1, <1>2, <1>3, <1>7 DEF IInv, TypeOK, TokensConserved, NoPhantomRequest,
                                Holding, Serving, SHolds, Process
<1>10. SizeOK' /\ ExitOK' /\ UnlinkedLast'
  BY <1>1, <1>2 DEF IInv, TypeOK, SizeOK, SizedBeforeUse, SessionOpen, RServing, RBusy, ExitOK, UnlinkedLast, Setup, shm, bufs
<1>11. InStep'
  <2>1. CASE pc' = pc /\ served' = served /\ overtaken' = overtaken
    BY <2>1, <1>1, <1>7 DEF IInv, InStep, Answering, shm, bufs
  <2>2. CASE pc[Sender] = "acquire" /\ pc'[Sender] = "prompt"
    BY <2>2, <1>1, <1>7 DEF IInv, InStep, shm, bufs
  <2>3. CASE pc[Sender] = "await" /\ pc'[Sender] = "show" /\ val >= 1
    <3>1. ~overtaken' => published = served /\ ~overtaken
      BY <2>3, <1>1 DEF IInv, TypeOK
    <3>2. published = served => ~RServing
      BY <2>3, <1>3, <1>7 DEF IInv, TypeOK, TokensConserved, Holding, Serving, SHolds
    <3> QED
      BY <2>3, <3>1, <3>2, <1>1, <1>7 DEF IInv, TypeOK, InStep, shm, bufs
  <2> QED
    BY <2>1, <2>2, <2>3, <1>1 DEF IInv, TypeOK, Process
<1> QED
  BY <1>4, <1>5, <1>6, <1>8, <1>9, <1>10, <1>11 DEF IInv

\* A take of the receiver.
LEMMA ReceiverTakeStep == ASSUME IInv, Take(Receiver) PROVE IInv'
<1>1. /\ exists' = exists /\ semid' = semid /\ published' = published /\ UNCHANGED <<shm, bufs>>
      /\ pc[Receiver] = "take" /\ Receiver \notin waiting /\ overtaken' = overtaken
      /\ \/ /\ semid[Receiver] = "live" /\ val >= 2 /\ val' = val - 2
            /\ waiting' = waiting
            /\ pc' = [pc EXCEPT ![Receiver] = "compare"]
            /\ served' = served + 1
         \/ /\ semid[Receiver] = "live" /\ val < 2 /\ val' = val
            /\ waiting' = waiting \cup {Receiver}
            /\ pc' = pc /\ served' = served
         \/ /\ semid[Receiver] = "dead" /\ val' = val /\ waiting' = waiting
            /\ pc' = [pc EXCEPT ![Receiver] = "compare"]
            /\ served' = served
  BY ReceiverTakes DEF Take
<1>2. /\ pc' \in [Process -> SLabel \cup RLabel]
      /\ pc'[Receiver] \in {"take", "compare"} /\ pc'[Sender] = pc[Sender]
  BY <1>1 DEF IInv, TypeOK, RLabel, Process, Sender, Receiver
<1>3. val \in Nat /\ val' \in 0..SemMax /\ published \in Nat /\ served \in Nat
  BY <1>1, BoundsAssumption DEF IInv, TypeOK
<1>4. TypeOK'
  BY <1>1, <1>2, <1>3 DEF IInv, TypeOK, RLabel, Process, shm, bufs
<1>5. SemidOK'
  BY <1>1, <1>2, <1>3 DEF IInv, TypeOK, SemidOK, Process, Sender, Receiver
<1>6. SleepOK'
  <2>1. CASE waiting' = waiting
    <3>1. waiting' \subseteq {Sender}
      BY <2>1, <1>1 DEF IInv, TypeOK, Process
    <3>2. Sender \in waiting => val = 0 /\ val' = 0 /\ semid[Sender] = "live"
                                /\ pc'[Sender] \in DOMAIN Need /\ Need[pc'[Sender]] = 1
      BY <1>1, <1>2, <1>3, Sleepers, TakeLabels
    <3> QED
      BY <2>1, <3>1, <3>2, <1>1 DEF SleepOK
  <2>2. CASE waiting' = waiting \cup {Receiver} /\ val < 2 /\ val' = val /\ pc' = pc
              /\ semid[Receiver] = "live"
    BY <2>2, <1>1, TakeLabels DEF IInv, SleepOK
  <2> QED
    BY <2>1, <2>2, <1>1
<1>7. SessionOpen' = SessionOpen /\ ~RServing /\ ~RBusy
  BY <1>1, <1>2 DEF RServing, RBusy, SessionOpen
<1>8. Holding' = Holding /\ Holding \in {0, 1} /\ Serving = 0
  BY <1>2, <1>7 DEF Holding, SHolds, Serving
<1>9. SessionOpen => semid[Receiver] = "live"
  BY <1>1 DEF IInv, TypeOK, SemidOK, SessionOpen, Process
<1>10. SessionOpen /\ val >= 2 => published >= served + 1 + Holding
  BY <1>3, <1>8 DEF IInv, TokensConserved
<1>11. FreshOK'
  BY <1>1, <1>2, <1>3, <1>9, <1>10 DEF IInv, TypeOK, SemidOK, FreshOK, SessionOpen, RServing, RBusy,
                                 Process, Sender, Receiver, Other, Setup
<1>12. TokensConserved'
  <2>1. Serving' = IF pc'[Receiver] = "compare" /\ semid[Receiver] = "live" THEN 1 ELSE 0
    BY <1>1, <1>2 DEF Serving, RServing, RBusy
  <2> QED
    BY <2>1, <1>1, <1>2, <1>3, <1>7, <1>8, <1>9 DEF IInv, TypeOK, TokensConserved, Process
<1>13. NoPhantomRequest'
  BY <1>1, <1>3, <1>7, <1>8, <1>9, <1>10 DEF IInv, NoPhantomRequest
<1>14. SizeOK'
  <2>1. SessionOpen /\ pc'[Receiver] = "compare" => sized
    BY <1>1, <1>2, <1>3, <1>8, <1>9, <1>10 DEF IInv, SizeOK
  <2> QED
    BY <2>1, <1>1, <1>2 DEF IInv, SizeOK, SizedBeforeUse, SessionOpen, RServing, RBusy, shm
<1>15. ExitOK' /\ UnlinkedLast'
  BY <1>1, <1>2 DEF IInv, ExitOK, UnlinkedLast, shm, bufs
<1>16. InStep'
  <2>1. CASE SessionOpen /\ ~overtaken /\ val >= 2
    <3>1. published # served /\ (published = served + 1 => ~SHolds)
      BY <2>1, <1>3, <1>8, <1>10 DEF Holding
    <3>2. pc[Sender] \in {"await", "remove"}
      BY <2>1, <3>1 DEF IInv, InStep
    <3> QED
      BY <2>1, <3>1, <3>2, <1>1, <1>2, <1>3, <1>9 DEF IInv, TypeOK, InStep, RServing, RBusy,
                                                  Answering, Process, shm, bufs
  <2>2. CASE ~(SessionOpen /\ ~overtaken /\ val >= 2)
    BY <2>2, <1>1, <1>2, <1>3, <1>7, <1>9 DEF IInv, TypeOK, InStep, RServing, RBusy, SessionOpen,
                                          Answering, shm, bufs
  <2> QED
    BY <2>1, <2>2
<1> QED
  BY <1>4, <1>5, <1>6, <1>11, <1>12, <1>13, <1>14, <1>15, <1>16 DEF IInv

\* What SETVAL does: it may hand the first token to a sender that came too early.
LEMMA SetValDoes ==
    ASSUME IInv, NEW p \in Process, SetVal(p)
    PROVE  /\ pc[p] = "setval" /\ semid[p] = "live"
           /\ served' = served /\ overtaken' = overtaken
           /\ \/ /\ p = Receiver /\ Sender \in waiting /\ pc[Sender] = "acquire"
                 /\ semid[Sender] = "live"
                 /\ val = 0 /\ val' = 0 /\ waiting' = {}
                 /\ pc' = [pc EXCEPT ![Receiver] = "open", ![Sender] = "prompt"]
              \/ /\ Sender \notin waiting /\ val' = 1 /\ waiting' = waiting
                 /\ pc' = [pc EXCEPT ![p] = "open"]
<1>1. /\ pc[p] = "setval" /\ semid[p] = "live" /\ p \notin waiting
      /\ SetTo(p, Other(p), 1, "open", published)
  BY TakeLabels DEF SetVal, IInv, SemidOK, SleepOK
<1>2. /\ waiting \subseteq {Sender, Receiver} /\ Sender # Receiver
      /\ overtaken \in BOOLEAN
  BY DEF IInv, TypeOK, Process, Sender, Receiver
<1>3. CASE p = Sender
  <2>1. Other(p) = Receiver
    BY <1>3 DEF Other
  <2>2. ~Wakes(Other(p), 1)
    BY <2>1, Sleepers DEF Wakes
  <2> QED
    BY <2>2, <1>1, <1>3 DEF SetTo, Goto
<1>4. CASE p = Receiver
  <2>1. Other(p) = Sender
    BY <1>2, <1>4 DEF Other
  <2>2. CASE Sender \in waiting
    <3>1. /\ pc[Sender] \in {"acquire", "await"} /\ semid[Sender] = "live"
          /\ val = 0 /\ Need[pc[Sender]] = 1
      BY <2>2, Sleepers
    <3>2. pc[Sender] = "acquire"
      BY <3>1, <1>1 DEF IInv, FreshOK, SessionOpen, Setup
    <3>3. Wakes(Other(p), 1)
      BY <2>1, <2>2, <3>1 DEF Wakes
    <3>4. val' = 0 /\ waiting' = waiting \ {Sender}
      BY <2>1, <3>1, <3>3, <1>1 DEF SetTo
    <3>5. pc' = [pc EXCEPT ![Receiver] = "open", ![Sender] = "prompt"]
      BY <2>1, <3>2, <3>3, <1>1, <1>4, TakeLabels DEF SetTo
    <3>6. served' = served /\ overtaken' = overtaken
      BY <2>1, <3>2, <3>3, <1>1, <1>2 DEF SetTo, Took
    <3> QED
      BY <2>2, <3>1, <3>2, <3>4, <3>5, <3>6, <1>1, <1>2, <1>4
  <2>3. CASE Sender \notin waiting
    <3>1. ~Wakes(Other(p), 1)
      BY <2>1, <2>3 DEF Wakes
    <3> QED
      BY <2>3, <3>1, <1>1 DEF SetTo, Goto
  <2> QED
    BY <2>2, <2>3
<1> QED
  BY <1>3, <1>4 DEF Process

\* Setting the value of a new set.
LEMMA SetValStep == ASSUME IInv, NEW p \in Process, SetVal(p) PROVE IInv'
<1>1. /\ exists' = exists /\ semid' = semid /\ published' = published /\ UNCHANGED <<shm, bufs>>
      /\ pc[p] = "setval" /\ semid[p] = "live"
      /\ served' = served /\ overtaken' = overtaken
      /\ \/ /\ p = Receiver /\ Sender \in waiting /\ pc[Sender] = "acquire"
            /\ semid[Sender] = "live"
            /\ val = 0 /\ val' = 0 /\ waiting' = {}
            /\ pc' = [pc EXCEPT ![Receiver] = "open", ![Sender] = "prompt"]
         \/ /\ Sender \notin waiting /\ val' = 1 /\ waiting' = waiting
            /\ pc' = [pc EXCEPT ![p] = "open"]
  BY SetValDoes DEF SetVal
<1>2. /\ pc' \in [Process -> SLabel \cup RLabel]
      /\ pc'[Sender] \in SLabel /\ pc'[Receiver] \in RLabel
  BY <1>1 DEF IInv, TypeOK, SLabel, RLabel, Setup, Process, Sender, Receiver
<1>3. /\ pc'[p] = "open"
      /\ \/ pc'[Sender] = pc[Sender]
         \/ p = Sender /\ pc'[Sender] = "open"
         \/ pc[Sender] = "acquire" /\ pc'[Sender] = "prompt" /\ val' = 0
      /\ \/ pc'[Receiver] = pc[Receiver] /\ p = Sender
         \/ pc'[Receiver] = "open" /\ p = Receiver
  BY <1>1 DEF IInv, TypeOK, Process, Sender, Receiver
<1>4. TypeOK'
  <2>1. val' \in 0..SemMax /\ waiting' \subseteq Process
    BY <1>1, BoundsAssumption DEF IInv, TypeOK
  <2> QED
    BY <2>1, <1>1, <1>2 DEF IInv, TypeOK, shm, bufs
<1>5. SemidOK'
  BY <1>1, <1>2, <1>3 DEF IInv, TypeOK, SemidOK, Process, Sender, Receiver
<1>6. SleepOK'
  <2>1. waiting' \subseteq {Receiver} /\ p \notin waiting
    BY <1>1, TakeLabels DEF IInv, TypeOK, SleepOK, Process
  <2> QED
    BY <2>1, <1>1, <1>3, Sleepers, TakeLabels DEF SleepOK
<1>7. (SessionOpen' <=> SessionOpen) /\ (RBusy' <=> RBusy) /\ (RServing' <=> RServing)
  BY <1>1, <1>3 DEF SessionOpen, RBusy, RServing
<1>8. SessionOpen => /\ val = 0 /\ published = 0 /\ served = 0 /\ ~RServing /\ ~RBusy
                     /\ pc[Other(p)] # "setval"
                     /\ pc[Sender] \in Setup \cup {"size", "acquire"}
  BY <1>1, BusyServes DEF IInv, FreshOK
<1>9. FreshOK'
  <2>1. (pc'[Sender] # "setval" /\ pc'[Receiver] # "setval") \/ ~SessionOpen
    BY <1>3, <1>8 DEF Other, Process, Sender, Receiver
  <2> QED
    BY <2>1, <1>1, <1>3, <1>7, <1>8 DEF IInv, SemidOK, FreshOK, Process
<1>10. TokensConserved' /\ NoPhantomRequest'
  <2>1. Serving' = 0 \/ ~SessionOpen
    BY <1>7, <1>8 DEF Serving
  <2>2. Holding' = (IF pc'[Sender] = "prompt" THEN 1 ELSE 0) \/ ~SessionOpen
    BY <1>3, <1>8 DEF Holding, SHolds, Setup
  <2>3. pc'[Sender] = "prompt" => val' = 0 \/ ~SessionOpen
    BY <1>3, <1>8 DEF Setup
  <2> QED
    BY <2>1, <2>2, <2>3, <1>1, <1>7, <1>8 DEF TokensConserved, NoPhantomRequest
<1>11. SizeOK' /\ ExitOK' /\ UnlinkedLast'
  <2>1. published' = published
    BY DEF SetVal
  <2> QED
    BY <2>1, <1>1, <1>3, <1>7 DEF IInv, SizeOK, SizedBeforeUse, ExitOK, UnlinkedLast, Setup, shm, bufs
<1>12. InStep'
  <2>1. SessionOpen => pc'[Sender] \notin {"publish", "show", "await"}
    BY <1>3, <1>8 DEF Setup
  <2> QED
    BY <2>1, <1>1, <1>7, <1>8 DEF InStep
<1> QED
  BY <1>4, <1>5, <1>6, <1>9, <1>10, <1>11, <1>12 DEF IInv

\* Removing the set wakes the receiver if it sleeps.
LEMMA RemoveStep == ASSUME IInv, SRemove PROVE IInv'
<1>1. /\ pc[Sender] = "remove" /\ exists' = FALSE /\ val' = 0 /\ waiting' = {}
      /\ UNCHANGED <<shm, bufs, hist>>
      /\ semid' = [p \in Process |-> IF semid[p] = "live" THEN "dead" ELSE semid[p]]
  BY DEF SRemove
<1>2. pc' = [p \in Process |-> IF p = Sender THEN "done"
                               ELSE IF p \in waiting THEN Granted[pc[p]] ELSE pc[p]]
  BY DEF SRemove
<1>3. /\ pc'[Sender] = "done"
      /\ \/ pc'[Receiver] = pc[Receiver]
         \/ pc[Receiver] = "take" /\ pc'[Receiver] = "compare"
  BY <1>2, Sleepers, TakeLabels DEF Process, Sender, Receiver
<1>4. TypeOK'
  <2>1. pc' \in [Process -> SLabel \cup RLabel] /\ pc'[Sender] \in SLabel /\ pc'[Receiver] \in RLabel
    <3>1. pc'[Sender] \in SLabel /\ pc'[Receiver] \in RLabel
      BY <1>3 DEF IInv, TypeOK, SLabel, RLabel
    <3> QED
      BY <3>1, <1>2 DEF Process
  <2>2. semid' \in [Process -> {"none", "live", "dead"}]
    BY <1>1 DEF IInv, TypeOK
  <2>3. val' \in 0..SemMax
    BY <1>1, BoundsAssumption
  <2> QED
    BY <2>1, <2>2, <2>3, <1>1 DEF IInv, TypeOK, shm, bufs, hist
<1>5. SemidOK'
  <2>1. semid[Sender] = "live"
    BY <1>1 DEF IInv, TypeOK, SemidOK, Process
  <2>2. semid'[Sender] = "dead"
    BY <2>1, <1>1 DEF Process
  <2>3. semid'[Receiver] = IF semid[Receiver] = "live" THEN "dead" ELSE semid[Receiver]
    BY <1>1 DEF Process
  <2>4. pc[Receiver] # "setval"
    BY <1>1 DEF IInv, FreshOK, SessionOpen, Process, Setup
  <2> QED
    BY <2>1, <2>2, <2>3, <2>4, <1>1, <1>3 DEF IInv, TypeOK, SemidOK, Process, Sender, Receiver
<1>6. SleepOK'
  BY <1>1 DEF SleepOK
<1>7. ~SessionOpen'
  BY <1>3 DEF SessionOpen
<1>8. FreshOK' /\ TokensConserved' /\ NoPhantomRequest' /\ InStep'
  BY <1>7 DEF FreshOK, TokensConserved, NoPhantomRequest, InStep
<1>9. SizeOK'
  BY <1>1, <1>3, <1>7 DEF IInv, SizeOK, SizedBeforeUse, RBusy, shm, hist
<1>10. ExitOK' /\ UnlinkedLast'
  BY <1>1, <1>3 DEF IInv, ExitOK, UnlinkedLast, shm, bufs
<1> QED
  BY <1>4, <1>5, <1>6, <1>8, <1>9, <1>10 DEF IInv

\* What the sender's +2 and +1 have in common: k is added and the next step is
\* `label`.
LEMMA SenderAddFrame ==
    ASSUME IInv, NEW k \in {1, 2}, NEW label \in {"remove", "await", "acquire"}, NEW pub,
           pc[Sender] \in {"publish", "show"}, Add(Sender, Receiver, k, label, pub),
           UNCHANGED <<exists, semid, shm, bufs>>, published' \in {published, published + 1}
    PROVE  /\ TypeOK' /\ SemidOK' /\ SleepOK' /\ FreshOK' /\ SizeOK'
           /\ SessionOpen /\ SessionOpen' /\ semid[Sender] = "live"
           /\ pc'[Sender] = label /\ overtaken' = overtaken
<1>1. \/ /\ Receiver \in waiting /\ pc[Receiver] = "take"
         /\ semid[Receiver] = "live"
         /\ val + k \in 2..SemMax /\ val' = val + k - 2 /\ waiting' = {}
         /\ pc' = [pc EXCEPT ![Sender] = label, ![Receiver] = "compare"]
         /\ served' = served + 1 /\ overtaken' = overtaken
      \/ /\ val + k \in 0..SemMax
         /\ Receiver \in waiting => val + k < 2
         /\ val' = val + k /\ waiting' = waiting
         /\ pc' = [pc EXCEPT ![Sender] = label]
         /\ served' = served /\ overtaken' = overtaken
      \/ /\ val' = val /\ waiting' = waiting
         /\ pc' = [pc EXCEPT ![Sender] = label]
         /\ served' = served /\ overtaken' = overtaken
  BY SenderAdds
<1>2. /\ pc' \in [Process -> SLabel \cup RLabel] /\ pc'[Sender] = label
      /\ \/ pc'[Receiver] = pc[Receiver]
         \/ Receiver \in waiting /\ pc[Receiver] = "take" /\ pc'[Receiver] = "compare"
            /\ served' = served + 1
  BY <1>1 DEF IInv, TypeOK, SLabel, RLabel, Process, Sender, Receiver
<1>3. val' \in 0..SemMax /\ published' \in Nat /\ served' \in Nat /\ waiting' \subseteq waiting
  BY <1>1, BoundsAssumption DEF IInv, TypeOK
<1>4. semid[Sender] = "live" /\ exists /\ SessionOpen /\ SessionOpen'
  BY <1>2 DEF IInv, TypeOK, SemidOK, SessionOpen, Process
<1>5. TypeOK'
  BY <1>1, <1>2, <1>3 DEF IInv, TypeOK, SLabel, RLabel, shm, bufs
<1>6. SemidOK'
  BY <1>2, <1>4 DEF IInv, TypeOK, SemidOK, Process, Sender, Receiver
<1>7. SleepOK'
  <2>1. waiting' \subseteq {Receiver}
    BY <1>3, Sleepers DEF IInv, TypeOK, Process
  <2>2. Receiver \in waiting' => /\ pc'[Receiver] = "take" /\ semid[Receiver] = "live"
                                 /\ val' \in Nat /\ val' < 2
    BY <1>1, <1>2, <1>3, Sleepers, BoundsAssumption DEF IInv, TypeOK
  <2> QED
    BY <2>1, <2>2, TakeLabels DEF SleepOK
<1>8. FreshOK'
  <2>1. pc'[Sender] # "setval" /\ pc'[Receiver] # "setval"
    BY <1>2, <1>4 DEF IInv, FreshOK, Process, Setup
  <2> QED
    BY <2>1, <1>2, <1>4 DEF FreshOK, Process, Setup
<1>9. SizeOK'
  BY <1>2 DEF IInv, SizeOK, SizedBeforeUse, shm
<1> QED
  BY <1>1, <1>2, <1>4, <1>5, <1>6, <1>7, <1>8, <1>9

\* Publishing: the receiver takes the request at once if it sleeps.
LEMMA PublishStep == ASSUME IInv, SPublish PROVE IInv'
<1> DEFINE label == IF command = "exit" THEN "remove" ELSE "await"
<1>1. /\ pc[Sender] = "publish" /\ UNCHANGED <<exists, semid, shm, bufs>>
      /\ published' = IF Accepted(Sender, 2) THEN published + 1 ELSE published
      /\ Add(Sender, Receiver, 2, label, published')
  BY DEF SPublish
<1>2. /\ TypeOK' /\ SemidOK' /\ SleepOK' /\ FreshOK' /\ SizeOK'
      /\ SessionOpen /\ SessionOpen' /\ semid[Sender] = "live"
      /\ pc'[Sender] = label /\ overtaken' = overtaken
  BY <1>1, SenderAddFrame
<1>3. \/ /\ Accepted(Sender, 2) /\ Receiver \in waiting /\ pc[Receiver] = "take"
         /\ semid[Receiver] = "live" /\ val' = val
         /\ pc'[Receiver] = "compare" /\ served' = served + 1
      \/ /\ Accepted(Sender, 2) /\ Receiver \notin waiting /\ val' = val + 2
         /\ pc'[Receiver] = pc[Receiver] /\ served' = served
      \/ /\ ~Accepted(Sender, 2) /\ val' = val
         /\ pc'[Receiver] = pc[Receiver] /\ served' = served
  BY <1>1, <1>2, SenderAdds, BoundsAssumption DEF Accepted, IInv, TypeOK, Process, Sender, Receiver
<1>4. /\ val \in Nat /\ published \in Nat /\ served \in Nat
      /\ Holding = 1 /\ Holding' = 0 /\ SHolds
  BY <1>1, <1>2, BoundsAssumption DEF IInv, TypeOK, Holding, SHolds
<1>5. /\ pc'[Receiver] = pc[Receiver] => Serving' = Serving /\ RServing' = RServing
      /\ pc'[Receiver] = "compare" /\ pc[Receiver] = "take" =>
           Serving' <= 1 /\ Serving = 0
      /\ Serving \in {0, 1} /\ Serving' \in {0, 1}
  BY <1>1 DEF Serving, RServing, RBusy
<1>6. TokensConserved' /\ NoPhantomRequest'
  BY <1>1, <1>2, <1>3, <1>4, <1>5 DEF IInv, TokensConserved, NoPhantomRequest
<1>7. ExitOK' /\ UnlinkedLast'
  BY <1>1, <1>2, <1>3 DEF IInv, ExitOK, UnlinkedLast, shm, bufs
<1>8. InStep'
  <2>1. SUFFICES ASSUME ~overtaken, command # "exit" PROVE InStep'
    BY <1>1, <1>2 DEF InStep, bufs
  <2>2. /\ val = 0 /\ ~RServing /\ published = served /\ content = command
        /\ Accepted(Sender, 2)
    BY <2>1, <1>1, <1>2, <1>4, InStepExclusion, BoundsAssumption DEF IInv, InStep, Accepted
  <2>3. pc'[Sender] = "await" /\ content' = content /\ command' = command
    BY <2>1, <1>1, <1>2 DEF shm, bufs
  <2>4. CASE pc'[Receiver] = "compare" /\ served' = served + 1
    BY <2>2, <2>3, <2>4, <1>1, <1>3 DEF InStep, Answering, RServing, RBusy
  <2>5. CASE RServing' = RServing /\ served' = served
    BY <2>2, <2>3, <2>5, <1>1 DEF InStep
  <2> QED
    BY <2>4, <2>5, <1>3, <1>5
<1> QED
  BY <1>2, <1>6, <1>7, <1>8 DEF IInv

\* Printing an answer and giving the token back.
LEMMA ShowStep == ASSUME IInv, SShow PROVE IInv'
<1>1. /\ pc[Sender] = "show" /\ UNCHANGED <<exists, semid, shm, bufs>>
      /\ published' = published
      /\ Add(Sender, Receiver, 1, "acquire", published)
  BY DEF SShow
<1>2. /\ TypeOK' /\ SemidOK' /\ SleepOK' /\ FreshOK' /\ SizeOK'
      /\ SessionOpen /\ SessionOpen' /\ semid[Sender] = "live"
      /\ pc'[Sender] = "acquire" /\ overtaken' = overtaken
  BY <1>1, SenderAddFrame DEF IInv, TypeOK
<1>3. \/ /\ Receiver \in waiting /\ pc[Receiver] = "take"
         /\ semid[Receiver] = "live" /\ val' = val - 1 /\ val >= 1
         /\ pc'[Receiver] = "compare" /\ served' = served + 1
      \/ /\ val' \in {val, val + 1}
         /\ pc'[Receiver] = pc[Receiver] /\ served' = served
  BY <1>1, <1>2, SenderAdds, BoundsAssumption DEF IInv, TypeOK, Process, Sender, Receiver
<1>4. /\ val \in Nat /\ published \in Nat /\ served \in Nat
      /\ Holding = 1 /\ Holding' = 0 /\ SHolds
  BY <1>1, <1>2, BoundsAssumption DEF IInv, TypeOK, Holding, SHolds
<1>5. /\ pc'[Receiver] = pc[Receiver] => Serving' = Serving
      /\ pc'[Receiver] = "compare" /\ pc[Receiver] = "take" =>
           Serving' <= 1 /\ Serving = 0
      /\ Serving \in {0, 1} /\ Serving' \in {0, 1}
  BY <1>1 DEF Serving, RServing, RBusy
<1>6. TokensConserved' /\ NoPhantomRequest'
  BY <1>1, <1>2, <1>3, <1>4, <1>5 DEF IInv, TokensConserved, NoPhantomRequest
<1>7. ExitOK' /\ UnlinkedLast'
  BY <1>1, <1>2, <1>3 DEF IInv, ExitOK, UnlinkedLast, shm, bufs
<1>8. InStep'
  <2>1. SUFFICES ASSUME ~overtaken PROVE InStep'
    BY <1>2 DEF InStep
  <2>2. val = 0 /\ published = served
    BY <2>1, <1>1, <1>2, <1>4, InStepExclusion DEF IInv, InStep
  <2> QED
    BY <2>2, <1>1, <1>2, <1>3 DEF InStep
<1> QED
  BY <1>2, <1>6, <1>7, <1>8 DEF IInv

\* The receiver's answer is signalled: a sender that waits for it gets it.
LEMMA NotifyStep == ASSUME IInv, RNotify PROVE IInv'
<1>1. /\ pc[Receiver] = "notify" /\ UNCHANGED <<exists, semid, shm, bufs>>
      /\ published' = published
      /\ Add(Receiver, Sender, 1, "take", published)
  BY DEF RNotify
<1>2. \/ /\ Sender \in waiting /\ pc[Sender] \in {"acquire", "await"}
         /\ semid[Receiver] = "live" /\ val = 0 /\ val' = 0 /\ waiting' = {}
         /\ pc' = [pc EXCEPT ![Receiver] = "take", ![Sender] = Granted[pc[Sender]]]
         /\ served' = served
         /\ overtaken' = (overtaken \/ (pc[Sender] = "await" /\ published # served))
      \/ /\ Sender \notin waiting /\ val' \in {val, val + 1} /\ val' \in 0..SemMax
         /\ val' = val + 1 => semid[Receiver] = "live"
         /\ waiting' = waiting /\ pc' = [pc EXCEPT ![Receiver] = "take"]
         /\ served' = served /\ overtaken' = overtaken
  BY <1>1, ReceiverAdds, BoundsAssumption DEF IInv, TypeOK
<1>3. /\ pc' \in [Process -> SLabel \cup RLabel] /\ pc'[Receiver] = "take"
      /\ \/ pc'[Sender] = pc[Sender] /\ Sender \notin waiting
         \/ Sender \in waiting /\ pc[Sender] = "acquire" /\ pc'[Sender] = "prompt"
         \/ Sender \in waiting /\ pc[Sender] = "await" /\ pc'[Sender] = "show"
  BY <1>2, TakeLabels DEF IInv, TypeOK, SLabel, RLabel, Process, Sender, Receiver
<1>4. /\ val \in Nat /\ val' \in 0..SemMax /\ overtaken' \in BOOLEAN
      /\ waiting' \subseteq Process
      /\ published \in Nat /\ served \in Nat /\ served' = served
  <2>1. val' \in 0..SemMax
    BY <1>2, BoundsAssumption
  <2>2. overtaken' \in BOOLEAN
    BY <1>2 DEF IInv, TypeOK
  <2>3. waiting' \subseteq Process
    BY <1>2 DEF IInv, TypeOK
  <2> QED
    BY <2>1, <2>2, <2>3, <1>2, BoundsAssumption DEF IInv, TypeOK
<1>5. TypeOK'
  BY <1>1, <1>3, <1>4 DEF IInv, TypeOK, SLabel, RLabel, shm, bufs
<1>6. SemidOK'
  BY <1>1, <1>2, <1>3 DEF IInv, TypeOK, SemidOK, Process, Sender, Receiver
<1>7. SleepOK'
  <2>1. waiting' = {}
    BY <1>1, <1>2, Sleepers DEF IInv, TypeOK, Process
  <2> QED
    BY <2>1 DEF SleepOK
<1>8. (SessionOpen' <=> SessionOpen) /\ ~RBusy' /\ ~RServing'
      /\ (SessionOpen => semid[Receiver] = "live" /\ RServing)
  BY <1>1, <1>3, BusyServes DEF SessionOpen, RBusy, RServing
<1>9. FreshOK'
  <2>1. SessionOpen => pc[Sender] # "setval" /\ exists
    BY <1>8 DEF IInv, SemidOK, FreshOK, Process
  <2> QED
    BY <2>1, <1>1, <1>3, <1>8 DEF IInv, FreshOK, Process, Setup
<1>10. TokensConserved' /\ NoPhantomRequest'
  <2>1. SessionOpen => Serving = 1 /\ Serving' = 0
    BY <1>8 DEF Serving
  <2>2. pc'[Sender] = pc[Sender] => Holding' = Holding
    BY DEF Holding, SHolds
  <2>3. pc[Sender] \in {"acquire", "await"} => Holding = 0
    BY DEF Holding, SHolds
  <2>4. Holding \in {0, 1} /\ Holding' \in {0, 1}
    BY DEF Holding
  <2>5. CASE Sender \in waiting
    BY <2>1, <2>3, <2>4, <2>5, <1>1, <1>2, <1>3, <1>4, <1>8 DEF IInv, TokensConserved, NoPhantomRequest
  <2>6. CASE Sender \notin waiting
    BY <2>1, <2>2, <2>4, <2>6, <1>1, <1>2, <1>3, <1>4, <1>8 DEF IInv, TokensConserved, NoPhantomRequest
  <2> QED
    BY <2>5, <2>6
<1>11. SizeOK' /\ ExitOK' /\ UnlinkedLast'
  BY <1>1, <1>3, <1>8 DEF IInv, SizeOK, SizedBeforeUse, ExitOK, UnlinkedLast, Setup, shm, bufs
<1>12. InStep'
  <2>1. SUFFICES ASSUME SessionOpen, ~overtaken' PROVE InStep'
    BY <1>8 DEF InStep
  <2>2. ~overtaken
    BY <2>1, <1>2 DEF IInv, TypeOK
  <2>3. pc[Sender] = "await" /\ published = served => content = Strlen[command]
    BY <2>1, <2>2, <1>1, <1>8 DEF IInv, InStep, Answering
  <2>4. CASE pc'[Sender] = pc[Sender]
    BY <2>1, <2>2, <2>3, <2>4, <1>1, <1>4, <1>8 DEF IInv, InStep, shm, bufs
  <2>5. CASE pc'[Sender] = "prompt" /\ pc[Sender] = "acquire"
    BY <2>1, <2>2, <2>5, <1>1, <1>4, <1>8 DEF IInv, InStep, shm, bufs
  <2>6. CASE pc'[Sender] = "show" /\ pc[Sender] = "await"
    <3>1. published = served
      BY <2>1, <2>6, <1>2, <1>3 DEF IInv, TypeOK
    <3> QED
      BY <2>3, <2>6, <3>1, <1>1, <1>4 DEF InStep, shm, bufs
  <2> QED
    BY <2>4, <2>5, <2>6, <1>3
<1> QED
  BY <1>5, <1>6, <1>7, <1>9, <1>10, <1>11, <1>12 DEF IInv

\* A step that changes nothing keeps the invariant.
LEMMA StutterStep == ASSUME IInv, UNCHANGED vars PROVE IInv'
BY DEF vars, sem, shm, bufs, hist, IInv, TypeOK, SemidOK, SleepOK, FreshOK, TokensConserved,
       NoPhantomRequest, SizeOK, SizedBeforeUse, ExitOK, UnlinkedLast, InStep, Answering, SessionOpen,
       SHolds, RBusy, RServing, Serving, Holding

\* The invariant is inductive.
LEMMA NextIInv == IInv /\ [Next]_vars => IInv'
<1> SUFFICES ASSUME IInv, [Next]_vars PROVE IInv'
  OBVIOUS
<1>1. CASE \E p \in Process : Start(p) \/ Create(p) \/ Get(p) \/ SetVal(p) \/ Take(p)
  BY <1>1, StartStep, CreateStep, GetStep, SetValStep, SenderTakeStep, ReceiverTakeStep DEF Process
<1>2. CASE SOpen \/ SSize \/ SStore \/ SPublish \/ SShow \/ SRemove
  BY <1>2, SOpenStep, SSizeStep, StoreStep, PublishStep, ShowStep, RemoveStep
<1>3. CASE ROpen \/ RMap \/ RCompare \/ RMeasure \/ RWrite \/ RNotify \/ RUnlink
  BY <1>3, ROpenStep, RMapStep, CompareStep, MeasureStep, WriteStep, NotifyStep, UnlinkStep
<1>4. CASE (\E w \in Words : SType(w)) \/ SRepeat \/ SUninitialised
  BY <1>4, TypeStep, RepeatStep, UninitialisedStep
<1>5. CASE UNCHANGED vars
  BY <1>5, StutterStep
<1> QED
  BY <1>1, <1>2, <1>3, <1>4, <1>5
  DEF Next, SenderStep, ReceiverStep, UserStep, Common, Process

\* The inductive invariant holds throughout.
THEOREM Invariance == Spec => []IInv
BY InitIInv, NextIInv, PTL DEF Spec

\* Every variable keeps its type, for all sets of words and all bounds.
THEOREM TypeCorrect == Spec => []TypeOK
<1>1. IInv => TypeOK
  BY DEF IInv
<1> QED
  BY <1>1, Invariance, PTL

\* No tokens are invented: mmap_s_sem.c's +2, -1, +1 and mmap_r_sem.c's -2, +1
\* keep the value within what the published and the served requests account for.
THEOREM TokensConservedAlways == Spec => []TokensConserved
<1>1. IInv => TokensConserved
  BY DEF IInv
<1> QED
  BY <1>1, Invariance, PTL

\* The receiver takes no more requests than the sender published.
THEOREM NoPhantomRequestAlways == Spec => []NoPhantomRequest
<1>1. IInv => NoPhantomRequest
  BY DEF IInv
<1> QED
  BY <1>1, Invariance, PTL

\* Unless the sender has overtaken the receiver, the two are never in the
\* shared region together.
THEOREM ExclusionAlways == Spec => []Exclusion
<1>1. IInv => Exclusion
  BY InStepExclusion DEF IInv, TypeOK, Exclusion
<1> QED
  BY <1>1, Invariance, PTL

\* Unless the sender has overtaken the receiver, what it prints next to its
\* command is the length of that command.
THEOREM ReplyMatchesAlways == Spec => []ReplyMatches
<1>1. IInv => ReplyMatches
  BY DEF IInv, InStep, SessionOpen, ReplyMatches
<1> QED
  BY <1>1, Invariance, PTL

\* As long as the sender runs, the receiver takes a request only from an object
\* that has been sized: a failed ftruncate costs the sender, never the receiver.
THEOREM SizedBeforeUseAlways == Spec => []SizedBeforeUse
<1>1. IInv => SizedBeforeUse
  BY DEF IInv, SizeOK, SizedBeforeUse
<1> QED
  BY <1>1, Invariance, PTL

\* The receiver unlinks the name only at the end of the dialogue.
THEOREM UnlinkedLastAlways == Spec => []UnlinkedLast
<1>1. IInv => UnlinkedLast
  BY DEF IInv
<1> QED
  BY <1>1, Invariance, PTL

\* A request published while the receiver sleeps for it reaches it in the same
\* step, whatever the value was.
THEOREM HandedOverAlways == Spec => HandedOver
<1>1. ASSUME IInv, [Next]_vars, Receiver \in waiting, ~overtaken, published' > published
      PROVE  served' = published'
  <2>1. pc[Receiver] = "take" /\ published \in Nat
    BY <1>1, Sleepers DEF IInv, TypeOK
  <2>2. SPublish
    <3>1. published' # published
      BY <1>1, <2>1
    <3> QED
      BY <3>1, <1>1 DEF Next, SenderStep, ReceiverStep, UserStep, Common, Start, Create, Get,
         SetVal, Take, SOpen, SSize, SStore, SShow, SRemove, SType, SRepeat, SUninitialised,
         ROpen, RMap, RCompare, RMeasure, RWrite, RNotify, RUnlink, Fail, vars, hist
  <2>3. /\ pc[Sender] = "publish" /\ SHolds /\ published' = published + 1
        /\ Accepted(Sender, 2)
    BY <1>1, <2>1, <2>2 DEF SPublish, SHolds
  <2>4. published = served
    BY <1>1, <2>3 DEF IInv, InStep, SessionOpen
  <2>5. served' = served + 1
    <3>1. Add(Sender, Receiver, 2, IF command = "exit" THEN "remove" ELSE "await", published')
      BY <2>2 DEF SPublish
    <3>2. ~(val + 2 < 2)
      BY <1>1, BoundsAssumption DEF IInv, TypeOK
    <3> QED
      BY <3>1, <3>2, <1>1, <2>3, SenderAdds
  <2> QED
    BY <2>3, <2>4, <2>5, <2>1
<1>2. IInv /\ [Next]_vars
        => [(Receiver \in waiting /\ ~overtaken /\ published' > published)
               => served' = published']_vars
  BY <1>1
<1> QED
  BY <1>2, Invariance, PTL DEF Spec, HandedOver
=============================================================================
