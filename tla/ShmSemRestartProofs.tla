------------------------ MODULE ShmSemRestartProofs ------------------------
(***************************************************************************)
(* Proofs about ShmSemRestart for every set of words, every SEMVMX of at   *)
(* least 2 and any number of kills and runs: no token is invented, one is  *)
(* lost only in the listed cases, the receiver takes no request that was   *)
(* not made, and a dialogue that begins over no remains is like a first.   *)
(***************************************************************************)
EXTENDS ShmSemRestart, TLAPS

\* The types of what the semaphore is made of.
Typed ==
    /\ pc \in [Process -> SLabel \cup RLabel]
    /\ pc[Sender] \in SLabel /\ pc[Receiver] \in RLabel
    /\ exists \in BOOLEAN /\ val \in Nat /\ waiting \subseteq Process
    /\ semid \in [Process -> {"none", "live", "dead"}]
    /\ published \in Nat /\ served \in Nat /\ overtaken \in BOOLEAN

NoSet == {"off", "create", "get"}

\* Which identifier a program has at which step.  Only the receiver can have
\* that of a removed set and go on.
IdOK ==
    /\ semid[Sender] = "none" <=> pc[Sender] \in NoSet
    /\ semid[Sender] = "dead" <=> pc[Sender] = "done"
    /\ semid[Receiver] = "none" <=> pc[Receiver] \in NoSet
    /\ pc[Receiver] = "setval" => semid[Receiver] = "live"
    /\ semid[Sender] = "live" \/ semid[Receiver] = "live" => exists

\* Who sleeps does so for more than there is.
AsleepOK ==
    /\ Sender \in waiting => pc[Sender] \in {"acquire", "await"} /\ val = 0
    /\ Receiver \in waiting => pc[Receiver] = "take" /\ semid[Receiver] = "live" /\ val < 2

\* Until its creator has set the value of a set nobody has a token of it.
UnsetOK ==
    /\ pc[Sender] = "setval" => val = 0 /\ pc[Receiver] # "setval" /\ ~RServing
                                /\ published = served
    /\ pc[Receiver] = "setval" => /\ val = 0
                                  /\ pc[Sender] \in Setup \cup {"size", "acquire", "done"}
                                  /\ SessionOpen => published = served

\* The count of tokens.  Without a sender a set has at most the first one.
CountOK ==
    /\ TokensConserved /\ NoPhantomRequest
    /\ ~SessionOpen => val <= 1 /\ ~RServing
    /\ ~exists => val = 0 /\ (SessionOpen => published = 0 /\ served = 0)

TokenInv == Typed /\ IdOK /\ AsleepOK /\ UnsetOK /\ CountOK

\* A receiver that has opened the object finds its name; a sender that starts
\* has not overtaken anyone; the answer is awaited to no "exit".
NameOK ==
    /\ pc[Receiver] \in {"map", "take", "compare", "measure", "write", "notify", "unlink"} => named
    /\ pc[Sender] \in {"create", "setval", "get", "open", "size"} => overtaken = FALSE
    /\ pc[Sender] = "await" => command # "exit"

\* Over no remains: no receiver of a removed set runs, an object without a size
\* has no request, and requests and answers are where ShmSem has them, or the
\* receiver was killed and its token is lost.
NoDead == pc[Sender] \notin {"off", "done"} /\ semid[Receiver] = "dead" => pc[Receiver] = "done"

UnsizedOK ==
    SessionOpen /\ ~sized =>
      published = served /\ ~Holds(Receiver) /\ pc[Sender] \notin {"publish", "await", "show"}

TurnOK == pc[Sender] \notin {"off", "await", "remove", "done"} => published = served

TextOK ==
    /\ pc[Sender] = "publish" => content = command
    /\ pc[Sender] = "show" => content = Strlen[command]

AwaitOK ==
    pc[Sender] = "await" =>
      IF RServing THEN published = served /\ Answering
      ELSE \/ published = served + 1 /\ content = command
           \/ published = served /\ (content = Strlen[command] \/ val = 0)

CleanOK == NoDead /\ UnsizedOK /\ (~overtaken => TurnOK /\ TextOK /\ AwaitOK)

CleanInv == NameOK /\ (~stale => CleanOK)

RestartInv == TokenInv /\ CleanInv
-----------------------------------------------------------------------------
\* The two programs are different, and there is no third.
LEMMA TwoPrograms ==
    /\ Sender # Receiver /\ Sender \in Process /\ Receiver \in Process
    /\ \A p \in Process : p = Sender \/ p = Receiver
    /\ Other(Sender) = Receiver /\ Other(Receiver) = Sender
BY DEF Process, Sender, Receiver, Other

\* What the three takes need and where they lead.
LEMMA TakeSteps ==
    /\ DOMAIN Need = {"acquire", "await", "take"}
    /\ Need["acquire"] = 1 /\ Need["await"] = 1 /\ Need["take"] = 2
    /\ Granted["acquire"] = "prompt" /\ Granted["await"] = "show"
    /\ Granted["take"] = "compare"
BY DEF Need, Granted

\* A step of one program, or of both.
LEMMA Moved ==
    ASSUME Typed, NEW l
    PROVE  /\ pc' = [pc EXCEPT ![Sender] = l] =>
                /\ pc'[Sender] = l /\ pc'[Receiver] = pc[Receiver]
                /\ l \in SLabel => pc' \in [Process -> SLabel \cup RLabel]
           /\ pc' = [pc EXCEPT ![Receiver] = l] =>
                /\ pc'[Receiver] = l /\ pc'[Sender] = pc[Sender]
                /\ l \in RLabel => pc' \in [Process -> SLabel \cup RLabel]
<1>1. pc \in [Process -> SLabel \cup RLabel] /\ pc[Sender] \in SLabel /\ pc[Receiver] \in RLabel
  BY DEF Typed
<1> QED
  BY <1>1, TwoPrograms

\* A step of one that completes the operation the other sleeps in moves both.
LEMMA BothMoved ==
    ASSUME Typed, NEW l \in SLabel, NEW m \in RLabel,
           \/ pc' = [pc EXCEPT ![Sender] = l, ![Receiver] = m]
           \/ pc' = [pc EXCEPT ![Receiver] = m, ![Sender] = l]
    PROVE  /\ pc'[Sender] = l /\ pc'[Receiver] = m
           /\ pc' \in [Process -> SLabel \cup RLabel]
<1>1. pc \in [Process -> SLabel \cup RLabel]
  BY DEF Typed
<1> QED
  BY <1>1, TwoPrograms

\* -sem_op of the sender.
LEMMA SenderTakes ==
    ASSUME TokenInv, Take(Sender)
    PROVE  /\ pc[Sender] \in {"acquire", "await"} /\ semid[Sender] = "live"
           /\ Sender \notin waiting
           /\ UNCHANGED <<exists, semid, shm, bufs, published, served>>
           /\ \/ /\ val >= 1 /\ val' = val - 1 /\ waiting' = waiting
                 /\ pc' = [pc EXCEPT ![Sender] = IF pc[Sender] = "acquire" THEN "prompt" ELSE "show"]
                 /\ overtaken' = (overtaken \/ (pc[Sender] = "await" /\ published # served))
              \/ val = 0 /\ waiting' = waiting \cup {Sender} /\ UNCHANGED <<pc, val, overtaken>>
<1> USE DEF TokenInv
<1>1. pc[Sender] \in {"acquire", "await"} /\ val \in Nat
  BY TakeSteps DEF Take, Typed, SLabel, Setup
<1>2. semid[Sender] = "live"
  BY <1>1, TwoPrograms DEF Typed, IdOK, NoSet
<1>3. /\ Need[pc[Sender]] = 1
      /\ Granted[pc[Sender]] = IF pc[Sender] = "acquire" THEN "prompt" ELSE "show"
  BY <1>1, TakeSteps
<1>4. UNCHANGED <<exists, semid, shm, bufs, published>> /\ Sender \notin waiting
  BY DEF Take
<1>5. \/ val >= 1 /\ val' = val - 1 /\ pc' = [pc EXCEPT ![Sender] = Granted[pc[Sender]]]
         /\ Took(Sender, published) /\ UNCHANGED waiting
      \/ val < 1 /\ waiting' = waiting \cup {Sender} /\ UNCHANGED <<pc, val, served, overtaken>>
  BY <1>2, <1>3 DEF Take, Goto
<1>6. Took(Sender, published) =>
        /\ served' = served
        /\ overtaken' = (overtaken \/ (pc[Sender] = "await" /\ published # served))
  BY TwoPrograms DEF Took
<1> QED
  BY <1>1, <1>2, <1>3, <1>4, <1>5, <1>6

\* -2 of the receiver.
LEMMA ReceiverTakes ==
    ASSUME TokenInv, Take(Receiver)
    PROVE  /\ pc[Receiver] = "take" /\ Receiver \notin waiting
           /\ UNCHANGED <<exists, semid, shm, bufs, published, overtaken>>
           /\ \/ /\ semid[Receiver] = "live" /\ val >= 2 /\ val' = val - 2 /\ waiting' = waiting
                 /\ pc' = [pc EXCEPT ![Receiver] = "compare"] /\ served' = served + 1
              \/ /\ semid[Receiver] = "live" /\ val < 2
                 /\ waiting' = waiting \cup {Receiver} /\ UNCHANGED <<pc, val, served>>
              \/ /\ semid[Receiver] = "dead"
                 /\ pc' = [pc EXCEPT ![Receiver] = "compare"] /\ UNCHANGED <<val, waiting, served>>
<1> USE DEF TokenInv
<1>1. pc[Receiver] = "take"
  BY TakeSteps DEF Take, Typed, RLabel, Setup
<1>3. Need[pc[Receiver]] = 2 /\ Granted[pc[Receiver]] = "compare"
  BY <1>1, TakeSteps
<1>4. UNCHANGED <<exists, semid, shm, bufs, published>> /\ Receiver \notin waiting
  BY DEF Take
<1>5. \/ /\ semid[Receiver] = "live" /\ val >= 2 /\ val' = val - 2
         /\ pc' = [pc EXCEPT ![Receiver] = "compare"]
         /\ Took(Receiver, published) /\ UNCHANGED waiting
      \/ /\ semid[Receiver] = "live" /\ val < 2 /\ waiting' = waiting \cup {Receiver}
         /\ UNCHANGED <<pc, val, served, overtaken>>
      \/ /\ semid[Receiver] = "dead" /\ pc' = [pc EXCEPT ![Receiver] = "compare"]
         /\ UNCHANGED <<val, waiting, served, overtaken>>
  BY <1>3 DEF Take, Goto
<1>6. overtaken \in BOOLEAN /\ Took(Receiver, published) => served' = served + 1 /\ overtaken' = overtaken
  BY <1>1, TwoPrograms DEF Took
<1>7. overtaken \in BOOLEAN
  BY DEF Typed
<1> QED
  BY <1>1, <1>3, <1>4, <1>5, <1>6, <1>7

\* An add of the sender, +2 with its request or +1 with the print.
LEMMA SenderAdds ==
    ASSUME TokenInv, NEW k \in {1, 2}, NEW l, NEW pub,
           pc[Sender] \in {"publish", "show"}, Add(Sender, Receiver, k, l, pub)
    PROVE  /\ semid[Sender] = "live" /\ overtaken' = overtaken
           /\ \/ /\ val + k <= SemMax /\ val + k >= 2 /\ Receiver \in waiting
                 /\ pc[Receiver] = "take" /\ semid[Receiver] = "live"
                 /\ val' = val + k - 2 /\ waiting' = waiting \ {Receiver}
                 /\ pc' = [pc EXCEPT ![Sender] = l, ![Receiver] = "compare"]
                 /\ served' = served + 1
              \/ /\ val + k <= SemMax /\ (Receiver \in waiting => val + k < 2)
                 /\ val' = val + k /\ waiting' = waiting
                 /\ pc' = [pc EXCEPT ![Sender] = l] /\ served' = served
              \/ /\ val + k > SemMax /\ val' = val /\ waiting' = waiting
                 /\ pc' = [pc EXCEPT ![Sender] = l] /\ served' = served
<1> USE DEF TokenInv
<1>1. val \in Nat /\ SemMax \in Nat /\ overtaken \in BOOLEAN
  BY BoundsAssumption DEF Typed
<1>2. semid[Sender] = "live"
  BY TwoPrograms DEF Typed, IdOK, NoSet
<1>3. Receiver \in waiting => /\ pc[Receiver] = "take" /\ semid[Receiver] = "live"
                              /\ Need[pc[Receiver]] = 2 /\ Granted[pc[Receiver]] = "compare"
  BY TakeSteps DEF AsleepOK
<1>4. CASE Accepted(Sender, k) /\ Wakes(Receiver, val + k)
  <2>1. Receiver \in waiting /\ val + k >= 2 /\ val + k <= SemMax
    BY <1>3, <1>4 DEF Wakes, Accepted
  <2>2. /\ val' = val + k - 2 /\ waiting' = waiting \ {Receiver}
        /\ pc' = [pc EXCEPT ![Sender] = l, ![Receiver] = Granted[pc[Receiver]]]
        /\ Took(Receiver, pub)
    <3>1. SetTo(Sender, Receiver, val + k, l, pub)
      BY <1>4 DEF Add
    <3>2. val' = val + k - 2
      BY <1>1, <1>3, <1>4, <2>1, <3>1 DEF SetTo
    <3>5. waiting' = waiting \ {Receiver}
      BY <1>4, <3>1 DEF SetTo
    <3>3. pc' = [pc EXCEPT ![Sender] = l, ![Receiver] = Granted[pc[Receiver]]]
      BY <1>4, <3>1 DEF SetTo
    <3>4. Took(Receiver, pub)
      BY <1>4, <3>1 DEF SetTo
    <3> QED
      BY <3>2, <3>3, <3>4, <3>5
  <2>3. served' = served + 1 /\ overtaken' = overtaken
    BY <1>1, <1>3, <2>1, <2>2, TwoPrograms DEF Took
  <2> QED
    BY <1>2, <1>3, <2>1, <2>2, <2>3
<1>5. CASE Accepted(Sender, k) /\ ~Wakes(Receiver, val + k)
  <2>1. Receiver \in waiting => val + k < 2
    BY <1>1, <1>3, <1>5 DEF Wakes
  <2> QED
    BY <1>2, <1>5, <2>1 DEF Add, SetTo, Accepted, Goto
<1>6. CASE ~Accepted(Sender, k)
  BY <1>1, <1>2, <1>6 DEF Add, Accepted, Goto
<1> QED
  BY <1>4, <1>5, <1>6

\* +1 of the receiver with its answer.
LEMMA ReceiverAdds ==
    ASSUME TokenInv, pc[Receiver] = "notify", Add(Receiver, Sender, 1, "take", published)
    PROVE  /\ served' = served
           /\ \/ /\ semid[Receiver] = "live" /\ Sender \in waiting /\ val = 0 /\ val' = 0
                 /\ pc[Sender] \in {"acquire", "await"} /\ waiting' = waiting \ {Sender}
                 /\ pc' = [pc EXCEPT ![Receiver] = "take",
                               ![Sender] = IF pc[Sender] = "acquire" THEN "prompt" ELSE "show"]
                 /\ overtaken' = (overtaken \/ (pc[Sender] = "await" /\ published # served))
              \/ /\ semid[Receiver] = "live" /\ Sender \notin waiting /\ val + 1 <= SemMax
                 /\ val' = val + 1 /\ waiting' = waiting /\ overtaken' = overtaken
                 /\ pc' = [pc EXCEPT ![Receiver] = "take"]
              \/ /\ semid[Receiver] = "live" /\ Sender \notin waiting /\ val + 1 > SemMax
                 /\ val' = val /\ waiting' = waiting /\ overtaken' = overtaken
                 /\ pc' = [pc EXCEPT ![Receiver] = "take"]
              \/ /\ semid[Receiver] = "dead"
                 /\ val' = val /\ waiting' = waiting /\ overtaken' = overtaken
                 /\ pc' = [pc EXCEPT ![Receiver] = "take"]
<1> USE DEF TokenInv
<1>1. val \in Nat /\ SemMax \in Nat /\ SemMax >= 2 /\ overtaken \in BOOLEAN
  BY BoundsAssumption DEF Typed
<1>2. semid[Receiver] \in {"live", "dead"}
  BY TwoPrograms DEF Typed, IdOK, NoSet
<1>3. Sender \in waiting =>
        /\ pc[Sender] \in {"acquire", "await"} /\ val = 0 /\ Need[pc[Sender]] = 1
        /\ Granted[pc[Sender]] = IF pc[Sender] = "acquire" THEN "prompt" ELSE "show"
  BY TakeSteps DEF AsleepOK
<1>4. CASE Accepted(Receiver, 1) /\ Wakes(Sender, val + 1)
  <2>1. Sender \in waiting /\ semid[Receiver] = "live"
    BY <1>4 DEF Wakes, Accepted
  <2>2. /\ val' = val + 1 - 1 /\ waiting' = waiting \ {Sender}
        /\ pc' = [pc EXCEPT ![Receiver] = "take", ![Sender] = Granted[pc[Sender]]]
        /\ Took(Sender, published)
    <3>1. SetTo(Receiver, Sender, val + 1, "take", published)
      BY <1>4 DEF Add
    <3>2. val' = val + 1 - 1
      BY <1>1, <1>3, <1>4, <2>1, <3>1 DEF SetTo
    <3>5. waiting' = waiting \ {Sender}
      BY <1>4, <3>1 DEF SetTo
    <3>3. pc' = [pc EXCEPT ![Receiver] = "take", ![Sender] = Granted[pc[Sender]]]
      BY <1>4, <3>1 DEF SetTo
    <3>4. Took(Sender, published)
      BY <1>4, <3>1 DEF SetTo
    <3> QED
      BY <3>2, <3>3, <3>4, <3>5
  <2>3. /\ served' = served
        /\ overtaken' = (overtaken \/ (pc[Sender] = "await" /\ published # served))
    BY <2>2, TwoPrograms DEF Took
  <2>4. val' = 0
    BY <1>3, <2>1, <2>2
  <2> QED
    BY <1>3, <2>1, <2>2, <2>3, <2>4
<1>5. CASE Accepted(Receiver, 1) /\ ~Wakes(Sender, val + 1)
  <2>1. Sender \notin waiting
    BY <1>1, <1>3, <1>5 DEF Wakes
  <2> QED
    BY <1>5, <2>1 DEF Add, SetTo, Accepted, Goto
<1>6. CASE ~Accepted(Receiver, 1)
  <2>1. semid[Receiver] = "live" => val + 1 > SemMax /\ Sender \notin waiting
    BY <1>1, <1>3, <1>6 DEF Accepted
  <2>2. /\ val' = val /\ waiting' = waiting /\ overtaken' = overtaken /\ served' = served
        /\ pc' = [pc EXCEPT ![Receiver] = "take"]
    BY <1>6 DEF Add, Goto
  <2> QED
    BY <1>2, <2>1, <2>2
<1> QED
  BY <1>4, <1>5, <1>6

\* SETVAL, by either program: the sender may be asleep for its first token.
LEMMA Sets ==
    ASSUME TokenInv
    PROVE  /\ SetVal(Sender) =>
                /\ pc[Sender] = "setval" /\ UNCHANGED <<exists, semid, shm, bufs, hist, waiting>>
                /\ pc' = [pc EXCEPT ![Sender] = "open"] /\ val' = 1
           /\ SetVal(Receiver) =>
                /\ pc[Receiver] = "setval" /\ UNCHANGED <<exists, semid, shm, bufs, hist>>
                /\ \/ /\ Sender \in waiting /\ pc[Sender] = "acquire" /\ val' = 0
                      /\ waiting' = waiting \ {Sender}
                      /\ pc' = [pc EXCEPT ![Receiver] = "open", ![Sender] = "prompt"]
                   \/ /\ Sender \notin waiting /\ val' = 1 /\ waiting' = waiting
                      /\ pc' = [pc EXCEPT ![Receiver] = "open"]
<1> USE DEF TokenInv
<1>0. overtaken \in BOOLEAN
  BY DEF Typed
<1>1. CASE SetVal(Sender)
  <2>1. pc[Sender] = "setval" /\ UNCHANGED <<exists, semid, shm, bufs, published>>
        /\ SetTo(Sender, Receiver, 1, "open", published)
    BY <1>1, TwoPrograms DEF SetVal
  <2>2. ~Wakes(Receiver, 1)
    BY TakeSteps DEF Wakes, AsleepOK
  <2>3. /\ val' = 1 /\ pc' = [pc EXCEPT ![Sender] = "open"]
        /\ UNCHANGED <<waiting, served, overtaken>>
    BY <2>1, <2>2 DEF SetTo, Goto
  <2>4. ~SetVal(Receiver)
    BY <2>1, TwoPrograms DEF SetVal, UnsetOK
  <2> QED
    BY <2>1, <2>3, <2>4 DEF hist
<1>2. CASE SetVal(Receiver)
  <2>1. pc[Receiver] = "setval" /\ UNCHANGED <<exists, semid, shm, bufs, published>>
        /\ SetTo(Receiver, Sender, 1, "open", published)
    BY <1>2, TwoPrograms DEF SetVal
  <2>2. Sender \in waiting => pc[Sender] = "acquire" /\ Need[pc[Sender]] = 1
                              /\ Granted[pc[Sender]] = "prompt"
    BY <2>1, TakeSteps DEF AsleepOK, UnsetOK, Setup
  <2>5. ~SetVal(Sender)
    BY <2>1, TwoPrograms DEF SetVal, UnsetOK
  <2>3. CASE Sender \in waiting
    <3>1. /\ val' = 1 - Need[pc[Sender]] /\ waiting' = waiting \ {Sender}
          /\ pc' = [pc EXCEPT ![Receiver] = "open", ![Sender] = Granted[pc[Sender]]]
          /\ Took(Sender, published)
      BY <2>1, <2>2, <2>3 DEF SetTo, Wakes
    <3>2. served' = served /\ overtaken' = overtaken
      BY <1>0, <2>2, <2>3, <3>1, TwoPrograms DEF Took
    <3>3. val' = 0
      BY <2>2, <2>3, <3>1
    <3> QED
      BY <2>1, <2>2, <2>3, <2>5, <3>1, <3>2, <3>3 DEF hist
  <2>4. CASE Sender \notin waiting
    <3>1. /\ val' = 1 /\ pc' = [pc EXCEPT ![Receiver] = "open"]
          /\ UNCHANGED <<waiting, served, overtaken>>
      BY <2>1, <2>4 DEF SetTo, Wakes, Goto
    <3> QED
      BY <2>1, <2>4, <2>5, <3>1 DEF hist
  <2> QED
    BY <2>3, <2>4
<1> QED
  BY <1>1, <1>2
-----------------------------------------------------------------------------
\* The tokens at the start.
LEMMA InitTokens == ASSUME RestartInit PROVE TokenInv
<1>1. /\ pc = [p \in Process |-> "off"] /\ semid = [p \in Process |-> "none"]
      /\ exists = FALSE /\ val = 0 /\ waiting = {} /\ published = 0 /\ served = 0
      /\ overtaken = FALSE
  BY DEF RestartInit, Init
<1>2. /\ pc[Sender] = "off" /\ pc[Receiver] = "off"
      /\ semid[Sender] = "none" /\ semid[Receiver] = "none"
  BY <1>1, TwoPrograms
<1>3. "off" \in SLabel /\ "off" \in RLabel
  BY DEF SLabel, RLabel, Setup
<1>4. Typed
  BY <1>1, <1>2, <1>3 DEF Typed
<1>5. IdOK /\ AsleepOK /\ UnsetOK
  BY <1>1, <1>2 DEF IdOK, AsleepOK, UnsetOK, NoSet
<1>6. CountOK
  BY <1>1, <1>2 DEF CountOK, TokensConserved, NoPhantomRequest, SessionOpen, Holding, Serving,
                    SHolds, RServing, RBusy
<1> QED
  BY <1>4, <1>5, <1>6 DEF TokenInv

\* The steps before the first token.
Early == Setup \cup {"size", "acquire"}

\* What is given up leaves room for as much.
LEMMA Fewer ==
    ASSUME NEW v \in Nat, NEW h \in Nat, NEW r \in Nat, NEW a \in Nat, NEW b \in Nat,
           NEW i \in Nat, NEW o \in Nat, a <= h, b <= r, v + h + r <= 1 + i - o
    PROVE  v + a + b <= 1 + i - o
OBVIOUS

\* A step of the sender that is no operation on the semaphore, its end by a
\* signal included: it may give up what it holds.
LEMMA SenderMoves ==
    ASSUME TokenInv, NEW l \in SLabel \ {"setval", "done", "await"},
           pc[Sender] # "done", pc' = [pc EXCEPT ![Sender] = l],
           pc[Sender] \in Early => l \in Early,
           l \in {"prompt", "store", "publish", "show"} => SHolds,
           waiting' = waiting \ {Sender},
           semid' \in [Process -> {"none", "live", "dead"}], semid'[Receiver] = semid[Receiver],
           IF l \in NoSet THEN semid'[Sender] = "none" ELSE exists /\ semid'[Sender] = "live",
           UNCHANGED <<exists, val, published, served>>, overtaken' \in BOOLEAN
    PROVE  TokenInv'
<1> USE DEF TokenInv
<1>1. pc'[Sender] = l /\ pc'[Receiver] = pc[Receiver] /\ pc' \in [Process -> SLabel \cup RLabel]
  BY Moved
<1>2. Typed'
  BY <1>1 DEF Typed
<1>3. IdOK'
  BY <1>1 DEF IdOK, NoSet
<1>4. AsleepOK'
  BY <1>1 DEF AsleepOK
<1>5. SessionOpen /\ SessionOpen' /\ RServing' = RServing /\ Serving' = Serving
  BY <1>1 DEF SessionOpen, RServing, RBusy, Serving
<1>6. UnsetOK'
  BY <1>1, <1>5 DEF UnsetOK, Early, SessionOpen
<1>7. /\ Holding' <= Holding /\ Holding \in Nat /\ Holding' \in Nat
      /\ Serving \in Nat /\ Serving' \in Nat
  BY <1>1 DEF Holding, SHolds, Serving
<1>9. val \in Nat /\ published \in Nat /\ served \in Nat
  BY DEF Typed
<1>11. SessionOpen => val + Holding + Serving <= 1 + published - served
  BY DEF CountOK, TokensConserved
<1>13. Holding' <= Holding /\ Serving' <= Serving
  BY <1>5, <1>7
<1>14. val + Holding + Serving <= 1 + published - served
         => val + Holding' + Serving' <= 1 + published - served
  BY <1>7, <1>9, <1>13, Fewer
<1>12. SessionOpen' => val + Holding' + Serving' <= 1 + published - served
  BY <1>5, <1>11, <1>14
<1>10. TokensConserved'
  BY <1>12 DEF TokensConserved
<1>8. CountOK'
  BY <1>5, <1>10 DEF CountOK, NoPhantomRequest
<1> QED
  BY <1>2, <1>3, <1>4, <1>6, <1>8

\* The same of the receiver.
LEMMA ReceiverMoves ==
    ASSUME TokenInv, NEW l \in RLabel \ {"setval"},
           pc' = [pc EXCEPT ![Receiver] = l],
           waiting' = waiting \ {Receiver},
           semid' \in [Process -> {"none", "live", "dead"}], semid'[Sender] = semid[Sender],
           IF l \in NoSet THEN semid'[Receiver] = "none"
           ELSE semid'[Receiver] = "dead" \/ (semid'[Receiver] = "live" /\ exists),
           RServing' => RServing,
           UNCHANGED <<exists, val, published, served>>, overtaken' \in BOOLEAN
    PROVE  TokenInv'
<1> USE DEF TokenInv
<1>1. pc'[Receiver] = l /\ pc'[Sender] = pc[Sender] /\ pc' \in [Process -> SLabel \cup RLabel]
  BY Moved
<1>2. Typed'
  BY <1>1 DEF Typed
<1>3. IdOK'
  BY <1>1 DEF IdOK, NoSet
<1>4. AsleepOK'
  BY <1>1 DEF AsleepOK
<1>5. SessionOpen' = SessionOpen /\ SHolds' = SHolds /\ Holding' = Holding
  BY <1>1 DEF SessionOpen, SHolds, Holding
<1>6. UnsetOK'
  BY <1>1, <1>5 DEF UnsetOK, Early, SessionOpen
<1>7. /\ Serving' <= Serving /\ Serving \in Nat /\ Serving' \in Nat
      /\ Holding \in Nat /\ Holding' \in Nat
  BY DEF Holding, Serving
<1>9. val \in Nat /\ published \in Nat /\ served \in Nat
  BY DEF Typed
<1>11. SessionOpen => val + Holding + Serving <= 1 + published - served
  BY DEF CountOK, TokensConserved
<1>13. Holding' <= Holding /\ Serving' <= Serving
  BY <1>5, <1>7
<1>14. val + Holding + Serving <= 1 + published - served
         => val + Holding' + Serving' <= 1 + published - served
  BY <1>7, <1>9, <1>13, Fewer
<1>12. SessionOpen' => val + Holding' + Serving' <= 1 + published - served
  BY <1>5, <1>11, <1>14
<1>10. TokensConserved'
  BY <1>12 DEF TokensConserved
<1>8. CountOK'
  BY <1>5, <1>10 DEF CountOK, NoPhantomRequest
<1> QED
  BY <1>2, <1>3, <1>4, <1>6, <1>8

\* A set made by either program has the value 0.
LEMMA NewSetKeeps ==
    ASSUME TokenInv, ~exists, exists' = TRUE, val' = 0, waiting' = waiting,
           \/ /\ semid' = [semid EXCEPT ![Sender] = "live"] /\ pc[Sender] \in {"create", "get"}
              /\ \/ pc[Sender] = "create" /\ pc' = [pc EXCEPT ![Sender] = "setval"]
                 \/ pc[Sender] = "get" /\ pc' = [pc EXCEPT ![Sender] = "open"]
           \/ /\ semid' = [semid EXCEPT ![Receiver] = "live"] /\ pc[Receiver] \in {"create", "get"}
              /\ \/ pc[Receiver] = "create" /\ pc' = [pc EXCEPT ![Receiver] = "setval"]
                 \/ pc[Receiver] = "get" /\ pc' = [pc EXCEPT ![Receiver] = "open"],
           UNCHANGED <<published, served, overtaken>>
    PROVE  TokenInv'
<1> USE DEF TokenInv
<1>0. {"setval", "open"} \subseteq SLabel \cap RLabel
  BY DEF SLabel, RLabel, Setup
<1>1. /\ semid[Sender] # "live" /\ semid[Receiver] # "live"
      /\ pc[Sender] \in NoSet \cup {"done"} /\ Sender \notin waiting /\ Receiver \notin waiting
  BY TwoPrograms DEF IdOK, AsleepOK, Typed, NoSet
<1>2. CASE /\ semid' = [semid EXCEPT ![Sender] = "live"] /\ pc[Sender] \in {"create", "get"}
           /\ \/ pc[Sender] = "create" /\ pc' = [pc EXCEPT ![Sender] = "setval"]
              \/ pc[Sender] = "get" /\ pc' = [pc EXCEPT ![Sender] = "open"]
  <2>1. /\ pc'[Receiver] = pc[Receiver] /\ pc' \in [Process -> SLabel \cup RLabel]
        /\ pc'[Sender] \in {"setval", "open"}
    BY <1>0, <1>2, Moved
  <2>2. semid'[Sender] = "live" /\ semid'[Receiver] = semid[Receiver]
    BY <1>2, TwoPrograms DEF Typed
  <2>3. Typed'
    BY <1>0, <1>2, <2>1 DEF Typed
  <2>4. IdOK' /\ AsleepOK'
    BY <1>1, <1>2, <2>1, <2>2 DEF IdOK, AsleepOK, NoSet
  <2>5. ~RServing' /\ ~SHolds' /\ SessionOpen /\ published = 0 /\ served = 0
    BY <1>1, <1>2, <2>1, <2>2 DEF RServing, SHolds, SessionOpen, CountOK
  <2>6. pc[Receiver] # "setval"
    BY <1>1 DEF IdOK
  <2>7. UnsetOK'
    BY <2>1, <2>5, <2>6 DEF UnsetOK
  <2>8. CountOK'
    BY <2>5 DEF CountOK, TokensConserved, NoPhantomRequest, Holding, Serving
  <2> QED
    BY <2>3, <2>4, <2>7, <2>8
<1>3. CASE /\ semid' = [semid EXCEPT ![Receiver] = "live"] /\ pc[Receiver] \in {"create", "get"}
           /\ \/ pc[Receiver] = "create" /\ pc' = [pc EXCEPT ![Receiver] = "setval"]
              \/ pc[Receiver] = "get" /\ pc' = [pc EXCEPT ![Receiver] = "open"]
  <2>1. /\ pc'[Sender] = pc[Sender] /\ pc' \in [Process -> SLabel \cup RLabel]
        /\ pc'[Receiver] \in {"setval", "open"}
    BY <1>0, <1>3, Moved
  <2>2. semid'[Receiver] = "live" /\ semid'[Sender] = semid[Sender]
    BY <1>3, TwoPrograms DEF Typed
  <2>3. Typed'
    BY <1>0, <1>3, <2>1 DEF Typed
  <2>4. IdOK' /\ AsleepOK'
    BY <1>1, <1>3, <2>1, <2>2 DEF IdOK, AsleepOK, NoSet
  <2>5. /\ ~RServing' /\ ~SHolds' /\ SessionOpen' = SessionOpen
        /\ SessionOpen => published = 0 /\ served = 0
    BY <1>1, <1>3, <2>1, <2>2 DEF RServing, RBusy, SHolds, SessionOpen, CountOK, NoSet
  <2>7. UnsetOK'
    BY <1>1, <2>1, <2>5 DEF UnsetOK, NoSet, Setup, SessionOpen
  <2>8. CountOK'
    BY <2>5 DEF CountOK, TokensConserved, NoPhantomRequest, Holding, Serving
  <2> QED
    BY <2>3, <2>4, <2>7, <2>8
<1> QED
  BY <1>2, <1>3

\* The labels that are one program's step only.
LEMMA Labels ==
    /\ {"off", "create", "setval", "get", "open"} \subseteq SLabel \cap RLabel
    /\ {"size", "acquire", "prompt", "store", "publish", "await", "show", "remove", "done"}
         \subseteq SLabel
    /\ {"map", "take", "compare", "measure", "write", "notify", "unlink", "done"} \subseteq RLabel
    /\ Setup = {"off", "create", "setval", "get", "open"}
BY DEF SLabel, RLabel, Setup

\* What the count says while the sender runs.
LEMMA Counted ==
    ASSUME TokenInv
    PROVE  /\ val \in Nat /\ published \in Nat /\ served \in Nat
           /\ Holding \in {0, 1} /\ Serving \in {0, 1}
           /\ SessionOpen => val + Holding + Serving <= 1 + published - served
           /\ SHolds => Holding = 1
           /\ ~SHolds => Holding = 0
           /\ RServing => Serving = 1
           /\ ~RServing => Serving = 0
BY DEF TokenInv, Typed, CountOK, TokensConserved, Holding, Serving

\* The sender takes its token or goes to sleep.
LEMMA SenderTakeKeeps == ASSUME TokenInv, Take(Sender) PROVE TokenInv'
<1> USE DEF TokenInv
<1>1. /\ pc[Sender] \in {"acquire", "await"} /\ semid[Sender] = "live"
      /\ UNCHANGED <<exists, semid, published, served>> /\ SessionOpen /\ ~SHolds
  BY SenderTakes DEF SessionOpen, SHolds
<1>2. CASE /\ val >= 1 /\ val' = val - 1 /\ waiting' = waiting /\ overtaken' \in BOOLEAN
           /\ pc' = [pc EXCEPT ![Sender] = IF pc[Sender] = "acquire" THEN "prompt" ELSE "show"]
  <2>1. /\ pc'[Sender] \in {"prompt", "show"} /\ pc'[Receiver] = pc[Receiver]
        /\ pc' \in [Process -> SLabel \cup RLabel]
    BY <1>2, Moved, Labels
  <2>2. val' \in Nat /\ val # 0 /\ val' < val
    BY <1>2 DEF Typed
  <2>3. Typed'
    BY <1>1, <1>2, <2>1, <2>2, Labels DEF Typed
  <2>4. IdOK'
    BY <1>1, <2>1 DEF IdOK, NoSet
  <2>5. Sender \notin waiting /\ (Receiver \in waiting => val' < 2)
    BY <2>2, Counted DEF AsleepOK
  <2>6. AsleepOK'
    BY <1>1, <1>2, <2>1, <2>5 DEF AsleepOK
  <2>7. pc[Receiver] # "setval"
    BY <2>2 DEF UnsetOK
  <2>8. UnsetOK'
    BY <2>1, <2>7 DEF UnsetOK
  <2>9. Holding' = 1 /\ Serving' = Serving /\ SessionOpen'
    BY <1>1, <2>1 DEF Holding, SHolds, Serving, RServing, RBusy, SessionOpen
  <2>10. val' + Holding' + Serving' <= 1 + published' - served'
    <3>1. val + 0 + Serving <= 1 + published - served
      BY <1>1, Counted
    <3> QED
      BY <1>1, <1>2, <2>9, <3>1, Counted
  <2>11. CountOK'
    BY <1>1, <2>9, <2>10 DEF CountOK, TokensConserved, NoPhantomRequest, IdOK
  <2> QED
    BY <2>3, <2>4, <2>6, <2>8, <2>11
<1>3. CASE val = 0 /\ waiting' = waiting \cup {Sender} /\ UNCHANGED <<pc, val, overtaken>>
  <2>1. Typed'
    BY <1>1, <1>3, TwoPrograms DEF Typed
  <2>2. IdOK' /\ UnsetOK' /\ CountOK'
    BY <1>1, <1>3 DEF IdOK, UnsetOK, CountOK, TokensConserved, NoPhantomRequest, SessionOpen,
       Holding, Serving, SHolds, RServing, RBusy
  <2>3. AsleepOK'
    BY <1>1, <1>3, TwoPrograms DEF AsleepOK
  <2> QED
    BY <2>1, <2>2, <2>3
<1> QED
  BY <1>2, <1>3, SenderTakes DEF Typed

\* The receiver takes its two, goes to sleep, or runs on without its set.
LEMMA ReceiverTakeKeeps == ASSUME TokenInv, Take(Receiver) PROVE TokenInv'
<1> USE DEF TokenInv
<1>1. /\ pc[Receiver] = "take" /\ Receiver \notin waiting
      /\ UNCHANGED <<exists, semid, published, overtaken>> /\ ~RServing
  BY ReceiverTakes DEF RServing, RBusy
<1>2. CASE /\ semid[Receiver] = "live" /\ val >= 2 /\ val' = val - 2 /\ waiting' = waiting
           /\ pc' = [pc EXCEPT ![Receiver] = "compare"] /\ served' = served + 1
  <2>1. /\ pc'[Receiver] = "compare" /\ pc'[Sender] = pc[Sender]
        /\ pc' \in [Process -> SLabel \cup RLabel]
    BY <1>2, Moved, Labels
  <2>2. val' \in Nat /\ val # 0 /\ ~ (val <= 1) /\ served' \in Nat
    BY <1>2 DEF Typed
  <2>3. Typed'
    BY <1>1, <1>2, <2>1, <2>2, Labels DEF Typed
  <2>4. IdOK'
    BY <1>1, <2>1 DEF IdOK, NoSet
  <2>5. AsleepOK'
    BY <1>1, <1>2, <2>1, <2>2 DEF AsleepOK
  <2>6. UnsetOK'
    BY <2>1, <2>2 DEF UnsetOK
  <2>7. SessionOpen /\ SessionOpen' /\ Holding' = Holding /\ Serving' = 1
    BY <1>1, <1>2, <2>1, <2>2 DEF CountOK, SessionOpen, Holding, SHolds, Serving, RServing, RBusy
  <2>8. val' + Holding' + Serving' <= 1 + published' - served' /\ served' <= published'
    <3>1. val + Holding + 0 <= 1 + published - served
      BY <1>1, <2>7, Counted
    <3> QED
      BY <1>1, <1>2, <2>7, <3>1, Counted
  <2>9. exists'
    BY <1>1, <1>2 DEF IdOK
  <2>10. CountOK'
    BY <2>7, <2>8, <2>9 DEF CountOK, TokensConserved, NoPhantomRequest
  <2> QED
    BY <2>3, <2>4, <2>5, <2>6, <2>10
<1>3. CASE /\ semid[Receiver] = "live" /\ val < 2
           /\ waiting' = waiting \cup {Receiver} /\ UNCHANGED <<pc, val, served>>
  <2>1. Typed'
    BY <1>1, <1>3, TwoPrograms DEF Typed
  <2>2. IdOK' /\ UnsetOK' /\ CountOK'
    BY <1>1, <1>3 DEF IdOK, UnsetOK, CountOK, TokensConserved, NoPhantomRequest, SessionOpen,
       Holding, Serving, SHolds, RServing, RBusy
  <2>3. AsleepOK'
    BY <1>1, <1>3, TwoPrograms DEF AsleepOK
  <2> QED
    BY <2>1, <2>2, <2>3
<1>4. CASE /\ semid[Receiver] = "dead"
           /\ pc' = [pc EXCEPT ![Receiver] = "compare"] /\ UNCHANGED <<val, waiting, served>>
  <2>1. ~RServing' /\ semid'[Receiver] = "dead" /\ waiting' = waiting \ {Receiver}
        /\ overtaken' \in BOOLEAN
    BY <1>1, <1>4 DEF RServing, Typed
  <2>2. semid' \in [Process -> {"none", "live", "dead"}] /\ "compare" \in RLabel \ ({"setval"} \cup NoSet)
    BY <1>1, Labels DEF Typed, NoSet
  <2> QED
    BY <1>1, <1>4, <2>1, <2>2, ReceiverMoves
<1> QED
  BY <1>2, <1>3, <1>4, ReceiverTakes

\* The two adds of the sender: +2 is counted by a request, +1 gives back.
SenderAdd(k, l) ==
    /\ pc[Sender] \in {"publish", "show"} /\ UNCHANGED <<exists, semid>>
    /\ \/ /\ k = 2 /\ pc[Sender] = "publish" /\ l \in {"remove", "await"}
          /\ published' = IF val + 2 <= SemMax THEN published + 1 ELSE published
       \/ k = 1 /\ pc[Sender] = "show" /\ l = "acquire" /\ published' = published

\* SPublish and SShow are these adds.
LEMMA SenderAddIs ==
    /\ TokenInv /\ SPublish =>
         \E l \in {"remove", "await"} :
            SenderAdd(2, l) /\ Add(Sender, Receiver, 2, l, published')
    /\ TokenInv /\ SShow => SenderAdd(1, "acquire") /\ Add(Sender, Receiver, 1, "acquire", published)
<1>1. ASSUME TokenInv, SPublish
      PROVE  \E l \in {"remove", "await"} :
                SenderAdd(2, l) /\ Add(Sender, Receiver, 2, l, published')
  <2> DEFINE l == IF command = "exit" THEN "remove" ELSE "await"
  <2>1. /\ pc[Sender] = "publish" /\ UNCHANGED <<exists, semid>>
        /\ published' = IF Accepted(Sender, 2) THEN published + 1 ELSE published
        /\ Add(Sender, Receiver, 2, l, published') /\ l \in {"remove", "await"}
    BY <1>1 DEF SPublish
  <2>2. semid[Sender] = "live"
    BY <1>1, <2>1, TwoPrograms DEF TokenInv, Typed, IdOK, NoSet
  <2>3. Accepted(Sender, 2) <=> val + 2 <= SemMax
    BY <2>2 DEF Accepted
  <2>4. SenderAdd(2, l)
    BY <2>1, <2>3 DEF SenderAdd
  <2> QED
    BY <2>1, <2>4
<1>2. ASSUME TokenInv, SShow
      PROVE  SenderAdd(1, "acquire") /\ Add(Sender, Receiver, 1, "acquire", published)
  BY <1>2 DEF SShow, SenderAdd
<1> QED
  BY <1>1, <1>2

\* The sender gives tokens back, to the receiver if it sleeps for them.
LEMMA SenderAddKeeps ==
    ASSUME TokenInv, NEW k \in {1, 2}, NEW l, NEW pub,
           SenderAdd(k, l), Add(Sender, Receiver, k, l, pub)
    PROVE  TokenInv'
<1> USE DEF TokenInv
<1>1. /\ pc[Sender] \in {"publish", "show"} /\ SHolds /\ SessionOpen /\ UNCHANGED <<exists, semid>>
      /\ l \in SLabel \ NoSet /\ l \in {"remove", "await", "acquire"}
      /\ pc[Receiver] # "setval"
  BY Labels DEF SenderAdd, SHolds, SessionOpen, UnsetOK, NoSet
<1>2. /\ published' \in Nat /\ SemMax \in Nat /\ published <= published'
      /\ val + k <= SemMax => published' = published + k - 1
  BY BoundsAssumption DEF SenderAdd, Typed
<1>3. val + 1 + Serving <= 1 + published - served
  BY <1>1, Counted
<1>4. semid[Sender] = "live" /\ overtaken' = overtaken /\ exists /\ exists'
  BY <1>1, SenderAdds DEF IdOK
<1>5. CASE /\ val + k <= SemMax /\ val + k >= 2 /\ Receiver \in waiting
           /\ pc[Receiver] = "take" /\ semid[Receiver] = "live"
           /\ val' = val + k - 2 /\ waiting' = waiting \ {Receiver}
           /\ pc' = [pc EXCEPT ![Sender] = l, ![Receiver] = "compare"]
           /\ served' = served + 1
  <2>1. pc'[Sender] = l /\ pc'[Receiver] = "compare" /\ pc' \in [Process -> SLabel \cup RLabel]
    BY <1>1, <1>5, BothMoved, Labels
  <2>2. val' \in Nat /\ served' \in Nat
    BY <1>5 DEF Typed
  <2>3. Typed'
    BY <1>1, <1>2, <1>4, <1>5, <2>1, <2>2, Labels DEF Typed
  <2>4. IdOK' /\ UnsetOK'
    <3>1. semid'[Sender] = "live" /\ semid'[Receiver] = "live"
      BY <1>1, <1>4, <1>5
    <3>2. l \notin NoSet /\ l # "done" /\ l # "setval" /\ "compare" \notin NoSet
      BY <1>1 DEF NoSet
    <3>3. IdOK'
      BY <1>4, <2>1, <3>1, <3>2 DEF IdOK
    <3> QED
      BY <2>1, <3>2, <3>3 DEF UnsetOK
  <2>5. Sender \notin waiting
    BY <1>1 DEF AsleepOK
  <2>6. AsleepOK'
    BY <1>5, <2>5 DEF AsleepOK
  <2>7. Serving = 0 /\ Serving' = 1 /\ Holding' = 0 /\ SessionOpen'
    BY <1>1, <1>5, <2>1 DEF Serving, RServing, RBusy, Holding, SHolds, SessionOpen
  <2>8. val' + 0 + 1 <= 1 + published' - served' /\ served' <= published'
    BY <1>2, <1>3, <1>5, <2>7, Counted
  <2>9. CountOK'
    BY <1>4, <2>7, <2>8 DEF CountOK, TokensConserved, NoPhantomRequest
  <2> QED
    BY <2>3, <2>4, <2>6, <2>9
<1>6. CASE /\ val' \in {val, val + k} /\ (Receiver \in waiting => val' < 2)
           /\ val' = val + k => val + k <= SemMax
           /\ waiting' = waiting /\ pc' = [pc EXCEPT ![Sender] = l] /\ served' = served
  <2>1. /\ pc'[Sender] = l /\ pc'[Receiver] = pc[Receiver] /\ pc' \in [Process -> SLabel \cup RLabel]
    BY <1>1, <1>6, Moved
  <2>2. val' \in Nat
    BY <1>6 DEF Typed
  <2>3. Typed'
    BY <1>1, <1>2, <1>4, <1>6, <2>1, <2>2 DEF Typed
  <2>4. IdOK' /\ UnsetOK'
    BY <1>1, <2>1 DEF IdOK, UnsetOK, NoSet
  <2>5. Sender \notin waiting
    BY <1>1 DEF AsleepOK
  <2>6. AsleepOK'
    BY <1>1, <1>6, <2>1, <2>5 DEF AsleepOK
  <2>7. Serving' = Serving /\ Holding' = 0 /\ SessionOpen'
    BY <1>1, <2>1 DEF Serving, RServing, RBusy, Holding, SHolds, SessionOpen
  <2>8. val' + 0 + Serving <= 1 + published' - served /\ served <= published'
    BY <1>2, <1>3, <1>6, Counted
  <2>9. CountOK'
    BY <1>4, <1>6, <2>7, <2>8 DEF CountOK, TokensConserved, NoPhantomRequest
  <2> QED
    BY <2>3, <2>4, <2>6, <2>9
<1>7. val \in Nat /\ (Receiver \in waiting => val < 2)
  BY DEF Typed, AsleepOK
<1>8. pc[Sender] \in {"publish", "show"}
  BY <1>1
<1> QED
  BY <1>5, <1>6, <1>7, <1>8, SenderAdds

\* The receiver gives a token back, to the sender if it sleeps for it.
LEMMA ReceiverAddKeeps == ASSUME TokenInv, RNotify PROVE TokenInv'
<1> USE DEF TokenInv
<1>1. /\ pc[Receiver] = "notify" /\ UNCHANGED <<exists, semid, published>>
      /\ Add(Receiver, Sender, 1, "take", published)
  BY DEF RNotify
<1>2. served' = served /\ overtaken' \in BOOLEAN
  BY <1>1, ReceiverAdds DEF Typed
<1>3. CASE /\ semid[Receiver] = "live" /\ Sender \in waiting /\ val = 0 /\ val' = 0
           /\ pc[Sender] \in {"acquire", "await"} /\ waiting' = waiting \ {Sender}
           /\ pc' = [pc EXCEPT ![Receiver] = "take",
                         ![Sender] = IF pc[Sender] = "acquire" THEN "prompt" ELSE "show"]
  <2>1. /\ pc'[Sender] \in {"prompt", "show"} /\ pc'[Receiver] = "take"
        /\ pc' \in [Process -> SLabel \cup RLabel]
    BY <1>3, BothMoved, Labels
  <2>2. Typed'
    BY <1>1, <1>2, <1>3, <2>1, Labels DEF Typed
  <2>3. IdOK'
    BY <1>1, <1>3, <2>1 DEF IdOK, NoSet
  <2>4. AsleepOK'
    BY <1>1, <1>3, <2>1 DEF AsleepOK
  <2>5. UnsetOK'
    BY <2>1 DEF UnsetOK
  <2>6. /\ RServing /\ ~RServing' /\ SessionOpen /\ SessionOpen' /\ ~SHolds /\ SHolds'
    BY <1>1, <1>3, <2>1 DEF RServing, RBusy, SessionOpen, SHolds
  <2>7. val' + Holding' + Serving' <= 1 + published' - served'
    <3>1. Holding' = 1 /\ Serving' = 0
      BY <2>6 DEF Holding, Serving
    <3>2. val + 0 + 1 <= 1 + published - served
      BY <2>6, Counted
    <3> QED
      BY <1>1, <1>2, <1>3, <3>1, <3>2, Counted
  <2>8. exists'
    BY <1>1, <1>3 DEF IdOK
  <2>9. CountOK'
    BY <1>1, <1>2, <2>6, <2>7, <2>8 DEF CountOK, TokensConserved, NoPhantomRequest
  <2> QED
    BY <2>2, <2>3, <2>4, <2>5, <2>9
<1>4. CASE /\ semid[Receiver] = "live" /\ Sender \notin waiting /\ val + 1 <= SemMax
           /\ val' = val + 1 /\ waiting' = waiting /\ pc' = [pc EXCEPT ![Receiver] = "take"]
  <2>1. /\ pc'[Receiver] = "take" /\ pc'[Sender] = pc[Sender] /\ pc' \in [Process -> SLabel \cup RLabel]
    BY <1>4, Moved, Labels
  <2>2. Receiver \notin waiting /\ RServing /\ ~RServing'
    BY <1>1, <1>4, <2>1 DEF AsleepOK, RServing, RBusy
  <2>3. SessionOpen /\ SessionOpen' /\ pc[Sender] # "setval"
    BY <2>1, <2>2 DEF SessionOpen, CountOK, UnsetOK
  <2>4. Typed'
    BY <1>1, <1>2, <1>4, <2>1, Labels DEF Typed
  <2>5. IdOK' /\ AsleepOK' /\ UnsetOK'
    BY <1>1, <1>4, <2>1, <2>2, <2>3 DEF IdOK, AsleepOK, UnsetOK, NoSet
  <2>7. val' + Holding' + Serving' <= 1 + published' - served'
    <3>1. Holding' = Holding /\ Serving' = 0
      BY <2>1, <2>2 DEF Holding, SHolds, Serving
    <3>2. val + Holding + 1 <= 1 + published - served
      BY <2>2, <2>3, Counted
    <3> QED
      BY <1>1, <1>2, <1>4, <3>1, <3>2, Counted
  <2>8. exists'
    BY <1>1, <1>4 DEF IdOK
  <2>9. CountOK'
    BY <1>1, <1>2, <2>3, <2>7, <2>8 DEF CountOK, TokensConserved, NoPhantomRequest
  <2> QED
    BY <2>4, <2>5, <2>9
<1>5. CASE val' = val /\ waiting' = waiting /\ pc' = [pc EXCEPT ![Receiver] = "take"]
  <2>1. pc'[Receiver] = "take" /\ "take" \in RLabel \ ({"setval"} \cup NoSet)
    BY <1>5, Moved, Labels DEF NoSet
  <2>2. waiting' = waiting \ {Receiver} /\ ~RServing'
    BY <1>1, <1>5, <2>1 DEF AsleepOK, RServing, RBusy
  <2>3. semid' \in [Process -> {"none", "live", "dead"}] /\ semid'[Receiver] # "none"
        /\ (semid'[Receiver] = "live" => exists) /\ semid'[Receiver] \in {"none", "live", "dead"}
    BY <1>1, TwoPrograms DEF Typed, IdOK, NoSet
  <2> QED
    BY <1>1, <1>2, <1>5, <2>1, <2>2, <2>3, ReceiverMoves
<1> QED
  BY <1>1, <1>3, <1>4, <1>5, ReceiverAdds

\* The value of a new set is set.
LEMMA SetValKeeps == ASSUME TokenInv, SetVal(Sender) \/ SetVal(Receiver) PROVE TokenInv'
<1> USE DEF TokenInv
<1>1. UNCHANGED <<exists, semid, published, served, overtaken>>
  BY Sets DEF hist
<1>2. CASE SetVal(Sender)
  <2>1. /\ pc[Sender] = "setval" /\ waiting' = waiting /\ val' = 1
        /\ pc' = [pc EXCEPT ![Sender] = "open"]
    BY <1>2, Sets
  <2>2. /\ pc'[Sender] = "open" /\ pc'[Receiver] = pc[Receiver]
        /\ pc' \in [Process -> SLabel \cup RLabel]
    BY <2>1, Moved, Labels
  <2>3. Typed'
    BY <1>1, <2>1, <2>2, Labels DEF Typed
  <2>4. /\ pc[Receiver] # "setval" /\ ~RServing /\ published = served
        /\ Sender \notin waiting
    BY <2>1 DEF UnsetOK, AsleepOK
  <2>5. IdOK' /\ AsleepOK' /\ UnsetOK'
    BY <1>1, <2>1, <2>2, <2>4 DEF IdOK, AsleepOK, UnsetOK, NoSet
  <2>6. ~RServing' /\ ~SHolds' /\ SessionOpen'
    BY <1>1, <2>2, <2>4 DEF RServing, RBusy, SHolds, SessionOpen
  <2>7. exists'
    BY <1>1, <2>1, TwoPrograms DEF IdOK, Typed, NoSet
  <2>8. 1 + 0 + 0 <= 1 + published - served /\ served <= published
    BY <2>4 DEF Typed
  <2>9. CountOK'
    BY <1>1, <2>1, <2>6, <2>7, <2>8 DEF CountOK, TokensConserved, NoPhantomRequest, Holding, Serving
  <2> QED
    BY <2>3, <2>5, <2>9
<1>3. CASE SetVal(Receiver)
  <2>1. /\ pc[Receiver] = "setval" /\ val = 0 /\ ~SHolds /\ pc[Sender] # "setval"
        /\ pc[Sender] \in Setup \cup {"size", "acquire", "done"}
        /\ SessionOpen => published = served
    BY <1>3, Sets, Labels DEF UnsetOK, SHolds
  <2>2. CASE /\ Sender \in waiting /\ pc[Sender] = "acquire" /\ val' = 0
             /\ waiting' = waiting \ {Sender}
             /\ pc' = [pc EXCEPT ![Receiver] = "open", ![Sender] = "prompt"]
    <3>1. /\ pc'[Sender] = "prompt" /\ pc'[Receiver] = "open"
          /\ pc' \in [Process -> SLabel \cup RLabel]
      BY <2>2, BothMoved, Labels
    <3>2. Typed'
      BY <1>1, <2>2, <3>1, Labels DEF Typed
    <3>3. IdOK' /\ AsleepOK' /\ UnsetOK'
      BY <1>1, <2>1, <2>2, <3>1 DEF IdOK, AsleepOK, UnsetOK, NoSet
    <3>4. ~RServing' /\ SHolds' /\ SessionOpen' /\ SessionOpen
      BY <2>2, <3>1 DEF RServing, RBusy, SHolds, SessionOpen
    <3>5. exists'
      BY <1>1, <2>1, <2>2 DEF IdOK
    <3>6. 0 + 1 + 0 <= 1 + published - served /\ served <= published
      BY <2>1, <3>4 DEF Typed
    <3>7. CountOK'
      BY <1>1, <2>2, <3>4, <3>5, <3>6 DEF CountOK, TokensConserved, NoPhantomRequest, Holding, Serving
    <3> QED
      BY <3>2, <3>3, <3>7
  <2>3. CASE /\ Sender \notin waiting /\ val' = 1 /\ waiting' = waiting
             /\ pc' = [pc EXCEPT ![Receiver] = "open"]
    <3>1. /\ pc'[Sender] = pc[Sender] /\ pc'[Receiver] = "open"
          /\ pc' \in [Process -> SLabel \cup RLabel]
      BY <2>3, Moved, Labels
    <3>2. Typed'
      BY <1>1, <2>3, <3>1, Labels DEF Typed
    <3>3. IdOK' /\ AsleepOK' /\ UnsetOK'
      BY <1>1, <2>1, <2>3, <3>1 DEF IdOK, AsleepOK, UnsetOK, NoSet
    <3>4. ~RServing' /\ ~SHolds' /\ SessionOpen' = SessionOpen
      BY <2>1, <3>1 DEF RServing, RBusy, SHolds, SessionOpen
    <3>5. exists'
      BY <1>1, <2>1 DEF IdOK
    <3>6. SessionOpen => 1 + 0 + 0 <= 1 + published - served /\ served <= published
      BY <2>1 DEF Typed
    <3>7. CountOK'
      BY <1>1, <2>3, <3>4, <3>5, <3>6 DEF CountOK, TokensConserved, NoPhantomRequest, Holding, Serving
    <3> QED
      BY <3>2, <3>3, <3>7
  <2> QED
    BY <1>3, <2>2, <2>3, Sets
<1> QED
  BY <1>2, <1>3

\* The sender removes the set: the receiver that sleeps on it is woken.
LEMMA RemoveKeeps == ASSUME TokenInv, SRemove PROVE TokenInv'
<1> USE DEF TokenInv
<1>1. /\ pc[Sender] = "remove" /\ exists' = FALSE /\ val' = 0 /\ waiting' = {}
      /\ UNCHANGED <<published, served, overtaken>>
  BY DEF SRemove, hist
<1>2. Receiver \in waiting => pc[Receiver] = "take" /\ Granted[pc[Receiver]] = "compare"
  BY TakeSteps DEF AsleepOK
<1>3. /\ pc'[Sender] = "done" /\ pc'[Receiver] \in {pc[Receiver], "compare"}
      /\ pc'[Receiver] # pc[Receiver] => Receiver \in waiting
      /\ pc' \in [Process -> SLabel \cup RLabel]
  <2>1. pc' = [p \in Process |-> IF p = Sender THEN "done"
                                 ELSE IF p \in waiting THEN Granted[pc[p]] ELSE pc[p]]
    BY DEF SRemove
  <2>2. pc'[Sender] = "done" /\ pc'[Receiver] = IF Receiver \in waiting THEN "compare" ELSE pc[Receiver]
    BY <1>2, <2>1, TwoPrograms
  <2>3. pc'[Sender] \in SLabel /\ pc'[Receiver] \in RLabel
    BY <2>2, Labels DEF Typed
  <2> QED
    BY <2>1, <2>2, <2>3, TwoPrograms
<1>4. /\ semid'[Sender] = "dead" /\ semid' \in [Process -> {"none", "live", "dead"}]
      /\ semid'[Receiver] = IF semid[Receiver] = "live" THEN "dead" ELSE semid[Receiver]
  <2>1. semid' = [p \in Process |-> IF semid[p] = "live" THEN "dead" ELSE semid[p]]
    BY DEF SRemove
  <2>2. semid[Sender] = "live" /\ semid \in [Process -> {"none", "live", "dead"}]
    BY <1>1, TwoPrograms DEF Typed, IdOK, NoSet
  <2> QED
    BY <2>1, <2>2, TwoPrograms
<1>5. Typed'
  BY <1>1, <1>3, <1>4, Labels DEF Typed
<1>6. pc[Receiver] # "setval" /\ (Receiver \in waiting => semid[Receiver] = "live")
      /\ semid[Receiver] \in {"none", "live", "dead"}
  BY <1>1, TwoPrograms DEF UnsetOK, AsleepOK, Setup, Typed
<1>7. semid'[Receiver] = "none" <=> pc'[Receiver] \in NoSet
  BY <1>2, <1>3, <1>4, <1>6 DEF IdOK, NoSet
<1>8. IdOK' /\ AsleepOK' /\ UnsetOK'
  BY <1>1, <1>3, <1>4, <1>6, <1>7 DEF IdOK, AsleepOK, UnsetOK, NoSet
<1>9. ~SessionOpen' /\ ~RServing'
  BY <1>3, <1>4, <1>6 DEF SessionOpen, RServing
<1>10. CountOK'
  BY <1>1, <1>9 DEF CountOK, TokensConserved, NoPhantomRequest
<1> QED
  BY <1>5, <1>8, <1>10

\* ipcrm removes the set when no program runs.
LEMMA IpcrmKeeps == ASSUME TokenInv, Ipcrm PROVE TokenInv'
<1> USE DEF TokenInv
<1>1. /\ exists' = FALSE /\ val' = 0 /\ published' = 0 /\ served' = 0
      /\ UNCHANGED <<pc, waiting, overtaken>>
      /\ pc[Sender] \in {"off", "done"} /\ pc[Receiver] \in {"off", "done"}
  BY TwoPrograms DEF Ipcrm, Idle
<1>2. /\ semid' \in [Process -> {"none", "live", "dead"}]
      /\ semid'[Sender] = IF semid[Sender] = "live" THEN "dead" ELSE semid[Sender]
      /\ semid'[Receiver] = IF semid[Receiver] = "live" THEN "dead" ELSE semid[Receiver]
  <2>1. semid' = [p \in Process |-> IF semid[p] = "live" THEN "dead" ELSE semid[p]]
    BY DEF Ipcrm
  <2> QED
    BY <2>1, TwoPrograms DEF Typed
<1>3. Typed'
  BY <1>1, <1>2 DEF Typed
<1>4. semid[Sender] # "live"
  BY <1>1 DEF IdOK, NoSet
<1>5. semid'[Sender] = semid[Sender] /\ semid'[Receiver] # "live"
      /\ (semid'[Receiver] = "none" <=> semid[Receiver] = "none")
  BY <1>2, <1>4
<1>9. Sender \notin waiting' /\ Receiver \notin waiting'
  BY <1>1 DEF AsleepOK
<1>10. IdOK'
  BY <1>1, <1>4, <1>5 DEF IdOK
<1>6. IdOK' /\ AsleepOK' /\ UnsetOK'
  BY <1>1, <1>9, <1>10 DEF AsleepOK, UnsetOK
<1>7. ~RServing' /\ ~SHolds'
  BY <1>1, <1>5 DEF RServing, SHolds
<1>8. CountOK'
  BY <1>1, <1>7 DEF CountOK, TokensConserved, NoPhantomRequest, Holding, Serving
<1> QED
  BY <1>3, <1>6, <1>8

\* A program gives up its identifier.
LEMMA Without ==
    ASSUME Typed
    PROVE  \A p \in Process : semid' = [semid EXCEPT ![p] = "none"] =>
             /\ semid' \in [Process -> {"none", "live", "dead"}]
             /\ semid'[p] = "none" /\ semid'[Other(p)] = semid[Other(p)]
BY TwoPrograms DEF Typed

\* The sender is run (again); the history of a removed set ends.
LEMMA RunSenderKeeps == ASSUME TokenInv, RunSender PROVE TokenInv'
<1> USE DEF TokenInv
<1>1. /\ pc[Sender] \in {"off", "done"} /\ pc' = [pc EXCEPT ![Sender] = "create"]
      /\ semid' = [semid EXCEPT ![Sender] = "none"]
      /\ UNCHANGED <<exists, val, waiting>> /\ overtaken' = FALSE
      /\ published' = IF pc[Sender] = "done" THEN 0 ELSE published
      /\ served' = IF pc[Sender] = "done" THEN 0 ELSE served
  BY DEF RunSender, Enter, Idle, Goto
<1>2. /\ semid'[Sender] = "none" /\ semid'[Receiver] = semid[Receiver]
      /\ semid' \in [Process -> {"none", "live", "dead"}]
  BY <1>1, Without, TwoPrograms
<1>3. Sender \notin waiting
  BY <1>1 DEF AsleepOK
<1>4. CASE pc[Sender] = "off"
  <2>1. UNCHANGED <<published, served>> /\ waiting' = waiting \ {Sender}
    BY <1>1, <1>3, <1>4
  <2>2. "create" \in SLabel \ {"setval", "done", "await"} /\ "create" \in Early /\ "create" \in NoSet
    BY Labels DEF Early, NoSet
  <2> QED
    BY <1>1, <1>2, <1>4, <2>1, <2>2, SenderMoves
<1>5. CASE pc[Sender] = "done"
  <2>1. published' = 0 /\ served' = 0
    BY <1>1, <1>5
  <2>2. /\ pc'[Sender] = "create" /\ pc'[Receiver] = pc[Receiver]
        /\ pc' \in [Process -> SLabel \cup RLabel]
    BY <1>1, Moved, Labels
  <2>11. exists \in BOOLEAN /\ val \in Nat /\ waiting \subseteq Process
    BY DEF Typed
  <2>12. pc'[Sender] \in SLabel /\ pc'[Receiver] \in RLabel
    BY <2>2, Labels DEF Typed
  <2>13. published' \in Nat /\ served' \in Nat
    BY <2>1
  <2>14. overtaken' \in BOOLEAN
    BY <1>1
  <2>3. Typed'
    BY <1>1, <1>2, <2>2, <2>11, <2>12, <2>13, <2>14 DEF Typed
  <2>4. IdOK' /\ AsleepOK'
    BY <1>1, <1>2, <1>3, <2>2 DEF IdOK, AsleepOK, NoSet
  <2>5. UnsetOK'
    BY <1>1, <2>1, <2>2 DEF UnsetOK, Setup
  <2>6. ~RServing' /\ ~SHolds' /\ val' <= 1 /\ (~exists' => val' = 0)
    BY <1>1, <1>2, <1>5, <2>2 DEF RServing, RBusy, SHolds, CountOK, SessionOpen
  <2>7. val' + 0 + 0 <= 1 + 0 - 0
    BY <1>1, <2>6, <2>11
  <2>8. TokensConserved'
    BY <2>1, <2>6, <2>7 DEF TokensConserved, Holding, Serving
  <2>9. SessionOpen' /\ NoPhantomRequest'
    BY <2>1, <2>2 DEF SessionOpen, NoPhantomRequest
  <2>10. CountOK'
    BY <2>1, <2>6, <2>8, <2>9 DEF CountOK
  <2> QED
    BY <2>3, <2>4, <2>5, <2>10
<1> QED
  BY <1>1, <1>4, <1>5

\* Every other step of the sender.
LEMMA SenderQuiet ==
    ASSUME TokenInv,
           \/ Create(Sender) \/ Get(Sender) \/ SOpen \/ NewObject \/ SSize \/ SStore
           \/ (\E w \in Words : SType(w)) \/ SRepeat \/ SUninitialised \/ Kill(Sender)
    PROVE  TokenInv'
<1> USE DEF TokenInv
<1>1. /\ semid \in [Process -> {"none", "live", "dead"}] /\ overtaken \in BOOLEAN
      /\ pc[Sender] \notin {"acquire", "await"} => waiting = waiting \ {Sender}
  BY DEF Typed, AsleepOK
<1>2. Early = {"off", "create", "setval", "get", "open", "size", "acquire"}
  BY Labels DEF Early
<1>3. pc[Sender] \notin NoSet \cup {"done"} => exists /\ semid[Sender] = "live"
  BY <1>1, TwoPrograms DEF IdOK
<1>4. ASSUME UNCHANGED <<exists, val, waiting, semid, published, served, overtaken>>,
             NEW l \in SLabel \ {"setval", "done", "await"}, pc' = [pc EXCEPT ![Sender] = l],
             \/ pc[Sender] = "create" /\ l = "get"
             \/ pc[Sender] = "open" /\ l = "size"
             \/ pc[Sender] = "size" /\ l = "acquire"
             \/ pc[Sender] = "prompt" /\ l \in {"store", "remove"}
             \/ pc[Sender] = "store" /\ l = "publish"
      PROVE  TokenInv'
  <2>1. /\ pc[Sender] \notin {"acquire", "await", "done"}
        /\ pc[Sender] \in Early => l \in Early
        /\ l \in {"prompt", "store", "publish", "show"} => SHolds
    BY <1>2, <1>4 DEF SHolds
  <2>2. IF l \in NoSet THEN semid[Sender] = "none" ELSE exists /\ semid[Sender] = "live"
    BY <1>3, <1>4 DEF IdOK, NoSet
  <2>3. waiting' = waiting \ {Sender} /\ semid' \in [Process -> {"none", "live", "dead"}]
        /\ overtaken' \in BOOLEAN /\ semid'[Receiver] = semid[Receiver]
    BY <1>1, <1>4, <2>1
  <2> QED
    BY <1>4, <2>1, <2>2, <2>3, SenderMoves
<1>5. ASSUME pc' = [pc EXCEPT ![Sender] = "off"], semid' = [semid EXCEPT ![Sender] = "none"],
             pc[Sender] # "done", waiting' = waiting \ {Sender},
             UNCHANGED <<exists, val, published, served, overtaken>>
      PROVE  TokenInv'
  <2>1. "off" \in SLabel \ {"setval", "done", "await"} /\ "off" \in Early /\ "off" \in NoSet
    BY <1>2, Labels DEF NoSet
  <2>2. /\ semid' \in [Process -> {"none", "live", "dead"}]
        /\ semid'[Sender] = "none" /\ semid'[Receiver] = semid[Receiver]
    BY <1>5, Without, TwoPrograms
  <2> QED
    BY <1>1, <1>5, <2>1, <2>2, SenderMoves
<1>6. ASSUME pc[Sender] \in {"open", "size", "store"}, Fail(Sender) PROVE TokenInv'
  BY <1>1, <1>5, <1>6 DEF Fail, Goto, hist
<1>7. CASE Create(Sender)
  <2>1. CASE ~exists /\ NewSet(Sender) /\ Goto(Sender, "setval")
    BY <1>7, <2>1, NewSetKeeps DEF Create, NewSet, Goto, hist
  <2>2. CASE exists /\ Goto(Sender, "get") /\ UNCHANGED sem
    BY <1>4, <1>7, <2>2, Labels DEF Create, Goto, sem, hist
  <2> QED
    BY <1>7, <2>1, <2>2 DEF Create
<1>8. CASE Get(Sender)
  <2>1. CASE ~exists /\ NewSet(Sender)
    BY <1>8, <2>1, NewSetKeeps DEF Get, NewSet, Goto, hist
  <2>2. CASE exists /\ semid' = [semid EXCEPT ![Sender] = "live"] /\ UNCHANGED <<exists, val, waiting>>
    <3>1. /\ pc[Sender] = "get" /\ pc' = [pc EXCEPT ![Sender] = "open"]
          /\ UNCHANGED <<published, served, overtaken>>
      BY <1>8 DEF Get, Goto, hist
    <3>2. /\ semid' \in [Process -> {"none", "live", "dead"}]
          /\ semid'[Sender] = "live" /\ semid'[Receiver] = semid[Receiver]
      BY <1>1, <2>2, TwoPrograms
    <3>3. "open" \in SLabel \ {"setval", "done", "await"} /\ "open" \in Early /\ "open" \notin NoSet
      BY <1>2, Labels DEF NoSet
    <3>4. waiting' = waiting \ {Sender}
      BY <1>1, <2>2, <3>1
    <3> QED
      BY <1>1, <2>2, <3>1, <3>2, <3>3, <3>4, SenderMoves
  <2> QED
    BY <1>8, <2>1, <2>2 DEF Get
<1>9. CASE SOpen \/ NewObject \/ SSize \/ SStore
  <2>1. CASE pc[Sender] \in {"open", "size", "store"} /\ Fail(Sender)
    BY <1>6, <2>1
  <2>2. CASE ~(pc[Sender] \in {"open", "size", "store"} /\ Fail(Sender))
    BY <1>4, <1>9, <2>2, Labels DEF SOpen, NewObject, SSize, SStore, Goto, sem, hist
  <2> QED
    BY <2>1, <2>2
<1>10. CASE (\E w \in Words : SType(w)) \/ SRepeat
  BY <1>4, <1>10, Labels DEF SType, SRepeat, Goto, sem, hist
<1>11. CASE SUninitialised
  BY <1>4, <1>11, Labels DEF SUninitialised, Goto, sem, hist
<1>12. CASE Kill(Sender)
  BY <1>5, <1>12 DEF Kill, Idle, Goto, hist
<1> QED
  BY <1>7, <1>8, <1>9, <1>10, <1>11, <1>12

\* Every other step of the receiver.
LEMMA ReceiverQuiet ==
    ASSUME TokenInv,
           \/ Create(Receiver) \/ Get(Receiver) \/ ROpen \/ RMap \/ RCompare \/ RMeasure
           \/ RWrite \/ RUnlink \/ RunReceiver \/ Kill(Receiver)
    PROVE  TokenInv'
<1> USE DEF TokenInv
<1>1. /\ semid \in [Process -> {"none", "live", "dead"}] /\ overtaken \in BOOLEAN
      /\ pc[Receiver] # "take" => waiting = waiting \ {Receiver}
  BY DEF Typed, AsleepOK
<1>3. pc[Receiver] \notin NoSet =>
        semid[Receiver] = "dead" \/ (semid[Receiver] = "live" /\ exists)
  BY <1>1, TwoPrograms DEF IdOK
<1>4. ASSUME UNCHANGED <<exists, val, waiting, semid, published, served, overtaken>>,
             NEW l \in RLabel \ {"setval"}, pc' = [pc EXCEPT ![Receiver] = l],
             \/ pc[Receiver] = "create" /\ l = "get"
             \/ pc[Receiver] = "open" /\ l = "map"
             \/ pc[Receiver] = "map" /\ l = "take"
             \/ pc[Receiver] \in {"compare", "measure", "write", "unlink"} /\ l \notin NoSet
      PROVE  TokenInv'
  <2>1. pc[Receiver] # "take" /\ pc'[Receiver] = l
    BY <1>4, Moved
  <2>4. RServing' => RServing
    BY <1>4, <2>1 DEF RServing, RBusy
  <2>2. IF l \in NoSet THEN semid[Receiver] = "none"
        ELSE semid[Receiver] = "dead" \/ (semid[Receiver] = "live" /\ exists)
    BY <1>3, <1>4 DEF IdOK, NoSet
  <2>3. waiting' = waiting \ {Receiver} /\ semid' \in [Process -> {"none", "live", "dead"}]
        /\ overtaken' \in BOOLEAN /\ semid'[Sender] = semid[Sender]
    BY <1>1, <1>4, <2>1
  <2> QED
    BY <1>4, <2>2, <2>3, <2>4, ReceiverMoves
<1>5. ASSUME NEW l \in {"off", "create"}, pc' = [pc EXCEPT ![Receiver] = l],
             semid' = [semid EXCEPT ![Receiver] = "none"], waiting' = waiting \ {Receiver},
             UNCHANGED <<exists, val, published, served, overtaken>>
      PROVE  TokenInv'
  <2>1. l \in RLabel \ {"setval"} /\ l \in NoSet
    BY Labels DEF NoSet
  <2>2. /\ semid' \in [Process -> {"none", "live", "dead"}]
        /\ semid'[Receiver] = "none" /\ semid'[Sender] = semid[Sender]
    BY <1>5, Without, TwoPrograms
  <2>3. ~RServing'
    BY <2>2 DEF RServing
  <2> QED
    BY <1>1, <1>5, <2>1, <2>2, <2>3, ReceiverMoves
<1>6. ASSUME pc[Receiver] \in {"open", "map", "compare"}, Fail(Receiver) PROVE TokenInv'
  BY <1>1, <1>5, <1>6 DEF Fail, Goto, hist
<1>7. CASE Create(Receiver)
  <2>1. CASE ~exists /\ NewSet(Receiver) /\ Goto(Receiver, "setval")
    BY <1>7, <2>1, NewSetKeeps DEF Create, NewSet, Goto, hist
  <2>2. CASE exists /\ Goto(Receiver, "get") /\ UNCHANGED sem
    BY <1>4, <1>7, <2>2, Labels DEF Create, Goto, sem, hist
  <2> QED
    BY <1>7, <2>1, <2>2 DEF Create
<1>8. CASE Get(Receiver)
  <2>1. CASE ~exists /\ NewSet(Receiver)
    BY <1>8, <2>1, NewSetKeeps DEF Get, NewSet, Goto, hist
  <2>2. CASE exists /\ semid' = [semid EXCEPT ![Receiver] = "live"] /\ UNCHANGED <<exists, val, waiting>>
    <3>1. /\ pc[Receiver] = "get" /\ pc' = [pc EXCEPT ![Receiver] = "open"]
          /\ UNCHANGED <<published, served, overtaken>>
      BY <1>8 DEF Get, Goto, hist
    <3>2. /\ semid' \in [Process -> {"none", "live", "dead"}]
          /\ semid'[Receiver] = "live" /\ semid'[Sender] = semid[Sender]
      BY <1>1, <2>2, TwoPrograms
    <3>3. "open" \in RLabel \ {"setval"} /\ "open" \notin NoSet
      BY Labels DEF NoSet
    <3>4. waiting' = waiting \ {Receiver} /\ ~RServing'
      BY <1>1, <2>2, <3>1, <3>3, Moved DEF RServing, RBusy
    <3> QED
      BY <1>1, <2>2, <3>1, <3>2, <3>3, <3>4, ReceiverMoves
  <2> QED
    BY <1>8, <2>1, <2>2 DEF Get
<1>9. CASE ROpen \/ RMap \/ RCompare
  <2>1. CASE pc[Receiver] \in {"open", "map", "compare"} /\ Fail(Receiver)
    BY <1>6, <2>1
  <2>2. CASE ~(pc[Receiver] \in {"open", "map", "compare"} /\ Fail(Receiver))
    BY <1>4, <1>9, <2>2, Labels DEF ROpen, RMap, RCompare, Goto, sem, hist, NoSet
  <2> QED
    BY <2>1, <2>2
<1>10. CASE RMeasure \/ RWrite \/ RUnlink
  BY <1>4, <1>10, Labels DEF RMeasure, RWrite, RUnlink, Goto, sem, hist, NoSet
<1>11. CASE RunReceiver
  <2>1. pc[Receiver] # "take"
    BY <1>11 DEF RunReceiver, Enter, Idle
  <2> QED
    BY <1>1, <1>5, <1>11, <2>1 DEF RunReceiver, Enter, Goto, hist
<1>12. CASE Kill(Receiver)
  BY <1>5, <1>12 DEF Kill, Goto, hist
<1> QED
  BY <1>7, <1>8, <1>9, <1>10, <1>11, <1>12

\* What the steps of the system are.
LEMMA Steps ==
    ASSUME RestartNext
    PROVE  \/ \/ Create(Sender) \/ Get(Sender) \/ SOpen \/ NewObject \/ SSize \/ SStore
              \/ (\E w \in Words : SType(w)) \/ SRepeat \/ SUninitialised \/ Kill(Sender)
           \/ \/ Create(Receiver) \/ Get(Receiver) \/ ROpen \/ RMap \/ RCompare \/ RMeasure
              \/ RWrite \/ RUnlink \/ RunReceiver \/ Kill(Receiver)
           \/ SetVal(Sender) \/ SetVal(Receiver) \/ Take(Sender) \/ Take(Receiver)
           \/ SPublish \/ SShow \/ SRemove \/ RNotify \/ RunSender \/ Ipcrm
BY TwoPrograms DEF RestartNext, SenderRuns, ReceiverRuns, Typing, SenderStep, ReceiverStep, Common

\* No step invents a token.
LEMMA NextTokens == ASSUME TokenInv, [RestartNext]_restartVars PROVE TokenInv'
<1>1. CASE UNCHANGED restartVars
  BY <1>1 DEF restartVars, vars, sem, hist, restart, TokenInv, Typed, IdOK, AsleepOK, UnsetOK,
              CountOK, TokensConserved, NoPhantomRequest, SessionOpen, Holding, Serving,
              SHolds, RServing, RBusy
<1>2. CASE RestartNext
  <2>1. CASE SPublish \/ SShow
    BY <2>1, SenderAddIs, SenderAddKeeps
  <2>2. CASE SetVal(Sender) \/ SetVal(Receiver) \/ Take(Sender) \/ Take(Receiver) \/ SRemove
             \/ RNotify \/ RunSender \/ Ipcrm
    BY <2>2, SetValKeeps, SenderTakeKeeps, ReceiverTakeKeeps, RemoveKeeps, ReceiverAddKeeps,
       RunSenderKeeps, IpcrmKeeps
  <2> QED
    BY <1>2, <2>1, <2>2, Steps, SenderQuiet, ReceiverQuiet
<1> QED
  BY <1>1, <1>2
-----------------------------------------------------------------------------
\* Over any number of kills and runs the receiver takes no request that was
\* not made: what an earlier dialogue leaves of its tokens is never one.
THEOREM NoPhantomOverRuns == RestartSpec => []NoPhantomRequest
<1>1. RestartInit => TokenInv
  BY InitTokens
<1>2. TokenInv /\ [RestartNext]_restartVars => TokenInv'
  BY NextTokens
<1>3. TokenInv => NoPhantomRequest
  BY DEF TokenInv, CountOK
<1> QED
  BY <1>1, <1>2, <1>3, PTL DEF RestartSpec
-----------------------------------------------------------------------------
\* A program has a token, or is to put the first one into the set.
HasS == SHolds \/ pc[Sender] = "setval"
HasR == Holds(Receiver) \/ pc[Receiver] = "setval"
HandS == IF HasS THEN 1 ELSE 0
HandR == IF HasR THEN 1 ELSE 0

\* What is lost, and what loses it, program by program.
LEMMA LostIs ==
    ASSUME TokenInv, TokenInv'
    PROVE  /\ Lost = 1 + published - served - val - HandS - HandR
           /\ Lost' = 1 + published' - served' - val' - HandS' - HandR'
           /\ {val, published, served, val', published', served'} \subseteq Nat
           /\ HasS => HandS = 1
           /\ HasR => HandR = 1
           /\ ~HasS => HandS = 0
           /\ ~HasR => HandR = 0
           /\ HasS' => HandS' = 1
           /\ HasR' => HandR' = 1
           /\ ~HasS' => HandS' = 0
           /\ ~HasR' => HandR' = 0
<1>1. SHolds => semid[Sender] = "live"
  BY TwoPrograms DEF TokenInv, Typed, IdOK, SHolds, NoSet
<1>2. SHolds' => semid'[Sender] = "live"
  BY TwoPrograms DEF TokenInv, Typed, IdOK, SHolds, NoSet
<1>3. Lost = 1 + published - served - val - HandS - HandR
  <2>1. /\ Sender \in {p \in Process : Holds(p) \/ pc[p] = "setval"} <=> HasS
        /\ Receiver \in {p \in Process : Holds(p) \/ pc[p] = "setval"} <=> HasR
    BY <1>1, TwoPrograms DEF Holds, HasS, HasR
  <2> QED
    BY <2>1 DEF Lost, HandS, HandR
<1>4. Lost' = 1 + published' - served' - val' - HandS' - HandR'
  <2>1. /\ Sender \in {p \in Process : Holds(p)' \/ pc'[p] = "setval"} <=> HasS'
        /\ Receiver \in {p \in Process : Holds(p)' \/ pc'[p] = "setval"} <=> HasR'
    BY <1>2, TwoPrograms DEF Holds, HasS, HasR
  <2> QED
    BY <2>1 DEF Lost, HandS, HandR
<1>5. {val, published, served, val', published', served'} \subseteq Nat
  BY DEF TokenInv, Typed
<1> QED
  BY <1>3, <1>4, <1>5 DEF HandS, HandR

\* The cases in which a token is lost, when the sender alone moves, when the
\* receiver alone does, and when both do.
LEMMA LosesIs ==
    ASSUME TokenInv
    PROVE  /\ pc'[Receiver] = pc[Receiver] =>
                (Loses <=> \/ HasS /\ pc'[Sender] = "off"
                           \/ Left(Sender, "publish") /\ val + 2 > SemMax
                           \/ Left(Sender, "show") /\ val + 1 > SemMax
                           \/ Left(Sender, "prompt") /\ pc'[Sender] = "remove")
           /\ pc'[Sender] = pc[Sender] =>
                (Loses <=> \/ HasR /\ pc'[Receiver] = "off"
                           \/ HasR /\ Left(Receiver, "notify") /\ val + 1 > SemMax
                           \/ HasR /\ Left(Receiver, "unlink"))
           /\ /\ pc'[Sender] # "off" /\ pc[Sender] # "prompt"
              /\ pc'[Receiver] # "off" /\ pc[Receiver] # "unlink"
              /\ pc[Sender] = "publish" => val + 2 <= SemMax
              /\ pc[Sender] = "show" => val + 1 <= SemMax
              /\ pc[Receiver] = "notify" => val + 1 <= SemMax
              => ~Loses
<1>0. val \in Nat /\ SemMax \in Nat
  BY BoundsAssumption DEF TokenInv, Typed
<1>1. SHolds => semid[Sender] = "live"
  BY TwoPrograms DEF TokenInv, Typed, IdOK, SHolds, NoSet
<1>2. Loses <=>
        \/ HasS /\ pc'[Sender] = "off"
        \/ HasR /\ pc'[Receiver] = "off"
        \/ Left(Sender, "publish") /\ val + 2 > SemMax
        \/ Left(Sender, "show") /\ val + 1 > SemMax
        \/ Left(Sender, "prompt") /\ pc'[Sender] = "remove"
        \/ Holds(Receiver) /\ Left(Receiver, "notify") /\ val + 1 > SemMax
        \/ Holds(Receiver) /\ Left(Receiver, "unlink")
  BY <1>1, TwoPrograms DEF Loses, HasS, HasR, Holds
<1>3. HasS => pc[Sender] # "off"
  BY DEF HasS, SHolds
<1>4. HasR => pc[Receiver] # "off"
  BY TwoPrograms DEF HasR, Holds
<1>5. Left(Receiver, "notify") \/ Left(Receiver, "unlink") => (HasR <=> Holds(Receiver))
  BY DEF Left, HasR
<1>6. /\ pc'[Sender] # "off" /\ pc[Sender] # "prompt"
      /\ pc'[Receiver] # "off" /\ pc[Receiver] # "unlink"
      /\ pc[Sender] = "publish" => val + 2 <= SemMax
      /\ pc[Sender] = "show" => val + 1 <= SemMax
      /\ pc[Receiver] = "notify" => val + 1 <= SemMax
      => ~Loses
  BY <1>0, <1>2 DEF Left
<1> QED
  BY <1>2, <1>3, <1>4, <1>5, <1>6 DEF Left

\* Where the steps that are no operation on the semaphore of an existing set
\* lead.
LEMMA SenderQuietSteps ==
    ASSUME TokenInv, exists,
           \/ Create(Sender) \/ Get(Sender) \/ SOpen \/ NewObject \/ SSize \/ SStore
           \/ (\E w \in Words : SType(w)) \/ SRepeat \/ SUninitialised \/ Kill(Sender)
    PROVE  /\ UNCHANGED <<val, published, served>> /\ semid'[Receiver] = semid[Receiver]
           /\ \E m \in SLabel :
                /\ pc' = [pc EXCEPT ![Sender] = m]
                /\ \/ m = "off"
                   \/ pc[Sender] = "prompt" /\ m = "remove"
                   \/ pc[Sender] \in {"prompt", "store"} /\ m \in {"store", "publish"}
                   \/ pc[Sender] \in {"create", "get", "open", "size"}
                        /\ m \in {"get", "open", "size", "acquire"}
<1>1. semid \in [Process -> {"none", "live", "dead"}]
  BY DEF TokenInv, Typed
<1>2. CASE Create(Sender)
  BY <1>2, Labels DEF Create, Goto, sem, hist
<1>3. CASE Get(Sender)
  <2>1. UNCHANGED <<published, served>> /\ pc[Sender] = "get" /\ pc' = [pc EXCEPT ![Sender] = "open"]
    BY <1>3 DEF Get, Goto, hist
  <2>2. val' = val /\ semid' = [semid EXCEPT ![Sender] = "live"]
    BY <1>3 DEF Get
  <2> QED
    BY <1>1, <2>1, <2>2, Labels, TwoPrograms
<1>4. ASSUME Fail(Sender) \/ Kill(Sender)
      PROVE  /\ UNCHANGED <<val, published, served>> /\ semid'[Receiver] = semid[Receiver]
             /\ pc' = [pc EXCEPT ![Sender] = "off"]
  BY <1>1, <1>4, TwoPrograms DEF Fail, Kill, Goto, hist
<1>5. CASE SOpen \/ NewObject \/ SSize \/ SStore
  <2>1. CASE Fail(Sender)
    BY <1>4, <2>1, Labels
  <2>2. CASE ~Fail(Sender)
    BY <1>5, <2>2, Labels DEF SOpen, NewObject, SSize, SStore, Goto, sem, hist
  <2> QED
    BY <2>1, <2>2
<1>6. CASE (\E w \in Words : SType(w)) \/ SRepeat \/ SUninitialised
  BY <1>6, Labels DEF SType, SRepeat, SUninitialised, Goto, sem, hist
<1> QED
  BY <1>2, <1>3, <1>4, <1>5, <1>6, Labels

\* The same of the receiver.
LEMMA ReceiverQuietSteps ==
    ASSUME TokenInv, exists,
           \/ Create(Receiver) \/ Get(Receiver) \/ ROpen \/ RMap \/ RCompare \/ RMeasure
           \/ RWrite \/ RUnlink \/ RunReceiver \/ Kill(Receiver)
    PROVE  /\ UNCHANGED <<val, published, served>>
           /\ \E m \in RLabel :
                /\ pc' = [pc EXCEPT ![Receiver] = m]
                /\ \/ m = "off" /\ semid'[Receiver] = "none"
                   \/ pc[Receiver] \in {"off", "done"} /\ m = "create"
                   \/ pc[Receiver] \in {"create", "get", "open", "map"}
                        /\ m \in {"get", "open", "map", "take"}
                   \/ /\ semid' = semid
                      /\ \/ pc[Receiver] \in {"compare", "measure", "write"}
                              /\ m \in {"measure", "write", "notify", "unlink"}
                         \/ pc[Receiver] = "unlink" /\ m = "done"
<1>1. semid \in [Process -> {"none", "live", "dead"}]
  BY DEF TokenInv, Typed
<1>2. CASE Create(Receiver)
  BY <1>2, Labels DEF Create, Goto, sem, hist
<1>3. CASE Get(Receiver)
  BY <1>3, Labels DEF Get, Goto, hist
<1>4. ASSUME Fail(Receiver) \/ Kill(Receiver)
      PROVE  /\ UNCHANGED <<val, published, served>> /\ semid'[Receiver] = "none"
             /\ pc' = [pc EXCEPT ![Receiver] = "off"]
  BY <1>1, <1>4, TwoPrograms DEF Fail, Kill, Goto, hist
<1>5. CASE ROpen \/ RMap \/ RCompare
  <2>1. CASE Fail(Receiver)
    BY <1>4, <2>1, Labels
  <2>2. CASE ~Fail(Receiver)
    BY <1>5, <2>2, Labels DEF ROpen, RMap, RCompare, Goto, sem, hist
  <2> QED
    BY <2>1, <2>2
<1>6. CASE RMeasure \/ RWrite \/ RUnlink
  BY <1>6, Labels DEF RMeasure, RWrite, RUnlink, Goto, sem, hist
<1>7. CASE RunReceiver
  BY <1>7, Labels DEF RunReceiver, Enter, Idle, Goto, hist
<1> QED
  BY <1>2, <1>3, <1>4, <1>5, <1>6, <1>7, Labels

\* These lose a token only by the end of who has it.
LEMMA QuietAccount ==
    ASSUME TokenInv, TokenInv', exists,
           \/ \/ Create(Sender) \/ Get(Sender) \/ SOpen \/ NewObject \/ SSize \/ SStore
              \/ (\E w \in Words : SType(w)) \/ SRepeat \/ SUninitialised \/ Kill(Sender)
           \/ \/ Create(Receiver) \/ Get(Receiver) \/ ROpen \/ RMap \/ RCompare \/ RMeasure
              \/ RWrite \/ RUnlink \/ RunReceiver \/ Kill(Receiver)
    PROVE  IF Loses THEN Lost' = Lost + 1 ELSE Lost' = Lost
<1>0. Typed
  BY DEF TokenInv
<1>1. ASSUME UNCHANGED <<val, published, served>>, semid'[Receiver] = semid[Receiver],
             NEW m \in SLabel, pc' = [pc EXCEPT ![Sender] = m],
             \/ m = "off"
             \/ pc[Sender] = "prompt" /\ m = "remove"
             \/ pc[Sender] \in {"prompt", "store"} /\ m \in {"store", "publish"}
             \/ pc[Sender] \in {"create", "get", "open", "size"}
                  /\ m \in {"get", "open", "size", "acquire"}
      PROVE  IF Loses THEN Lost' = Lost + 1 ELSE Lost' = Lost
  <2>1. pc'[Sender] = m /\ pc'[Receiver] = pc[Receiver]
    BY <1>0, <1>1, Moved
  <2>2. HasR' <=> HasR
    BY <1>1, <2>1, TwoPrograms DEF HasR, Holds
  <2>3. Loses => HasS /\ ~HasS'
    BY <1>1, <2>1, LosesIs DEF HasS, SHolds, Left
  <2>4. ~Loses => (HasS <=> HasS')
    BY <1>1, <2>1, LosesIs DEF HasS, SHolds, Left
  <2> QED
    BY <1>1, <2>2, <2>3, <2>4, LostIs
<1>2. ASSUME UNCHANGED <<val, published, served>>,
             NEW m \in RLabel, pc' = [pc EXCEPT ![Receiver] = m],
             \/ m = "off" /\ semid'[Receiver] = "none"
             \/ pc[Receiver] \in {"off", "done"} /\ m = "create"
             \/ pc[Receiver] \in {"create", "get", "open", "map"}
                  /\ m \in {"get", "open", "map", "take"}
             \/ /\ semid' = semid
                /\ \/ pc[Receiver] \in {"compare", "measure", "write"}
                        /\ m \in {"measure", "write", "notify", "unlink"}
                   \/ pc[Receiver] = "unlink" /\ m = "done"
      PROVE  IF Loses THEN Lost' = Lost + 1 ELSE Lost' = Lost
  <2>1. pc'[Receiver] = m /\ pc'[Sender] = pc[Sender]
    BY <1>0, <1>2, Moved
  <2>2. HasS' <=> HasS
    BY <2>1 DEF HasS, SHolds
  <2>5. /\ HasR <=> \/ pc[Receiver] = "setval"
                    \/ /\ semid[Receiver] = "live"
                       /\ pc[Receiver] \in {"compare", "measure", "write", "notify", "unlink"}
        /\ HasR' <=> \/ pc'[Receiver] = "setval"
                     \/ /\ semid'[Receiver] = "live"
                        /\ pc'[Receiver] \in {"compare", "measure", "write", "notify", "unlink"}
    BY TwoPrograms DEF HasR, Holds
  <2>3. Loses => HasR /\ ~HasR'
    BY <1>2, <2>1, <2>5, LosesIs DEF Left
  <2>4. ~Loses => (HasR <=> HasR')
    BY <1>2, <2>1, <2>5, LosesIs DEF Left
  <2> QED
    BY <1>2, <2>2, <2>3, <2>4, LostIs
<1>3. CASE \/ Create(Sender) \/ Get(Sender) \/ SOpen \/ NewObject \/ SSize \/ SStore
           \/ (\E w \in Words : SType(w)) \/ SRepeat \/ SUninitialised \/ Kill(Sender)
  BY <1>1, <1>3, SenderQuietSteps
<1>4. CASE \/ Create(Receiver) \/ Get(Receiver) \/ ROpen \/ RMap \/ RCompare \/ RMeasure
           \/ RWrite \/ RUnlink \/ RunReceiver \/ Kill(Receiver)
  BY <1>2, <1>4, ReceiverQuietSteps
<1> QED
  BY <1>3, <1>4

\* The operations on the semaphore lose a token only when it is full.
LEMMA SemAccount ==
    ASSUME TokenInv, TokenInv', exists, exists', SessionOpen,
           \/ SetVal(Sender) \/ SetVal(Receiver) \/ Take(Sender) \/ Take(Receiver)
           \/ SPublish \/ SShow \/ RNotify
    PROVE  IF Loses THEN Lost' = Lost + 1 ELSE Lost' = Lost
<1>0. /\ Typed /\ val \in Nat /\ published \in Nat /\ served \in Nat
      /\ SemMax \in Nat /\ 2 <= SemMax
  BY BoundsAssumption DEF TokenInv, Typed
<1>1. CASE Take(Sender)
  <2>1. /\ pc[Sender] \in {"acquire", "await"} /\ semid' = semid
        /\ UNCHANGED <<published, served>>
    BY <1>1, SenderTakes
  <2>2. CASE /\ val' = val - 1
             /\ pc' = [pc EXCEPT ![Sender] = IF pc[Sender] = "acquire" THEN "prompt" ELSE "show"]
    <3>1. pc'[Sender] \in {"prompt", "show"} /\ pc'[Receiver] = pc[Receiver]
      BY <1>0, <2>2, Moved
    <3>2. ~HasS /\ HasS' /\ (HasR' <=> HasR) /\ ~Loses
      BY <2>1, <3>1, LosesIs, TwoPrograms DEF HasS, SHolds, HasR, Holds, Left
    <3> QED
      BY <2>1, <2>2, <3>2, LostIs
  <2>3. CASE UNCHANGED <<pc, val>>
    <3>2. (HasS' <=> HasS) /\ (HasR' <=> HasR) /\ ~Loses
      BY <2>1, <2>3, LosesIs, TwoPrograms DEF HasS, SHolds, HasR, Holds, Left
    <3> QED
      BY <2>1, <2>3, <3>2, LostIs
  <2> QED
    BY <1>1, <2>2, <2>3, SenderTakes
<1>2. CASE Take(Receiver)
  <2>1. pc[Receiver] = "take" /\ semid' = semid /\ published' = published /\ ~HasR
    BY <1>2, ReceiverTakes, TwoPrograms DEF HasR, Holds
  <2>2. CASE /\ semid[Receiver] = "live" /\ val' = val - 2 /\ served' = served + 1
             /\ pc' = [pc EXCEPT ![Receiver] = "compare"]
    <3>1. pc'[Receiver] = "compare" /\ pc'[Sender] = pc[Sender]
      BY <1>0, <2>2, Moved
    <3>2. (HasS' <=> HasS) /\ HasR' /\ ~Loses
      BY <2>1, <2>2, <3>1, LosesIs, TwoPrograms DEF HasS, SHolds, HasR, Holds, Left
    <3> QED
      BY <2>1, <2>2, <3>2, LostIs
  <2>3. CASE UNCHANGED <<pc, val, served>>
    <3>2. (HasS' <=> HasS) /\ (HasR' <=> HasR) /\ ~Loses
      BY <2>1, <2>3, LosesIs, TwoPrograms DEF HasS, SHolds, HasR, Holds, Left
    <3> QED
      BY <2>1, <2>3, <3>2, LostIs
  <2>4. CASE /\ semid[Receiver] = "dead" /\ UNCHANGED <<val, served>>
             /\ pc' = [pc EXCEPT ![Receiver] = "compare"]
    <3>1. pc'[Receiver] = "compare" /\ pc'[Sender] = pc[Sender]
      BY <1>0, <2>4, Moved
    <3>2. (HasS' <=> HasS) /\ ~HasR' /\ ~Loses
      BY <2>1, <2>4, <3>1, LosesIs, TwoPrograms DEF HasS, SHolds, HasR, Holds, Left
    <3> QED
      BY <2>1, <2>4, <3>2, LostIs
  <2> QED
    BY <1>2, <2>2, <2>3, <2>4, ReceiverTakes
<1>3. ASSUME NEW k \in {1, 2}, NEW l \in {"remove", "await", "acquire"}, NEW pub,
             SenderAdd(k, l), Add(Sender, Receiver, k, l, pub)
      PROVE  IF Loses THEN Lost' = Lost + 1 ELSE Lost' = Lost
  <2>1. pc[Sender] \in {"publish", "show"} /\ semid' = semid /\ HasS
    BY <1>3 DEF SenderAdd, HasS, SHolds
  <2>2. k = IF pc[Sender] = "publish" THEN 2 ELSE 1
    BY <1>3 DEF SenderAdd
  <2>3. published' = IF val + k <= SemMax THEN published + k - 1 ELSE published
    BY <1>0, <1>3 DEF SenderAdd
  <2>4. l \in SLabel
    BY Labels
  <2>5. CASE /\ val + k <= SemMax /\ semid[Receiver] = "live" /\ pc[Receiver] = "take"
             /\ val' = val + k - 2 /\ served' = served + 1
             /\ pc' = [pc EXCEPT ![Sender] = l, ![Receiver] = "compare"]
    <3>1. pc'[Sender] = l /\ pc'[Receiver] = "compare"
      BY <1>0, <2>4, <2>5, BothMoved, Labels
    <3>2. ~HasS' /\ ~HasR /\ HasR'
      BY <2>1, <2>5, <3>1, TwoPrograms DEF HasS, SHolds, HasR, Holds
    <3>3. ~Loses
      BY <2>1, <2>2, <2>5, <3>1, LosesIs
    <3> QED
      BY <2>1, <2>3, <2>5, <3>2, <3>3, LostIs
  <2>6. CASE /\ val + k <= SemMax /\ val' = val + k /\ served' = served
             /\ pc' = [pc EXCEPT ![Sender] = l]
    <3>1. pc'[Sender] = l /\ pc'[Receiver] = pc[Receiver]
      BY <1>0, <2>4, <2>6, Moved
    <3>2. ~HasS' /\ (HasR' <=> HasR)
      BY <2>1, <3>1, TwoPrograms DEF HasS, SHolds, HasR, Holds
    <3>3. ~Loses
      BY <1>0, <2>1, <2>2, <2>6, <3>1, LosesIs DEF Left
    <3> QED
      BY <2>1, <2>3, <2>6, <3>2, <3>3, LostIs
  <2>7. CASE /\ val + k > SemMax /\ val' = val /\ served' = served
             /\ pc' = [pc EXCEPT ![Sender] = l]
    <3>1. pc'[Sender] = l /\ pc'[Receiver] = pc[Receiver]
      BY <1>0, <2>4, <2>7, Moved
    <3>2. ~HasS' /\ (HasR' <=> HasR)
      BY <2>1, <3>1, TwoPrograms DEF HasS, SHolds, HasR, Holds
    <3>3. Loses
      BY <2>1, <2>2, <2>7, <3>1, LosesIs DEF Left
    <3>4. published' = published
      BY <1>0, <2>3, <2>7
    <3> QED
      BY <2>1, <2>7, <3>2, <3>3, <3>4, LostIs
  <2> QED
    BY <1>3, <2>1, <2>5, <2>6, <2>7, SenderAdds
<1>4. CASE SPublish \/ SShow
  BY <1>3, <1>4, SenderAddIs
<1>5. CASE RNotify
  <2>1. /\ pc[Receiver] = "notify" /\ semid' = semid /\ published' = published
        /\ Add(Receiver, Sender, 1, "take", published)
    BY <1>5 DEF RNotify
  <2>2. served' = served /\ (HasR <=> semid[Receiver] = "live")
    BY <2>1, ReceiverAdds, TwoPrograms DEF HasR, Holds
  <2>3. CASE /\ semid[Receiver] = "live" /\ val = 0 /\ val' = 0
             /\ pc[Sender] \in {"acquire", "await"}
             /\ pc' = [pc EXCEPT ![Receiver] = "take",
                           ![Sender] = IF pc[Sender] = "acquire" THEN "prompt" ELSE "show"]
    <3>1. pc'[Sender] \in {"prompt", "show"} /\ pc'[Receiver] = "take"
      BY <1>0, <2>3, BothMoved, Labels
    <3>2. ~HasS /\ HasS' /\ HasR /\ ~HasR'
      BY <2>1, <2>3, <3>1, TwoPrograms DEF HasS, SHolds, HasR, Holds
    <3>3. ~Loses
      BY <1>0, <2>1, <2>3, <3>1, LosesIs
    <3> QED
      BY <2>1, <2>2, <2>3, <3>2, <3>3, LostIs
  <2>4. CASE /\ semid[Receiver] = "live" /\ val + 1 <= SemMax /\ val' = val + 1
             /\ pc' = [pc EXCEPT ![Receiver] = "take"]
    <3>1. pc'[Sender] = pc[Sender] /\ pc'[Receiver] = "take"
      BY <1>0, <2>4, Moved, Labels
    <3>2. (HasS' <=> HasS) /\ HasR /\ ~HasR'
      BY <2>1, <2>4, <3>1, TwoPrograms DEF HasS, SHolds, HasR, Holds
    <3>3. ~Loses
      BY <1>0, <2>1, <2>4, <3>1, LosesIs DEF Left
    <3> QED
      BY <2>1, <2>2, <2>4, <3>2, <3>3, LostIs
  <2>5. CASE /\ semid[Receiver] = "live" /\ val + 1 > SemMax /\ val' = val
             /\ pc' = [pc EXCEPT ![Receiver] = "take"]
    <3>1. pc'[Sender] = pc[Sender] /\ pc'[Receiver] = "take"
      BY <1>0, <2>5, Moved, Labels
    <3>2. (HasS' <=> HasS) /\ HasR /\ ~HasR'
      BY <2>1, <2>5, <3>1, TwoPrograms DEF HasS, SHolds, HasR, Holds
    <3>3. Loses
      BY <2>1, <2>5, <3>1, <3>2, LosesIs DEF Left
    <3> QED
      BY <2>1, <2>2, <2>5, <3>2, <3>3, LostIs
  <2>6. CASE /\ semid[Receiver] = "dead" /\ val' = val
             /\ pc' = [pc EXCEPT ![Receiver] = "take"]
    <3>1. pc'[Sender] = pc[Sender] /\ pc'[Receiver] = "take"
      BY <1>0, <2>6, Moved, Labels
    <3>2. (HasS' <=> HasS) /\ ~HasR /\ ~HasR'
      BY <2>1, <2>2, <2>6, <3>1, TwoPrograms DEF HasS, SHolds, HasR, Holds
    <3>3. ~Loses
      BY <2>1, <3>1, <3>2, LosesIs DEF Left
    <3> QED
      BY <2>1, <2>2, <2>6, <3>2, <3>3, LostIs
  <2> QED
    BY <2>1, <2>3, <2>4, <2>5, <2>6, ReceiverAdds
<1>6. CASE SetVal(Sender)
  <2>1. /\ pc[Sender] = "setval" /\ val' = 1 /\ semid' = semid
        /\ UNCHANGED <<published, served>> /\ pc' = [pc EXCEPT ![Sender] = "open"]
    BY <1>6, Sets DEF hist
  <2>2. val = 0
    BY <2>1 DEF TokenInv, UnsetOK
  <2>3. pc'[Sender] = "open" /\ pc'[Receiver] = pc[Receiver]
    BY <1>0, <2>1, Moved
  <2>4. HasS /\ ~HasS' /\ (HasR' <=> HasR) /\ ~Loses
    BY <2>1, <2>3, LosesIs, TwoPrograms DEF HasS, SHolds, HasR, Holds, Left
  <2> QED
    BY <2>1, <2>2, <2>4, LostIs
<1>7. CASE SetVal(Receiver)
  <2>1. /\ pc[Receiver] = "setval" /\ semid' = semid /\ UNCHANGED <<published, served>>
    BY <1>7, Sets DEF hist
  <2>2. val = 0 /\ HasR
    BY <2>1 DEF TokenInv, UnsetOK, HasR
  <2>3. CASE /\ pc[Sender] = "acquire" /\ val' = 0
             /\ pc' = [pc EXCEPT ![Receiver] = "open", ![Sender] = "prompt"]
    <3>1. pc'[Sender] = "prompt" /\ pc'[Receiver] = "open"
      BY <1>0, <2>3, BothMoved, Labels
    <3>2. ~HasS /\ HasS' /\ ~HasR'
      BY <2>3, <3>1, TwoPrograms DEF HasS, SHolds, HasR, Holds
    <3>3. ~Loses
      BY <2>1, <2>3, <3>1, LosesIs
    <3> QED
      BY <2>1, <2>2, <2>3, <3>2, <3>3, LostIs
  <2>4. CASE val' = 1 /\ pc' = [pc EXCEPT ![Receiver] = "open"]
    <3>1. pc'[Sender] = pc[Sender] /\ pc'[Receiver] = "open"
      BY <1>0, <2>4, Moved, Labels
    <3>2. (HasS' <=> HasS) /\ ~HasR'
      BY <3>1, TwoPrograms DEF HasS, SHolds, HasR, Holds
    <3>3. ~Loses
      BY <2>1, <3>1, LosesIs DEF Left
    <3> QED
      BY <2>1, <2>2, <2>4, <3>2, <3>3, LostIs
  <2> QED
    BY <1>7, <2>3, <2>4, Sets
<1> QED
  BY <1>1, <1>2, <1>4, <1>5, <1>6, <1>7

\* Over any number of kills and runs every token of the set is accounted for:
\* one is lost in the listed cases and in no other, and none comes back.
THEOREM TokenAccountAlways == RestartSpec => TokenAccount
<1>1. RestartInit => TokenInv
  BY InitTokens
<1>2. TokenInv /\ [RestartNext]_restartVars => TokenInv'
  BY NextTokens
<1>3. ASSUME TokenInv, TokenInv', [RestartNext]_restartVars
      PROVE  [exists /\ exists' /\ SessionOpen =>
                IF Loses THEN Lost' = Lost + 1 ELSE Lost' = Lost]_restartVars
  <2>1. SUFFICES ASSUME RestartNext, exists, exists', SessionOpen
                 PROVE  IF Loses THEN Lost' = Lost + 1 ELSE Lost' = Lost
    BY <1>3
  <2>2. ~SRemove /\ (RunSender => pc[Sender] = "off")
    BY <2>1 DEF SRemove, SessionOpen, RunSender, Enter, Idle
  <2>3. ~Ipcrm
    BY <2>1 DEF Ipcrm
  <2>4. CASE RunSender /\ pc[Sender] = "off"
    <3>1. /\ pc' = [pc EXCEPT ![Sender] = "create"] /\ semid' = [semid EXCEPT ![Sender] = "none"]
          /\ UNCHANGED <<val, published, served>>
      BY <2>4 DEF RunSender, Enter, Goto
    <3>2. semid'[Receiver] = semid[Receiver] /\ pc'[Sender] = "create" /\ pc'[Receiver] = pc[Receiver]
      BY <1>3, <3>1, Moved, Without, TwoPrograms DEF TokenInv
    <3>3. ~HasS /\ ~HasS' /\ (HasR' <=> HasR) /\ ~Loses
      BY <1>3, <2>4, <3>2, LosesIs, TwoPrograms DEF HasS, SHolds, HasR, Holds, Left
    <3> QED
      BY <1>3, <3>1, <3>3, LostIs
  <2> QED
    BY <1>3, <2>1, <2>2, <2>3, <2>4, Steps, QuietAccount, SemAccount
<1> QED
  BY <1>1, <1>2, <1>3, PTL DEF RestartSpec, TokenAccount
-----------------------------------------------------------------------------
\* A step of the sender leaves the receiver where it is, and the other way
\* round.
LEMMA Went ==
    ASSUME Typed
    PROVE  /\ \A l : Goto(Sender, l) => pc'[Sender] = l /\ pc'[Receiver] = pc[Receiver]
           /\ \A l : Goto(Receiver, l) => pc'[Receiver] = l /\ pc'[Sender] = pc[Sender]
           /\ \A l \in SLabel, m \in RLabel :
                \/ pc' = [pc EXCEPT ![Sender] = l, ![Receiver] = m]
                \/ pc' = [pc EXCEPT ![Receiver] = m, ![Sender] = l]
                => pc'[Sender] = l /\ pc'[Receiver] = m
BY Moved, BothMoved DEF Goto

\* Where the operations on the semaphore lead, and what they leave alone.
LEMMA SemMoves ==
    ASSUME TokenInv,
           \/ SetVal(Sender) \/ SetVal(Receiver) \/ Take(Sender) \/ Take(Receiver)
           \/ SPublish \/ SShow \/ RNotify
    PROVE  /\ UNCHANGED <<semid, shm, bufs>>
           /\ \/ pc'[Sender] = pc[Sender]
              \/ pc[Sender] = "setval" /\ pc'[Sender] = "open"
              \/ pc[Sender] = "acquire" /\ pc'[Sender] = "prompt"
              \/ pc[Sender] = "await" /\ pc'[Sender] = "show"
              \/ SPublish /\ pc'[Sender] = IF command = "exit" THEN "remove" ELSE "await"
              \/ SShow /\ pc'[Sender] = "acquire"
           /\ \/ pc'[Receiver] = pc[Receiver]
              \/ pc[Receiver] = "setval" /\ pc'[Receiver] = "open"
              \/ pc[Receiver] = "take" /\ pc'[Receiver] = "compare"
              \/ pc[Receiver] = "notify" /\ pc'[Receiver] = "take"
           /\ pc[Sender] # "await" => overtaken' = overtaken
<1>0. Typed
  BY DEF TokenInv
<1>1. CASE Take(Sender)
  <2> DEFINE l == IF pc[Sender] = "acquire" THEN "prompt" ELSE "show"
  <2>1. pc' = [pc EXCEPT ![Sender] = l] => pc'[Sender] = l /\ pc'[Receiver] = pc[Receiver]
    BY <1>0, Moved
  <2>2. pc[Sender] \in {"acquire", "await"} /\ UNCHANGED <<semid, shm, bufs>>
    BY <1>1, SenderTakes
  <2>3. pc' = [pc EXCEPT ![Sender] = l] \/ UNCHANGED <<pc, overtaken>>
    BY <1>1, SenderTakes
  <2>4. pc[Sender] # "await" => overtaken' = overtaken
    BY <1>1, SenderTakes DEF TokenInv, Typed
  <2> QED
    BY <2>1, <2>2, <2>3, <2>4
<1>2. CASE Take(Receiver)
  BY <1>0, <1>2, ReceiverTakes, Moved
<1>3. ASSUME NEW k \in {1, 2}, NEW l \in SLabel, NEW pub, pc[Sender] \in {"publish", "show"},
             Add(Sender, Receiver, k, l, pub)
      PROVE  /\ pc'[Sender] = l /\ overtaken' = overtaken
             /\ pc'[Receiver] = pc[Receiver]
                  \/ (pc[Receiver] = "take" /\ pc'[Receiver] = "compare")
  <2>1. "compare" \in RLabel
    BY Labels
  <2> QED
    BY <1>0, <1>3, <2>1, SenderAdds, Moved, BothMoved
<1>4. CASE SPublish
  <2> DEFINE l == IF command = "exit" THEN "remove" ELSE "await"
  <2>1. /\ pc[Sender] = "publish" /\ UNCHANGED <<semid, shm, bufs>>
        /\ Add(Sender, Receiver, 2, l, published') /\ l \in SLabel
    BY <1>4, Labels DEF SPublish
  <2> QED
    BY <1>3, <1>4, <2>1
<1>5. CASE SShow
  BY <1>3, <1>5, Labels DEF SShow
<1>6. CASE RNotify
  <2>1. /\ pc[Receiver] = "notify" /\ Add(Receiver, Sender, 1, "take", published)
        /\ UNCHANGED <<semid, shm, bufs>>
    BY <1>6 DEF RNotify
  <2> DEFINE l == IF pc[Sender] = "acquire" THEN "prompt" ELSE "show"
  <2>2. /\ pc' = [pc EXCEPT ![Receiver] = "take"] =>
             pc'[Receiver] = "take" /\ pc'[Sender] = pc[Sender]
        /\ pc' = [pc EXCEPT ![Receiver] = "take", ![Sender] = l] =>
             pc'[Receiver] = "take" /\ pc'[Sender] = l
    BY <1>0, Moved, BothMoved, Labels
  <2>3. \/ pc' = [pc EXCEPT ![Receiver] = "take"]
        \/ pc' = [pc EXCEPT ![Receiver] = "take", ![Sender] = l]
             /\ pc[Sender] \in {"acquire", "await"}
    BY <2>1, ReceiverAdds
  <2>4. pc[Sender] # "await" => overtaken' = overtaken
    BY <2>1, ReceiverAdds DEF TokenInv, Typed
  <2> QED
    BY <2>1, <2>2, <2>3, <2>4
<1>7. CASE SetVal(Sender) \/ SetVal(Receiver)
  <2>1. UNCHANGED <<semid, shm, bufs>> /\ overtaken' = overtaken
    BY <1>7, Sets DEF hist
  <2> QED
    BY <1>0, <1>7, <2>1, Sets, Moved, BothMoved, Labels
<1> QED
  BY <1>1, <1>2, <1>4, <1>5, <1>6, <1>7

\* The name, the start of a sender and its wait for an answer.
LEMMA NextNames == ASSUME TokenInv, NameOK, [RestartNext]_restartVars PROVE NameOK'
<1>0. Typed
  BY DEF TokenInv
<1>1. CASE UNCHANGED restartVars
  BY <1>1 DEF restartVars, vars, hist, shm, bufs, NameOK
<1>2. CASE \/ SetVal(Sender) \/ SetVal(Receiver) \/ Take(Sender) \/ Take(Receiver)
           \/ SPublish \/ SShow \/ RNotify
  <2>1. named' = named /\ command' = command
    BY <1>2, SemMoves DEF shm, bufs
  <2>2. SPublish => pc[Sender] = "publish"
    BY DEF SPublish
  <2>3. SShow => pc[Sender] = "show"
    BY DEF SShow
  <2> QED
    BY <1>2, <2>1, <2>2, <2>3, SemMoves DEF NameOK
<1>3. CASE Create(Sender) \/ Get(Sender)
  BY <1>0, <1>3, Went DEF Create, Get, NameOK, shm, bufs, hist
<1>12. ASSUME NEW p \in Process, Fail(p) \/ Kill(p) PROVE NameOK'
  BY <1>0, <1>12, Went, TwoPrograms DEF Fail, Kill, NameOK, shm, bufs, hist
<1>4. CASE SOpen \/ NewObject \/ SSize \/ SStore
  <2>1. CASE (SOpen \/ NewObject) /\ ~Fail(Sender)
    BY <1>0, <2>1, Went DEF SOpen, NewObject, NameOK, bufs, hist
  <2>2. CASE SSize /\ ~Fail(Sender)
    <3>1. /\ pc[Sender] = "size" /\ Goto(Sender, "acquire") /\ named' = named
          /\ UNCHANGED <<bufs, hist>>
      BY <2>2 DEF SSize
    <3> QED
      BY <1>0, <3>1, Went DEF NameOK, bufs, hist
  <2>3. CASE SStore /\ ~Fail(Sender)
    BY <1>0, <2>3, Went DEF SStore, NameOK, bufs, hist
  <2> QED
    BY <1>4, <1>12, <2>1, <2>2, <2>3, TwoPrograms
<1>5. CASE (\E w \in Words : SType(w)) \/ SRepeat \/ SUninitialised
  BY <1>0, <1>5, Went DEF SType, SRepeat, SUninitialised, NameOK, shm, bufs, hist
<1>6. CASE Create(Receiver) \/ Get(Receiver) \/ ROpen \/ RMap \/ RCompare
  <2>1. CASE ~Fail(Receiver)
    BY <1>0, <1>6, <2>1, Went DEF Create, Get, ROpen, RMap, RCompare, NameOK, shm, bufs, hist
  <2> QED
    BY <1>12, <2>1, TwoPrograms
<1>7. CASE RMeasure \/ RWrite \/ RUnlink
  BY <1>0, <1>7, Went DEF RMeasure, RWrite, RUnlink, NameOK, shm, bufs, hist
<1>8. CASE RunReceiver
  BY <1>0, <1>8, Went DEF RunReceiver, Enter, NameOK, shm, bufs, hist
<1>9. CASE RunSender
  BY <1>0, <1>9, Went DEF RunSender, Enter, NameOK, shm
<1>10. CASE Ipcrm
  BY <1>10 DEF Ipcrm, NameOK, shm, bufs
<1>11. CASE SRemove
  <2>1. pc'[Sender] = "done" /\ named' = named
        /\ pc'[Receiver] = IF Receiver \in waiting THEN Granted[pc[Receiver]] ELSE pc[Receiver]
    BY <1>11, TwoPrograms DEF SRemove, shm
  <2>2. Receiver \in waiting => pc[Receiver] = "take" /\ Granted[pc[Receiver]] = "compare"
    BY TakeSteps DEF TokenInv, AsleepOK
  <2> QED
    BY <2>1, <2>2 DEF NameOK
<1> QED
  BY <1>1, <1>2, <1>3, <1>4, <1>5, <1>6, <1>7, <1>8, <1>9, <1>10, <1>11, <1>12, Steps, TwoPrograms

\* As long as the sender has not overtaken it, the receiver is not in the region
\* together with it, and who waits for the answer finds a token only with it.
LEMMA Turns ==
    ASSUME TokenInv, CleanOK, ~overtaken
    PROVE  /\ SHolds => published = served /\ val = 0 /\ ~RServing
           /\ pc[Sender] = "await" /\ val # 0 /\ published = served =>
                content = Strlen[command] /\ ~RServing
           /\ pc[Sender] = "await" /\ RServing => val = 0
           /\ val >= 2 => published # served /\ pc[Sender] \in {"off", "await", "remove"}
<1>1. SHolds => published = served
  BY DEF CleanOK, TurnOK, SHolds
<1>2. SHolds \/ pc[Sender] = "await" => SessionOpen
  BY DEF SHolds, SessionOpen
<1>3. SHolds => val + 1 + Serving <= 1
  <2>1. SHolds => val + Holding + Serving <= 1 + published - served /\ Holding = 1
    BY <1>2, Counted
  <2> QED
    BY <1>1, <2>1, Counted
<1>4. SHolds => val = 0 /\ ~RServing
  BY <1>3, Counted
<1>5. pc[Sender] = "await" => ~SHolds
  BY DEF SHolds
<1>6. pc[Sender] = "await" /\ published = served => val + Serving <= 1
  <2>1. pc[Sender] = "await" => val + Holding + Serving <= 1 + published - served /\ Holding = 0
    BY <1>2, <1>5, Counted
  <2> QED
    BY <2>1, Counted
<1>7. pc[Sender] = "await" /\ val # 0 /\ published = served => ~RServing
  BY <1>6, Counted
<1>11. pc[Sender] = "await" => IF RServing THEN published = served
                               ELSE \/ published = served + 1
                                    \/ content = Strlen[command] \/ val = 0
  BY DEF CleanOK, AwaitOK
<1>8. pc[Sender] = "await" /\ val # 0 /\ published = served => content = Strlen[command]
  BY <1>7, <1>11, Counted
<1>9. pc[Sender] = "await" /\ RServing => val = 0
  BY <1>7, <1>11
<1>10. val >= 2 => published # served /\ pc[Sender] \in {"off", "await", "remove"}
  <2>1. val >= 2 => SessionOpen
    BY Counted DEF TokenInv, CountOK
  <2>2. val >= 2 => published # served
    BY <2>1, Counted
  <2> QED
    BY <2>1, <2>2 DEF CleanOK, TurnOK, SessionOpen
<1> QED
  BY <1>1, <1>4, <1>7, <1>8, <1>9, <1>10

\* The takes.
LEMMA TakesClean ==
    ASSUME TokenInv, TokenInv', CleanOK, Take(Sender) \/ Take(Receiver)
    PROVE  CleanOK'
<1>0. Typed /\ val \in Nat /\ published \in Nat /\ served \in Nat
  BY DEF TokenInv, Typed
<1>1. UNCHANGED <<semid, sized, content, command, count>>
  BY SemMoves DEF shm, bufs
<1>2. CASE Take(Sender)
  <2> DEFINE l == IF pc[Sender] = "acquire" THEN "prompt" ELSE "show"
  <2>1. pc[Sender] \in {"acquire", "await"} /\ UNCHANGED <<published, served>>
    BY <1>2, SenderTakes
  <2>2. SessionOpen /\ (pc[Sender] = "await" => sized)
    BY <2>1 DEF CleanOK, UnsizedOK, SessionOpen
  <2>3. CASE /\ val >= 1 /\ pc' = [pc EXCEPT ![Sender] = l]
             /\ overtaken' = (overtaken \/ (pc[Sender] = "await" /\ published # served))
    <3>1. pc'[Sender] = l /\ pc'[Receiver] = pc[Receiver]
      BY <1>0, <2>3, Moved
    <3>2. NoDead' /\ UnsizedOK'
      BY <1>1, <2>1, <2>2, <3>1, TwoPrograms DEF CleanOK, NoDead, UnsizedOK, Holds
    <3>3. ASSUME ~overtaken' PROVE published = served /\ (l = "show" => content = Strlen[command])
      <4>1. ~overtaken /\ (pc[Sender] = "await" => published = served)
        BY <1>0, <2>3, <3>3
      <4>2. pc[Sender] = "await" => content = Strlen[command]
        BY <1>0, <2>3, <4>1, Turns
      <4> QED
        BY <2>1, <4>1, <4>2 DEF CleanOK, TurnOK
    <3>4. ~overtaken' => TurnOK' /\ TextOK' /\ AwaitOK'
      BY <1>1, <2>1, <3>1, <3>3 DEF TurnOK, TextOK, AwaitOK
    <3> QED
      BY <3>2, <3>4 DEF CleanOK
  <2>4. CASE UNCHANGED <<pc, val, overtaken>>
    BY <1>1, <2>1, <2>4 DEF CleanOK, NoDead, UnsizedOK, TurnOK, TextOK, AwaitOK, SessionOpen, Holds,
                            SHolds, RServing, RBusy, Answering
  <2> QED
    BY <1>2, <2>3, <2>4, SenderTakes
<1>3. CASE Take(Receiver)
  <2>1. pc[Receiver] = "take" /\ published' = published /\ overtaken' = overtaken
    BY <1>3, ReceiverTakes
  <2>2. CASE /\ semid[Receiver] = "live" /\ val >= 2 /\ served' = served + 1
             /\ pc' = [pc EXCEPT ![Receiver] = "compare"]
    <3>1. pc'[Receiver] = "compare" /\ pc'[Sender] = pc[Sender]
      BY <1>0, <2>2, Moved
    <3>2. sized /\ SessionOpen
      <4>1. SessionOpen
        BY <1>0, <2>2, Counted DEF TokenInv, CountOK
      <4>2. published # served
        BY <1>0, <2>2, <4>1, Counted
      <4> QED
        BY <4>1, <4>2 DEF CleanOK, UnsizedOK
    <3>3. NoDead' /\ UnsizedOK'
      BY <1>1, <2>2, <3>1, <3>2 DEF NoDead, UnsizedOK
    <3>4. ASSUME ~overtaken' PROVE TurnOK' /\ TextOK' /\ AwaitOK'
      <4>1. pc[Sender] \in {"off", "await", "remove"} /\ published # served
        BY <2>1, <2>2, <3>4, Turns
      <4>2. ~RServing /\ RServing'
        BY <1>1, <2>1, <2>2, <3>1 DEF RServing, RBusy
      <4>3. pc[Sender] = "await" => published = served + 1 /\ content = command
        BY <2>1, <3>4, <4>1, <4>2 DEF CleanOK, AwaitOK
      <4> QED
        BY <1>1, <2>1, <2>2, <3>1, <4>1, <4>2, <4>3 DEF TurnOK, TextOK, AwaitOK, Answering
    <3> QED
      BY <3>3, <3>4 DEF CleanOK
  <2>3. CASE UNCHANGED <<pc, val, served>>
    BY <1>1, <2>1, <2>3 DEF CleanOK, NoDead, UnsizedOK, TurnOK, TextOK, AwaitOK, SessionOpen, Holds,
                            SHolds, RServing, RBusy, Answering
  <2>4. CASE /\ semid[Receiver] = "dead" /\ UNCHANGED <<val, served>>
             /\ pc' = [pc EXCEPT ![Receiver] = "compare"]
    <3>1. pc'[Receiver] = "compare" /\ pc'[Sender] = pc[Sender]
      BY <1>0, <2>4, Moved
    <3>2. pc[Sender] \in {"off", "done"}
      BY <2>1, <2>4 DEF CleanOK, NoDead
    <3>3. ~Holds(Receiver)'
      BY <1>1, <2>4 DEF Holds
    <3> QED
      BY <1>1, <2>1, <2>4, <3>1, <3>2, <3>3
         DEF CleanOK, NoDead, UnsizedOK, TurnOK, TextOK, AwaitOK, SessionOpen
  <2> QED
    BY <1>3, <2>2, <2>3, <2>4, ReceiverTakes
<1> QED
  BY <1>2, <1>3

\* The adds of the sender.
LEMMA SenderAddsClean ==
    ASSUME TokenInv, TokenInv', CleanOK, SPublish \/ SShow
    PROVE  CleanOK'
<1>0. /\ Typed /\ val \in Nat /\ published \in Nat /\ served \in Nat
      /\ SemMax \in Nat /\ 2 <= SemMax
  BY BoundsAssumption DEF TokenInv, Typed
<1>1. /\ UNCHANGED <<semid, sized, content, command, count>>
      /\ pc[Sender] \in {"publish", "show"} /\ overtaken' = overtaken
  BY SemMoves DEF shm, bufs, SPublish, SShow
<1>2. sized /\ SHolds
  BY <1>1, Labels DEF CleanOK, UnsizedOK, SessionOpen, SHolds
<1>3. pc'[Receiver] = pc[Receiver] \/ (pc[Receiver] = "take" /\ pc'[Receiver] = "compare")
  <2>1. \E k \in {1, 2}, l \in SLabel, pub \in {published, published'} :
           Add(Sender, Receiver, k, l, pub)
    BY SenderAddIs, Labels
  <2>2. PICK k \in {1, 2}, l \in SLabel, pub \in {published, published'} :
           Add(Sender, Receiver, k, l, pub)
    BY <2>1
  <2>3. /\ pc' = [pc EXCEPT ![Sender] = l] => pc'[Receiver] = pc[Receiver]
        /\ pc' = [pc EXCEPT ![Sender] = l, ![Receiver] = "compare"] => pc'[Receiver] = "compare"
    BY <1>0, Moved, BothMoved, Labels
  <2> QED
    BY <1>1, <2>2, <2>3, SenderAdds
<1>4. NoDead' /\ UnsizedOK'
  <2>1. pc[Receiver] = "take" => semid[Receiver] # "dead"
    BY <1>1 DEF CleanOK, NoDead
  <2> QED
    BY <1>1, <1>2, <1>3, <2>1 DEF CleanOK, NoDead, UnsizedOK
<1>5. ASSUME ~overtaken PROVE TurnOK' /\ TextOK' /\ AwaitOK'
  <2>1. published = served /\ val = 0 /\ ~RServing
    BY <1>2, <1>5, Turns
  <2>2. CASE SPublish
    <3> DEFINE l == IF command = "exit" THEN "remove" ELSE "await"
    <3>1. /\ pc[Sender] = "publish" /\ Add(Sender, Receiver, 2, l, published') /\ l \in SLabel
          /\ published' = IF Accepted(Sender, 2) THEN published + 1 ELSE published
      BY <2>2, Labels DEF SPublish
    <3>2. content = command /\ semid[Sender] = "live"
      BY <1>0, <1>5, <3>1, SenderAdds DEF CleanOK, TextOK
    <3>3. published' = published + 1
      BY <1>0, <2>1, <3>1, <3>2 DEF Accepted
    <3>4. CASE /\ semid[Receiver] = "live" /\ served' = served + 1
               /\ pc' = [pc EXCEPT ![Sender] = l, ![Receiver] = "compare"]
      <4>1. pc'[Sender] = l /\ pc'[Receiver] = "compare"
        BY <1>0, <3>1, <3>4, BothMoved, Labels
      <4>2. published' = served' /\ RServing'
        BY <1>1, <2>1, <3>3, <3>4, <4>1 DEF RServing, RBusy
      <4> QED
        BY <1>1, <3>2, <4>1, <4>2 DEF TurnOK, TextOK, AwaitOK, Answering
    <3>5. CASE served' = served /\ pc' = [pc EXCEPT ![Sender] = l]
      <4>1. pc'[Sender] = l /\ pc'[Receiver] = pc[Receiver]
        BY <1>0, <3>1, <3>5, Moved
      <4>2. published' = served' + 1 /\ ~RServing'
        BY <1>1, <2>1, <3>3, <3>5, <4>1 DEF RServing, RBusy
      <4> QED
        BY <1>1, <3>2, <4>1, <4>2 DEF TurnOK, TextOK, AwaitOK
    <3> QED
      BY <3>1, <3>4, <3>5, SenderAdds
  <2>3. CASE SShow
    <3>1. /\ pc[Sender] = "show" /\ published' = published
          /\ Add(Sender, Receiver, 1, "acquire", published)
      BY <2>3 DEF SShow
    <3>2. served' = served /\ pc' = [pc EXCEPT ![Sender] = "acquire"]
      BY <1>0, <2>1, <3>1, SenderAdds, Labels
    <3>3. pc'[Sender] = "acquire"
      BY <1>0, <3>2, Moved
    <3> QED
      BY <2>1, <3>1, <3>2, <3>3 DEF TurnOK, TextOK, AwaitOK
  <2> QED
    BY <2>2, <2>3
<1> QED
  BY <1>1, <1>4, <1>5 DEF CleanOK

\* The answer and the first value of a set.
LEMMA OtherAddsClean ==
    ASSUME TokenInv, TokenInv', CleanOK, RNotify \/ SetVal(Sender) \/ SetVal(Receiver)
    PROVE  CleanOK'
<1>0. Typed /\ val \in Nat /\ published \in Nat /\ served \in Nat /\ overtaken \in BOOLEAN
  BY DEF TokenInv, Typed
<1>1. UNCHANGED <<semid, sized, content, command, count>>
  BY SemMoves DEF shm, bufs
<1>2. CASE RNotify
  <2>1. /\ pc[Receiver] = "notify" /\ published' = published /\ served' = served
        /\ Add(Receiver, Sender, 1, "take", published)
    BY <1>2, ReceiverAdds DEF RNotify
  <2>2. pc'[Receiver] = "take"
    BY <2>1, <1>2, ReceiverAdds, <1>0, Moved, BothMoved, Labels
  <2>3. ~Holds(Receiver)' /\ ~RServing'
    BY <2>2, TwoPrograms DEF Holds, RServing, RBusy
  <2>4. CASE /\ semid[Receiver] = "live" /\ pc[Sender] \in {"acquire", "await"}
             /\ pc'[Sender] = IF pc[Sender] = "acquire" THEN "prompt" ELSE "show"
             /\ overtaken' = (overtaken \/ (pc[Sender] = "await" /\ published # served))
    <3>1. SessionOpen /\ (pc[Sender] = "await" => sized)
      BY <2>4 DEF CleanOK, UnsizedOK, SessionOpen
    <3>2. NoDead' /\ UnsizedOK'
      BY <1>1, <2>1, <2>3, <2>4, <3>1 DEF CleanOK, NoDead, UnsizedOK
    <3>3. ASSUME ~overtaken' PROVE TurnOK' /\ TextOK' /\ AwaitOK'
      <4>1. ~overtaken /\ (pc[Sender] = "await" => published = served)
        BY <1>0, <2>4, <3>3
      <4>2. pc[Sender] = "await" => content = Strlen[command]
        BY <2>1, <2>4, <4>1 DEF CleanOK, AwaitOK, Answering, RServing, RBusy
      <4>3. published = served
        BY <2>4, <4>1 DEF CleanOK, TurnOK
      <4> QED
        BY <1>1, <2>1, <2>4, <4>2, <4>3 DEF TurnOK, TextOK, AwaitOK
    <3> QED
      BY <3>2, <3>3 DEF CleanOK
  <2>5. CASE pc'[Sender] = pc[Sender] /\ overtaken' = overtaken
    <3>1. NoDead'
      BY <1>1, <2>1, <2>5 DEF CleanOK, NoDead
    <3>2. UnsizedOK'
      BY <1>1, <2>1, <2>3, <2>5 DEF CleanOK, UnsizedOK, SessionOpen
    <3>3. ASSUME ~overtaken PROVE TurnOK' /\ TextOK' /\ AwaitOK'
      <4>1. pc[Sender] = "await" => RServing
        BY <2>1, <1>0, TwoPrograms DEF CleanOK, NoDead, RServing, RBusy, TokenInv, IdOK, Typed, NoSet
      <4>2. pc[Sender] = "await" => published = served /\ content = Strlen[command]
        BY <2>1, <3>3, <4>1 DEF CleanOK, AwaitOK, Answering
      <4> QED
        BY <1>1, <2>1, <2>3, <2>5, <3>3, <4>2 DEF CleanOK, TurnOK, TextOK, AwaitOK
    <3> QED
      BY <2>5, <3>1, <3>2, <3>3 DEF CleanOK
  <2> DEFINE l == IF pc[Sender] = "acquire" THEN "prompt" ELSE "show"
  <2>6. /\ pc' = [pc EXCEPT ![Receiver] = "take"] => pc'[Sender] = pc[Sender]
        /\ pc' = [pc EXCEPT ![Receiver] = "take", ![Sender] = l] => pc'[Sender] = l
    BY <1>0, Moved, BothMoved, Labels
  <2> QED
    BY <2>1, <2>4, <2>5, <2>6, ReceiverAdds
<1>3. CASE SetVal(Sender) \/ SetVal(Receiver)
  <2>1. UNCHANGED <<published, served, overtaken>>
    BY <1>3, Sets DEF hist
  <2>2. CASE SetVal(Sender)
    <3>1. pc[Sender] = "setval" /\ pc' = [pc EXCEPT ![Sender] = "open"]
      BY <2>2, Sets
    <3>2. pc'[Sender] = "open" /\ pc'[Receiver] = pc[Receiver]
      BY <1>0, <3>1, Moved
    <3>3. NoDead' /\ UnsizedOK'
      BY <1>1, <2>1, <3>1, <3>2, Labels DEF CleanOK, NoDead, UnsizedOK, SessionOpen, Holds, SHolds
    <3>4. ~overtaken => TurnOK' /\ TextOK' /\ AwaitOK'
      BY <2>1, <3>1, <3>2 DEF CleanOK, TurnOK, TextOK, AwaitOK
    <3> QED
      BY <2>1, <3>3, <3>4 DEF CleanOK
  <2>3. CASE SetVal(Receiver)
    <3>1. /\ pc[Receiver] = "setval" /\ pc[Sender] \in Setup \cup {"size", "acquire", "done"}
          /\ semid[Receiver] = "live"
      BY <2>3, Sets DEF TokenInv, UnsetOK, IdOK
    <3>2. \/ pc[Sender] = "acquire" /\ pc' = [pc EXCEPT ![Receiver] = "open", ![Sender] = "prompt"]
          \/ pc' = [pc EXCEPT ![Receiver] = "open"]
      BY <2>3, Sets
    <3>3. /\ pc'[Receiver] = "open"
          /\ pc'[Sender] = pc[Sender] \/ (pc[Sender] = "acquire" /\ pc'[Sender] = "prompt")
      BY <1>0, <3>2, Moved, BothMoved, Labels
    <3>4. ~Holds(Receiver)' /\ pc[Sender] \notin {"await", "publish", "show"}
      BY <3>1, <3>3, TwoPrograms, Labels DEF Holds
    <3>6. NoDead'
      BY <1>1, <3>1 DEF NoDead
    <3>7. UnsizedOK'
      BY <1>1, <2>1, <3>3, <3>4 DEF CleanOK, UnsizedOK, SessionOpen
    <3>8. ~overtaken => TurnOK' /\ TextOK' /\ AwaitOK'
      BY <2>1, <3>3, <3>4 DEF CleanOK, TurnOK, TextOK, AwaitOK
    <3> QED
      BY <2>1, <3>6, <3>7, <3>8 DEF CleanOK
  <2> QED
    BY <1>3, <2>2, <2>3
<1> QED
  BY <1>2, <1>3

\* A step of the sender on which nothing hangs but where it is.
LEMMA SenderStaysClean ==
    ASSUME TokenInv, CleanOK, NEW m, pc'[Sender] = m, pc'[Receiver] = pc[Receiver],
           semid'[Receiver] = semid[Receiver], UNCHANGED <<published, served, overtaken>>,
           m \notin {"await", "show"}, m = "publish" => content' = command',
           m \notin {"off", "remove"} => pc[Sender] \notin {"off", "await", "remove", "done"},
           pc[Sender] \notin {"off", "done"},
           ~sized' => ~sized /\ m # "publish"
    PROVE  CleanOK'
<1>1. NoDead'
  BY DEF CleanOK, NoDead
<1>2. UnsizedOK'
  BY TwoPrograms DEF CleanOK, UnsizedOK, SessionOpen, Holds
<1>3. ~overtaken => TurnOK' /\ TextOK' /\ AwaitOK'
  BY DEF CleanOK, TurnOK, TextOK, AwaitOK
<1> QED
  BY <1>1, <1>2, <1>3 DEF CleanOK

\* The steps of the sender that are no operation on the semaphore.
LEMMA SenderQuietClean ==
    ASSUME TokenInv, NameOK, CleanOK,
           \/ Create(Sender) \/ Get(Sender) \/ SOpen \/ NewObject \/ SSize \/ SStore
           \/ (\E w \in Words : SType(w)) \/ SRepeat \/ SUninitialised \/ Kill(Sender)
    PROVE  CleanOK'
<1>0. Typed /\ semid \in [Process -> {"none", "live", "dead"}]
  BY DEF TokenInv, Typed
<1>1. CASE Create(Sender)
  <2>1. /\ pc[Sender] = "create" /\ pc'[Sender] \in {"setval", "get"} /\ pc'[Receiver] = pc[Receiver]
        /\ semid'[Receiver] = semid[Receiver] /\ UNCHANGED <<sized, published, served, overtaken>>
    BY <1>0, <1>1, Went, TwoPrograms DEF Create, NewSet, sem, shm, hist
  <2> QED
    BY <2>1, SenderStaysClean, Labels
<1>2. CASE Get(Sender)
  <2>1. /\ pc[Sender] = "get" /\ pc'[Sender] = "open" /\ pc'[Receiver] = pc[Receiver]
        /\ semid'[Receiver] = semid[Receiver] /\ UNCHANGED <<sized, published, served, overtaken>>
    BY <1>0, <1>2, Went, TwoPrograms DEF Get, NewSet, shm, hist
  <2> QED
    BY <2>1, SenderStaysClean, Labels
<1>3. ASSUME pc[Sender] \notin {"off", "done"}, Fail(Sender) \/ Kill(Sender) PROVE CleanOK'
  <2>1. /\ pc'[Sender] = "off" /\ pc'[Receiver] = pc[Receiver]
        /\ UNCHANGED <<sized, published, served, overtaken>>
    BY <1>0, <1>3, Went DEF Fail, Kill, shm, hist
  <2>2. semid'[Receiver] = semid[Receiver]
    BY <1>0, <1>3, TwoPrograms DEF Fail, Kill
  <2> QED
    BY <1>3, <2>1, <2>2, SenderStaysClean, Labels
<1>4. CASE SOpen
  <2>1. CASE Fail(Sender)
    BY <1>3, <1>4, <2>1 DEF SOpen
  <2>2. CASE ~Fail(Sender)
    <3>1. /\ pc[Sender] = "open" /\ pc'[Sender] = "size" /\ pc'[Receiver] = pc[Receiver]
          /\ UNCHANGED <<semid, sized, published, served, overtaken>>
      BY <1>0, <1>4, <2>2, Went DEF SOpen, sem, hist
    <3> QED
      BY <3>1, SenderStaysClean, Labels
  <2> QED
    BY <2>1, <2>2
<1>5. CASE NewObject
  <2>1. /\ pc[Sender] = "open" /\ ~named /\ pc'[Sender] = "size" /\ pc'[Receiver] = pc[Receiver]
        /\ UNCHANGED <<semid, published, served, overtaken>>
    BY <1>0, <1>5, Went DEF NewObject, sem, hist
  <2>2. published = served /\ ~Holds(Receiver)
    BY <2>1, TwoPrograms DEF NameOK, CleanOK, TurnOK, Holds
  <2>3. ~Holds(Receiver)'
    BY <2>1, <2>2, TwoPrograms DEF Holds
  <2>4. NoDead' /\ UnsizedOK'
    BY <2>1, <2>2, <2>3 DEF CleanOK, NoDead, UnsizedOK
  <2>5. TurnOK' /\ TextOK' /\ AwaitOK'
    BY <2>1, <2>2 DEF TurnOK, TextOK, AwaitOK
  <2> QED
    BY <2>4, <2>5 DEF CleanOK
<1>6. CASE SSize
  <2>1. CASE Fail(Sender)
    BY <1>3, <1>6, <2>1 DEF SSize
  <2>2. CASE ~Fail(Sender)
    <3>1. /\ pc[Sender] = "size" /\ pc'[Sender] = "acquire" /\ pc'[Receiver] = pc[Receiver]
          /\ sized' \in {TRUE, sized} /\ UNCHANGED <<semid, published, served, overtaken>>
      BY <1>0, <1>6, <2>2, Went DEF SSize, sem, hist
    <3>2. ~sized' => ~sized
      BY <3>1, Zenon
    <3> QED
      BY <3>1, <3>2, SenderStaysClean
  <2> QED
    BY <2>1, <2>2
<1>7. CASE SStore
  <2>1. CASE Fail(Sender)
    BY <1>3, <1>7, <2>1 DEF SStore
  <2>2. CASE ~Fail(Sender)
    <3>1. /\ pc[Sender] = "store" /\ pc'[Sender] = "publish" /\ pc'[Receiver] = pc[Receiver]
          /\ sized /\ content' = command
          /\ UNCHANGED <<command, semid, sized, published, served, overtaken>>
      BY <1>0, <1>7, <2>2, Went DEF SStore, sem, hist, bufs
    <3> QED
      BY <3>1, SenderStaysClean
  <2> QED
    BY <2>1, <2>2
<1>8. CASE (\E w \in Words : SType(w)) \/ SRepeat \/ SUninitialised
  <2>1. /\ pc[Sender] = "prompt" /\ pc'[Sender] \in {"store", "remove"} /\ pc'[Receiver] = pc[Receiver]
        /\ UNCHANGED <<semid, sized, published, served, overtaken>>
    BY <1>0, <1>8, Went DEF SType, SRepeat, SUninitialised, sem, shm, hist
  <2> QED
    BY <2>1, SenderStaysClean, Labels
<1>9. CASE Kill(Sender)
  BY <1>3, <1>9 DEF Kill, Idle
<1> QED
  BY <1>1, <1>2, <1>4, <1>5, <1>6, <1>7, <1>8, <1>9

\* The end of the sender, and its start over no remains.
LEMMA SenderEndsClean ==
    ASSUME TokenInv, CleanOK, SRemove \/ Ipcrm
    PROVE  CleanOK'
<1>1. CASE SRemove
  <2>1. pc'[Sender] = "done"
    BY <1>1, TwoPrograms DEF SRemove
  <2> QED
    BY <2>1 DEF CleanOK, NoDead, UnsizedOK, TurnOK, TextOK, AwaitOK, SessionOpen
<1>2. CASE Ipcrm
  <2>1. /\ pc' = pc /\ published' = 0 /\ served' = 0
        /\ pc[Sender] \in {"off", "done"} /\ pc[Receiver] \in {"off", "done"}
    BY <1>2, TwoPrograms DEF Ipcrm, Idle
  <2>2. ~Holds(Receiver)'
    BY <2>1, TwoPrograms DEF Holds
  <2> QED
    BY <2>1, <2>2, Labels DEF CleanOK, NoDead, UnsizedOK, TurnOK, TextOK, AwaitOK, SessionOpen
<1> QED
  BY <1>1, <1>2

\* A sender that is started over no remains begins a clean dialogue.
LEMMA RunSenderClean ==
    ASSUME TokenInv, ~stale => CleanOK, RunSender, ~stale'
    PROVE  CleanOK'
<1>0. Typed /\ semid \in [Process -> {"none", "live", "dead"}]
  BY DEF TokenInv, Typed
<1>1. /\ pc[Sender] \in {"off", "done"} /\ pc'[Sender] = "create" /\ pc'[Receiver] = pc[Receiver]
      /\ semid'[Receiver] = semid[Receiver] /\ sized' = sized
  <2>1. Goto(Sender, "create") /\ semid' = [semid EXCEPT ![Sender] = "none"] /\ sized' = sized
        /\ pc[Sender] \in {"off", "done"}
    BY DEF RunSender, Enter, Idle, shm
  <2> QED
    BY <1>0, <2>1, Went, TwoPrograms
<1>2. /\ Idle(Receiver) \/ (semid[Receiver] # "dead" /\ ~(stale /\ RBusy))
      /\ pc[Sender] = "done" \/ published = served
      /\ published' = IF pc[Sender] = "done" THEN 0 ELSE published
      /\ served' = IF pc[Sender] = "done" THEN 0 ELSE served
  BY DEF RunSender
<1>3. published' = served'
  BY <1>2
<1>4. NoDead'
  BY <1>1, <1>2 DEF NoDead, Idle, TokenInv, IdOK, NoSet
<1>5. ~sized => ~Holds(Receiver)
  <2>1. SUFFICES ASSUME ~sized, Holds(Receiver) PROVE FALSE
    OBVIOUS
  <2>2. RServing /\ ~Idle(Receiver)
    BY <2>1, TwoPrograms DEF Holds, RServing, RBusy, Idle
  <2>3. SessionOpen
    BY <2>2 DEF TokenInv, CountOK
  <2>4. ~stale
    BY <1>2, <2>2 DEF RServing
  <2> QED
    BY <2>1, <2>3, <2>4 DEF CleanOK, UnsizedOK
<1>6. Holds(Receiver)' <=> Holds(Receiver)
  BY <1>1, TwoPrograms DEF Holds
<1>7. UnsizedOK'
  BY <1>1, <1>3, <1>5, <1>6, Labels DEF UnsizedOK
<1>8. TurnOK' /\ TextOK' /\ AwaitOK'
  BY <1>1, <1>3 DEF TurnOK, TextOK, AwaitOK
<1> QED
  BY <1>4, <1>7, <1>8 DEF CleanOK

\* A step of the receiver after which it works on no request: what it leaves
\* the sender waiting for is lost.
LEMMA ReceiverStaysClean ==
    ASSUME TokenInv, CleanOK, pc'[Sender] = pc[Sender],
           UNCHANGED <<published, served, overtaken, sized, content, command>>,
           val' = val \/ val' = 0, ~RServing', ~Holds(Receiver)',
           semid'[Receiver] = "dead" => /\ semid[Receiver] = "dead"
                                        /\ pc[Receiver] # "done" \/ pc'[Receiver] = "done"
    PROVE  CleanOK'
<1>1. NoDead'
  BY DEF CleanOK, NoDead
<1>2. UnsizedOK'
  BY DEF CleanOK, UnsizedOK, SessionOpen
<1>3. ASSUME ~overtaken PROVE TurnOK' /\ TextOK' /\ AwaitOK'
  <2>1. pc[Sender] = "await" /\ RServing => published = served /\ val' = 0
    BY <1>3, Turns DEF CleanOK, AwaitOK
  <2>2. pc[Sender] = "await" /\ ~RServing =>
          \/ published = served + 1 /\ content = command
          \/ published = served /\ (content = Strlen[command] \/ val' = 0)
    BY <1>3 DEF CleanOK, AwaitOK
  <2>3. AwaitOK'
    BY <2>1, <2>2 DEF AwaitOK
  <2> QED
    BY <1>3, <2>3 DEF CleanOK, TurnOK, TextOK
<1> QED
  BY <1>1, <1>2, <1>3 DEF CleanOK

\* The steps of the receiver that are no operation on the semaphore: it works
\* out the answer to the command, or leaves it lost.
LEMMA ReceiverQuietClean ==
    ASSUME TokenInv, NameOK, CleanOK,
           \/ Create(Receiver) \/ Get(Receiver) \/ ROpen \/ RMap \/ RCompare \/ RMeasure
           \/ RWrite \/ RUnlink \/ RunReceiver \/ Kill(Receiver)
    PROVE  CleanOK'
<1>0. Typed /\ semid \in [Process -> {"none", "live", "dead"}]
  BY DEF TokenInv, Typed
<1>1. ~RBusy' => ~RServing' /\ ~Holds(Receiver)'
  BY TwoPrograms DEF RServing, RBusy, Holds
<1>2. ASSUME Goto(Receiver, "off") \/ Goto(Receiver, "create"),
             semid' = [semid EXCEPT ![Receiver] = "none"],
             UNCHANGED <<val, published, served, overtaken, sized, content, command>>
      PROVE  CleanOK'
  <2>1. pc'[Receiver] \in {"off", "create"} /\ pc'[Sender] = pc[Sender]
        /\ semid'[Receiver] = "none"
    BY <1>0, <1>2, Went, TwoPrograms
  <2>2. ~RBusy'
    BY <2>1 DEF RBusy
  <2> QED
    BY <1>1, <1>2, <2>1, <2>2, ReceiverStaysClean
<1>3. CASE Create(Receiver) \/ Get(Receiver)
  <2>1. /\ pc[Receiver] \in {"create", "get"} /\ pc'[Receiver] \in {"setval", "get", "open"}
        /\ pc'[Sender] = pc[Sender]
        /\ UNCHANGED <<published, served, overtaken, sized, content, command>>
    BY <1>0, <1>3, Went DEF Create, Get, shm, bufs, hist
  <2>2. val' = val \/ val' = 0
    BY <1>3 DEF Create, Get, NewSet, sem
  <2>3. semid'[Receiver] = "live" \/ semid'[Receiver] = semid[Receiver]
    BY <1>0, <1>3, TwoPrograms DEF Create, Get, NewSet, sem
  <2>4. semid[Receiver] # "dead"
    BY <2>1 DEF TokenInv, IdOK, NoSet
  <2>5. ~RBusy'
    BY <2>1 DEF RBusy
  <2> QED
    BY <1>1, <2>1, <2>2, <2>3, <2>4, <2>5, ReceiverStaysClean
<1>4. CASE ROpen \/ RMap
  <2>1. CASE Fail(Receiver)
    BY <1>2, <2>1 DEF Fail, shm, bufs, hist
  <2>2. CASE ~Fail(Receiver)
    <3>1. /\ pc[Receiver] \in {"open", "map"} /\ pc'[Receiver] \in {"map", "take"}
          /\ pc'[Sender] = pc[Sender] /\ semid' = semid
          /\ UNCHANGED <<val, published, served, overtaken, sized, content, command>>
      BY <1>0, <1>4, <2>2, Went DEF ROpen, RMap, sem, shm, bufs, hist
    <3>2. ~RBusy'
      BY <3>1 DEF RBusy
    <3> QED
      BY <1>1, <3>1, <3>2, ReceiverStaysClean
  <2> QED
    BY <2>1, <2>2
<1>5. CASE RunReceiver
  BY <1>2, <1>5 DEF RunReceiver, Enter, shm, hist
<1>6. CASE Kill(Receiver)
  BY <1>2, <1>6 DEF Kill, shm, bufs, hist
<1>7. ASSUME pc[Sender] = "await", ~overtaken, RServing
      PROVE  published = served /\ Answering /\ command # "exit"
  BY <1>7 DEF CleanOK, AwaitOK, NameOK
<1>8. pc[Receiver] \in {"compare", "measure", "write", "unlink"} /\ ~RServing =>
        pc[Sender] \in {"off", "done"}
  BY <1>0, TwoPrograms DEF CleanOK, NoDead, RServing, RBusy, TokenInv, IdOK, NoSet
<1>11. CASE RCompare /\ Fail(Receiver)
  BY <1>2, <1>11 DEF Fail, shm, bufs, hist
<1>9. CASE (RCompare /\ ~Fail(Receiver)) \/ RMeasure \/ RWrite
  <2>1. /\ pc[Receiver] \in {"compare", "measure", "write"}
        /\ pc'[Receiver] \in {"measure", "unlink", "write", "notify"}
        /\ pc'[Sender] = pc[Sender]
        /\ UNCHANGED <<semid, val, published, served, overtaken, sized, command>>
    BY <1>0, <1>9, Went DEF RCompare, RMeasure, RWrite, sem, shm, bufs, hist
  <2>2. (RServing' <=> RServing) /\ (Holds(Receiver)' <=> Holds(Receiver))
    BY <2>1, TwoPrograms DEF RServing, RBusy, Holds
  <2>3. NoDead' /\ UnsizedOK'
    BY <2>1, <2>2 DEF CleanOK, NoDead, UnsizedOK, SessionOpen
  <2>4. ASSUME ~overtaken PROVE TurnOK' /\ TextOK' /\ AwaitOK'
    <3>1. TurnOK'
      BY <2>1, <2>4 DEF CleanOK, TurnOK
    <3>2. pc[Sender] \notin {"publish", "show"} \/ ~RServing
      BY <2>4, Turns DEF SHolds
    <3>3. TextOK'
      BY <1>8, <2>1, <3>2 DEF TextOK
    <3>4. ASSUME pc[Sender] = "await" PROVE RServing /\ published = served /\ Answering'
      <4>1. RServing
        BY <1>8, <2>1, <3>4
      <4>2. published = served /\ Answering /\ command # "exit"
        BY <1>7, <2>4, <3>4, <4>1
      <4>3. CASE RCompare /\ ~Fail(Receiver)
        <5>1. pc[Receiver] = "compare" /\ content' = content
          BY <4>3 DEF RCompare, shm
        <5>2. content = command
          BY <4>2, <5>1 DEF Answering
        <5>3. pc'[Receiver] = "measure"
          BY <1>0, <4>2, <4>3, <5>2, Went DEF RCompare
        <5> QED
          BY <2>1, <4>1, <4>2, <5>1, <5>2, <5>3 DEF Answering
      <4>4. CASE RMeasure
        <5>1. /\ pc[Receiver] = "measure" /\ count' = Strlen[content] /\ pc'[Receiver] = "write"
          BY <1>0, <4>4, Went DEF RMeasure
        <5>2. content = command
          BY <4>2, <5>1 DEF Answering
        <5> QED
          BY <2>1, <4>1, <4>2, <5>1, <5>2 DEF Answering
      <4>5. CASE RWrite
        <5>1. /\ pc[Receiver] = "write" /\ content' = count /\ pc'[Receiver] = "notify"
          BY <1>0, <4>5, Went DEF RWrite
        <5>2. count = Strlen[command]
          BY <4>2, <5>1 DEF Answering
        <5> QED
          BY <2>1, <4>1, <4>2, <5>1, <5>2 DEF Answering
      <4> QED
        BY <1>9, <4>3, <4>4, <4>5
    <3>5. AwaitOK'
      BY <2>1, <2>2, <3>4 DEF AwaitOK
    <3> QED
      BY <3>1, <3>3, <3>5
  <2> QED
    BY <2>1, <2>3, <2>4 DEF CleanOK
<1>10. CASE RUnlink
  <2>1. /\ pc[Receiver] = "unlink" /\ pc'[Receiver] = "done" /\ pc'[Sender] = pc[Sender]
        /\ UNCHANGED <<semid, val, published, served, overtaken, sized, content, command>>
    BY <1>0, <1>10, Went DEF RUnlink, sem, bufs, hist
  <2>2. NoDead' /\ UnsizedOK'
    BY <2>1, TwoPrograms DEF CleanOK, NoDead, UnsizedOK, SessionOpen, Holds
  <2>3. ASSUME ~overtaken PROVE TurnOK' /\ TextOK' /\ AwaitOK'
    <3>1. pc[Sender] # "await"
      BY <1>7, <1>8, <2>1, <2>3 DEF Answering
    <3> QED
      BY <2>1, <2>3, <3>1 DEF CleanOK, TurnOK, TextOK, AwaitOK
  <2> QED
    BY <2>1, <2>2, <2>3 DEF CleanOK
<1> QED
  BY <1>3, <1>4, <1>5, <1>6, <1>9, <1>10, <1>11

\* A dialogue begun over no remains stays as good as a first one.
LEMMA NextClean == ASSUME RestartInv, TokenInv', [RestartNext]_restartVars PROVE RestartInv'
<1>1. TokenInv /\ NameOK /\ (~stale => CleanOK)
  BY DEF RestartInv, CleanInv
<1>2. NameOK'
  BY <1>1, NextNames
<1>3. ASSUME ~stale' PROVE CleanOK'
  <2>1. CASE RunSender
    BY <1>1, <1>3, <2>1, RunSenderClean
  <2>2. CASE UNCHANGED restartVars
    BY <1>1, <1>3, <2>2 DEF restartVars, vars, sem, shm, bufs, hist, restart, CleanOK, NoDead,
       UnsizedOK, TurnOK, TextOK, AwaitOK, SessionOpen, Holds, SHolds, RServing, RBusy, Answering
  <2>3. CASE RestartNext /\ ~RunSender
    <3>1. stale' = stale
      BY <2>3 DEF RestartNext, SenderRuns, ReceiverRuns, Typing, RunReceiver, Kill, Ipcrm, restart
    <3>2. CleanOK
      BY <1>1, <1>3, <3>1
    <3> QED
      BY <1>1, <2>3, <3>2, Steps, SenderQuietClean, ReceiverQuietClean, OtherAddsClean, TakesClean,
         SenderAddsClean, SenderEndsClean
  <2> QED
    BY <2>1, <2>2, <2>3
<1> QED
  BY <1>2, <1>3 DEF RestartInv, CleanInv

\* Over any number of kills and runs, a dialogue that began over no remains is
\* as good as a first one: unless the sender overtakes the receiver, the two are
\* not in the region together, the answer printed is the one to the command, and
\* the receiver finds an object with a size.
THEOREM CleanStartAlways == RestartSpec => []CleanStart
<1>1. RestartInit => RestartInv
  <2>1. SUFFICES ASSUME RestartInit PROVE RestartInv
    OBVIOUS
  <2>2. pc[Sender] = "off" /\ pc[Receiver] = "off" /\ published = 0 /\ served = 0
    BY <2>1, TwoPrograms DEF RestartInit, Init
  <2>3. NameOK /\ CleanOK
    BY <2>2, Labels, TwoPrograms
       DEF NameOK, CleanOK, NoDead, UnsizedOK, TurnOK, TextOK, AwaitOK, Holds
  <2> QED
    BY <2>1, <2>3, InitTokens DEF RestartInv, CleanInv
<1>2. RestartInv /\ [RestartNext]_restartVars => RestartInv'
  BY NextTokens, NextClean DEF RestartInv
<1>3. RestartInv => CleanStart
  <2>1. SUFFICES ASSUME RestartInv, ~stale, ~overtaken
                 PROVE  /\ ~(SHolds /\ RServing)
                        /\ pc[Sender] = "show" => content = Strlen[command]
                        /\ SessionOpen /\ Holds(Receiver) => sized
    BY DEF CleanStart
  <2>2. TokenInv /\ CleanOK
    BY <2>1 DEF RestartInv, CleanInv
  <2> QED
    BY <2>1, <2>2, Turns DEF CleanOK, TextOK, UnsizedOK
<1> QED
  BY <1>1, <1>2, <1>3, PTL DEF RestartSpec
=============================================================================
