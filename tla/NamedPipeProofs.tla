--------------------------- MODULE NamedPipeProofs ---------------------------
(***************************************************************************)
(* Proofs about NamedPipe, for every set of words and every size of the    *)
(* FIFO that holds a word.                                                 *)
(*                                                                         *)
(* EndsInv, which holds for any number of clients and any kills, says that *)
(* a process has the FIFO open exactly between its open and its close.     *)
(* With one client, PhaseInv follows one dialogue through its four phases: *)
(* in each one it says what the FIFO holds, who sleeps in an open, and so  *)
(* who can take the next step.  The two sides reopen the FIFO in either    *)
(* order, which is why each phase has several positions of both.           *)
(***************************************************************************)
EXTENDS NamedPipe, SequenceTheorems, TLAPS

Label == {"off", "prompt", "openR", "read", "closeR", "openW", "write", "closeW",
          "show", "dead"}

\* A process has the FIFO open for what it is between its open and its close.
EndsInv ==
    /\ pc \in [Process -> Label]
    /\ \A p \in Process : p \in readers <=> pc[p] \in {"read", "closeR", "show"}
    /\ \A p \in Process : p \in writers <=> pc[p] \in {"write", "closeW"}

\* Nothing is asked: the FIFO is empty, and who has opened it first sleeps.
Quiet(c) ==
    /\ fifo = <<>>
    /\ pc[Server] \in {"openR", "read", "closeW"}
    /\ pc[c] \in {"off", "prompt", "openW", "write", "show"}
    /\ asleep = IF pc[Server] = "read" /\ pc[c] # "write" THEN {Server}
                ELSE IF pc[Server] # "read" /\ pc[c] = "write" THEN {c} ELSE {}

\* The word is in the FIFO, and only the server can read it.
Requested(c) ==
    /\ fifo = WordMsg(word[c])
    /\ pc[Server] = "read"
    /\ pc[c] \in {"closeW", "openR", "read"}
    /\ asleep = IF pc[c] = "read" THEN {c} ELSE {}

\* The server has the word and turns the FIFO round, as does the client.
Taken(c) ==
    /\ fifo = <<>> /\ buffer = WordMsg(word[c])
    /\ pc[Server] \in {"closeR", "openW", "write"}
    /\ pc[c] \in {"closeW", "openR", "read"}
    /\ asleep = IF pc[Server] = "write" /\ pc[c] # "read" THEN {Server}
                ELSE IF pc[Server] # "write" /\ pc[c] = "read" THEN {c} ELSE {}

\* The answer is in the FIFO, and only the client can read it.
Replied(c) ==
    /\ fifo = AnswerMsg(Length[word[c]])
    /\ pc[Server] \in {"closeW", "openR", "read"}
    /\ pc[c] = "read"
    /\ asleep = IF pc[Server] = "read" THEN {Server} ELSE {}

Phase(c) ==
    /\ Quiet(c) \/ Requested(c) \/ Taken(c) \/ Replied(c)
    /\ pc[c] = "show" => n[c] = Length[word[c]]

PhaseInv(c) == TypeOK /\ EndsInv /\ Phase(c)

\* The same where the client may be killed anywhere, for a dialogue that began
\* with a server waiting for it.
FreshInv(c) ==
    /\ TypeOK /\ EndsInv
    /\ c \in fresh /\ pc[c] \in {"write", "closeW", "openR", "read", "show"} => Phase(c)
-----------------------------------------------------------------------------
(***************************************************************************)
(* Messages and reads.                                                     *)
(***************************************************************************)
\* A word is WordSize pieces, none of which is an answer.
LEMMA WordIsMessage ==
    ASSUME NEW w \in Words
    PROVE  /\ WordMsg(w) \in Seq(Piece) /\ Len(WordMsg(w)) = WordSize
           /\ WordMsg(w) # <<>>
           /\ WordMsg(w)[1] = [word |-> w, at |-> 1]
           /\ "n" \notin DOMAIN WordMsg(w)[1]
<1>1. WordMsg(w) \in [1..WordSize -> Piece]
  BY PipeAssumption DEF WordMsg, Piece
<1>2. WordMsg(w) \in Seq(Piece) /\ Len(WordMsg(w)) = WordSize
  BY <1>1, PipeAssumption
<1>3. WordMsg(w)[1] = [word |-> w, at |-> 1]
  BY PipeAssumption DEF WordMsg
<1>4. "n" \notin DOMAIN [word |-> w, at |-> 1]
  OBVIOUS
<1>5. WordMsg(w) # <<>>
  BY <1>2, PipeAssumption
<1>6. QED
  BY <1>2, <1>3, <1>4, <1>5

\* An answer is one piece.
LEMMA AnswerIsMessage ==
    ASSUME NEW k \in {Length[w] : w \in Words} \cup {Garbled}
    PROVE  /\ AnswerMsg(k) \in Seq(Piece) /\ Len(AnswerMsg(k)) = 1
           /\ AnswerMsg(k) # <<>>
           /\ AnswerMsg(k)[1].n = k
           /\ "n" \in DOMAIN AnswerMsg(k)[1]
<1>1. /\ [n |-> k] \in Piece
      /\ [n |-> k].n = k
      /\ "n" \in DOMAIN [n |-> k]
  <2>1. [n |-> k] \in Piece
    <3> DEFINE Ints == {Length[w] : w \in Words} \cup {Garbled}
    <3>1. k \in Ints
      OBVIOUS
    <3> HIDE DEF Ints
    <3>2. [n |-> k] \in {[n |-> j] : j \in Ints}
      BY <3>1
    <3>3. QED
      BY <3>2, Z3 DEF Piece, Ints
  <2>2. [n |-> k].n = k
    OBVIOUS
  <2>3. "n" \in DOMAIN [n |-> k]
    OBVIOUS
  <2>4. QED
    BY <2>1, <2>2, <2>3
<1>2. AnswerMsg(k)[1] = [n |-> k]
  BY DEF AnswerMsg
<1>3. QED
  BY <1>1, <1>2 DEF AnswerMsg

\* Words are told apart by any of their pieces.
LEMMA WordMsgInjective ==
    ASSUME NEW v \in Words, NEW w \in Words, WordMsg(v) = WordMsg(w)
    PROVE  v = w
<1>1. [word |-> v, at |-> 1] = [word |-> w, at |-> 1]
  BY WordIsMessage
<1>2. QED
  BY <1>1

\* The server answers a word with its length.
LEMMA LengthOfBuffer ==
    ASSUME NEW w \in Words, buffer = WordMsg(w)
    PROVE  BufferLength = Length[w]
<1>1. buffer[1] = [word |-> w, at |-> 1]
  BY WordIsMessage
<1>2. buffer[1].word = w
  BY <1>1
<1>3. QED
  BY <1>2 DEF BufferLength

\* What the server answers is an int, whatever its buffer holds.
LEMMA LengthIsTyped ==
    ASSUME TypeOK
    PROVE  BufferLength \in {Length[w] : w \in Words} \cup {Garbled}
<1>1. CASE \E w \in Words : buffer = WordMsg(w)
  BY <1>1, LengthOfBuffer
<1>2. CASE ~ \E w \in Words : buffer = WordMsg(w)
  BY <1>2 DEF BufferLength
<1>3. QED
  BY <1>1, <1>2

\* A read returns the first pieces of the FIFO and leaves the others.
LEMMA ReadSplits ==
    ASSUME NEW k \in Nat, fifo \in Seq(Piece)
    PROVE  /\ Got(k) \in Seq(Piece)
           /\ Len(Got(k)) = IF k < Len(fifo) THEN k ELSE Len(fifo)
           /\ \A j \in 1..Len(Got(k)) : Got(k)[j] = fifo[j] /\ fifo[j] \in Piece
           /\ SubSeq(fifo, Len(Got(k)) + 1, Len(fifo)) \in Seq(Piece)
<1> DEFINE m == IF k < Len(fifo) THEN k ELSE Len(fifo)
<1>1. Len(fifo) \in Nat /\ m \in Nat /\ m <= Len(fifo)
  BY LenProperties
<1>2. \A j \in 1..Len(fifo) : fifo[j] \in Piece
  BY ElementOfSeq
<1>3. /\ SubSeq(fifo, 1, m) \in Seq(Piece)
      /\ Len(SubSeq(fifo, 1, m)) = m
      /\ \A j \in 1..m : SubSeq(fifo, 1, m)[j] = fifo[j]
  <2>1. \A j \in 1..m : fifo[j] \in Piece
    BY <1>1, <1>2
  <2> HIDE DEF m
  <2>2. /\ SubSeq(fifo, 1, m) \in Seq(Piece)
        /\ Len(SubSeq(fifo, 1, m)) = IF 1 <= m THEN m - 1 + 1 ELSE 0
        /\ \A j \in 1..m - 1 + 1 : SubSeq(fifo, 1, m)[j] = fifo[1 + j - 1]
    BY <1>1, <2>1, SubSeqProperties
  <2>3. QED
    BY <1>1, <2>2
<1>4. SubSeq(fifo, m + 1, Len(fifo)) \in Seq(Piece)
  <2>1. \A j \in m + 1 .. Len(fifo) : fifo[j] \in Piece
    BY <1>1, <1>2
  <2> HIDE DEF m
  <2>2. QED
    BY <1>1, <2>1, SubSeqProperties
<1>5. QED
  BY <1>1, <1>2, <1>3, <1>4 DEF Got

\* A read of at least what the FIFO holds empties it.
LEMMA ReadEmpties ==
    ASSUME NEW k \in Nat, fifo \in Seq(Piece), Len(fifo) <= k
    PROVE  Got(k) = fifo /\ SubSeq(fifo, Len(Got(k)) + 1, Len(fifo)) = <<>>
<1>1. Len(fifo) \in Nat
  BY LenProperties
<1>2. Got(k) = fifo
  BY <1>1, SubSeqFull DEF Got
<1>3. QED
  BY <1>1, <1>2, SubSeqEmpty
-----------------------------------------------------------------------------
(***************************************************************************)
(* Types and ends, for any number of clients and any kills.                *)
(***************************************************************************)
EndsTyped == TypeOK /\ EndsInv

\* Nothing is open, and no buffer holds more than its size, at the start.
LEMMA InitEnds == Init => EndsTyped
<1> SUFFICES ASSUME Init
             PROVE  TypeOK /\ EndsInv
  BY DEF EndsTyped
<1>1. /\ pc \in [Process -> Label]
      /\ pc[Server] = "openR"
      /\ \A c \in Clients : pc[c] = "off"
  BY ServerAssumption DEF Init, Process, Label
<1>2. buffer \in [1..WordSize -> Piece]
  <2>1. [n |-> Garbled] \in Piece
    BY AnswerIsMessage, ElementOfSeq DEF AnswerMsg
  <2>2. QED
    BY <2>1 DEF Init
<1>3. fifo \in Seq(Piece)
  BY EmptySeq DEF Init
<1>4. TypeOK
  BY <1>1, <1>2, <1>3 DEF Init, TypeOK
<1>5. EndsInv
  BY <1>1 DEF Init, EndsInv, Process
<1>6. QED
  BY <1>4, <1>5

\* An open, and the step to its label, keep the ends as the labels say.
LEMMA OpenKeeps ==
    ASSUME EndsTyped, NEW p \in Process,
           \/ pc[p] = "openR" /\ OpenRead(p) /\ Goto(p, "read")
           \/ pc[p] = "openW" /\ OpenWrite(p) /\ Goto(p, "write")
    PROVE  /\ EndsInv'
           /\ readers' \subseteq Process /\ writers' \subseteq Process
           /\ asleep' \subseteq readers' \cup writers'
           /\ fifo' \in Seq(Piece)
  BY DEF EndsTyped, EndsInv, TypeOK, OpenRead, OpenWrite, Goto, Label

\* So does a close.
LEMMA CloseKeeps ==
    ASSUME EndsTyped, NEW p \in Process, Close(p),
           NEW label \in {"off", "prompt", "openR", "openW", "dead"}, Goto(p, label)
    PROVE  /\ EndsInv'
           /\ readers' \subseteq Process /\ writers' \subseteq Process
           /\ asleep' \subseteq readers' \cup writers'
           /\ fifo' \in Seq(Piece)
  BY EmptySeq DEF EndsTyped, EndsInv, TypeOK, Close, Goto, Label

\* So does a write, also one that SIGPIPE ends.
LEMMA WriteKeeps ==
    ASSUME EndsTyped, NEW p \in Process, pc[p] = "write",
           NEW msg \in Seq(Piece), Write(p, msg, "closeW")
    PROVE  /\ EndsInv'
           /\ readers' \subseteq Process /\ writers' \subseteq Process
           /\ asleep' \subseteq readers' \cup writers'
           /\ fifo' \in Seq(Piece)
           /\ Goto(p, "closeW") \/ Goto(p, "dead")
<1>1. CASE readers # {} /\ fifo' = fifo \o msg /\ Goto(p, "closeW") /\ UNCHANGED ends
  <2>1. fifo' \in Seq(Piece)
    BY <1>1, ConcatProperties DEF EndsTyped, TypeOK
  <2>2. QED
    BY <1>1, <2>1 DEF EndsTyped, EndsInv, TypeOK, Goto, ends, Label
<1>2. CASE readers = {} /\ Close(p) /\ Goto(p, "dead")
  BY <1>2, CloseKeeps
<1>3. QED
  BY <1>1, <1>2 DEF Write

\* So does a read.
LEMMA ReadKeeps ==
    ASSUME EndsTyped, NEW p \in Process, NEW k \in Nat, Read(p, k), pc[p] = "read",
           NEW label, Goto(p, label), label = IF p = Server THEN "closeR" ELSE "show"
    PROVE  /\ EndsInv'
           /\ readers' \subseteq Process /\ writers' \subseteq Process
           /\ asleep' \subseteq readers' \cup writers'
           /\ fifo' \in Seq(Piece)
<1>1. fifo' \in Seq(Piece)
  BY ReadSplits DEF EndsTyped, TypeOK, Read
<1>2. QED
  BY <1>1 DEF EndsTyped, EndsInv, TypeOK, Goto, Read, ends, Label
\* The steps of the server keep types and ends.
LEMMA ServerEnds ==
    ASSUME EndsTyped, ServerStep
    PROVE  EndsTyped'
<1> USE DEF EndsTyped
<1>1. Server \in Process
  BY DEF Process
<1>2. CASE SOpenRead \/ SOpenWrite
  <2>1. \/ pc[Server] = "openR" /\ OpenRead(Server) /\ Goto(Server, "read")
        \/ pc[Server] = "openW" /\ OpenWrite(Server) /\ Goto(Server, "write")
    BY <1>2 DEF SOpenRead, SOpenWrite
  <2>2. UNCHANGED <<buffer, word, n, fresh>>
    BY <1>2 DEF SOpenRead, SOpenWrite
  <2>3. /\ EndsInv'
        /\ readers' \subseteq Process /\ writers' \subseteq Process
        /\ asleep' \subseteq readers' \cup writers'
        /\ fifo' \in Seq(Piece)
    BY <1>1, <2>1, OpenKeeps
  <2>4. TypeOK'
    BY <2>1, <2>2, <2>3, ServerAssumption DEF TypeOK, Goto, Process, EndsInv
  <2>5. QED
    BY <2>3, <2>4
<1>3. CASE SRead
  <2>1. /\ pc[Server] = "read" /\ Read(Server, WordSize) /\ Goto(Server, "closeR")
        /\ UNCHANGED <<word, n, fresh>>
    BY <1>3 DEF SRead
  <2>2. /\ EndsInv'
        /\ readers' \subseteq Process /\ writers' \subseteq Process
        /\ asleep' \subseteq readers' \cup writers'
        /\ fifo' \in Seq(Piece)
    BY <1>1, <2>1, ReadKeeps, PipeAssumption
  <2>3. buffer' \in [1..WordSize -> Piece]
    <3>1. \A j \in 1..Len(Got(WordSize)) : Got(WordSize)[j] \in Piece
      BY ReadSplits, PipeAssumption DEF TypeOK
    <3>2. Len(Got(WordSize)) \in Nat
      BY ReadSplits, PipeAssumption, LenProperties DEF TypeOK
    <3>3. QED
      BY <1>3, <3>1, <3>2, PipeAssumption DEF SRead, TypeOK
  <2>4. TypeOK'
    BY <2>1, <2>2, <2>3, ServerAssumption DEF TypeOK, Goto, Process, EndsInv
  <2>5. QED
    BY <2>2, <2>4
<1>4. CASE SWrite
  <2>1. AnswerMsg(BufferLength) \in Seq(Piece)
    BY LengthIsTyped, AnswerIsMessage
  <2>2. /\ EndsInv'
        /\ readers' \subseteq Process /\ writers' \subseteq Process
        /\ asleep' \subseteq readers' \cup writers'
        /\ fifo' \in Seq(Piece)
        /\ Goto(Server, "closeW") \/ Goto(Server, "dead")
    BY <1>1, <1>4, <2>1, WriteKeeps DEF SWrite
  <2>3. TypeOK'
    BY <1>4, <2>2, ServerAssumption DEF SWrite, TypeOK, Goto, Process, EndsInv
  <2>4. QED
    BY <2>2, <2>3
<1>5. CASE SCloseRead \/ SCloseWrite
  <2>1. /\ Close(Server) /\ UNCHANGED <<buffer, word, n, fresh>>
        /\ Goto(Server, "openW") \/ Goto(Server, "openR")
    BY <1>5 DEF SCloseRead, SCloseWrite
  <2>2. /\ EndsInv'
        /\ readers' \subseteq Process /\ writers' \subseteq Process
        /\ asleep' \subseteq readers' \cup writers'
        /\ fifo' \in Seq(Piece)
    BY <1>1, <2>1, CloseKeeps
  <2>3. TypeOK'
    BY <2>1, <2>2, ServerAssumption DEF TypeOK, Goto, Process, EndsInv
  <2>4. QED
    BY <2>2, <2>3
<1>6. QED
  BY <1>2, <1>3, <1>4, <1>5 DEF ServerStep

\* The steps of a client and of its user do, too.
LEMMA ClientEnds ==
    ASSUME EndsTyped, NEW c \in Clients, ClientStep(c) \/ User(c)
    PROVE  EndsTyped'
<1> USE ServerAssumption DEF EndsTyped
<1>1. c \in Process /\ c # Server
  BY DEF Process
<1>2. CASE COpenWrite(c) \/ COpenRead(c)
  <2>1. \/ pc[c] = "openR" /\ OpenRead(c) /\ Goto(c, "read")
        \/ pc[c] = "openW" /\ OpenWrite(c) /\ Goto(c, "write")
    BY <1>2 DEF COpenRead, COpenWrite
  <2>2. /\ EndsInv'
        /\ readers' \subseteq Process /\ writers' \subseteq Process
        /\ asleep' \subseteq readers' \cup writers'
        /\ fifo' \in Seq(Piece)
    BY <1>1, <2>1, OpenKeeps
  <2>3. UNCHANGED <<buffer, word, n>> /\ fresh' \subseteq Clients
    BY <1>2 DEF COpenRead, COpenWrite, TypeOK
  <2>4. TypeOK'
    BY <1>1, <2>1, <2>2, <2>3 DEF TypeOK, Goto, Process, EndsInv
  <2>5. QED
    BY <2>2, <2>4
<1>3. CASE CRead(c)
  <2>1. /\ pc[c] = "read" /\ Read(c, 1) /\ Goto(c, "show")
        /\ UNCHANGED <<buffer, word, fresh>>
    BY <1>3 DEF CRead
  <2>2. /\ EndsInv'
        /\ readers' \subseteq Process /\ writers' \subseteq Process
        /\ asleep' \subseteq readers' \cup writers'
        /\ fifo' \in Seq(Piece)
    BY <1>1, <2>1, ReadKeeps
  <2>3. n' \in [Clients -> {Length[w] : w \in Words} \cup {Garbled}]
    <3>1. CASE fifo = <<>> \/ "n" \notin DOMAIN fifo[1]
      BY <1>3, <3>1 DEF CRead, TypeOK
    <3>2. CASE fifo # <<>> /\ "n" \in DOMAIN fifo[1]
      <4>1. fifo[1] \in Piece
        BY <3>2, EmptySeq, LenProperties, ElementOfSeq DEF TypeOK
      <4>2. PICK k \in {Length[w] : w \in Words} \cup {Garbled} : fifo[1] = [n |-> k]
        <5>1. ASSUME NEW w, NEW j, fifo[1] = [word |-> w, at |-> j]
              PROVE  FALSE
          <6>1. DOMAIN [word |-> w, at |-> j] = {"word", "at"}
            OBVIOUS
          <6>2. QED
            BY <3>2, <5>1, <6>1
        <5> DEFINE Ints == {Length[w] : w \in Words} \cup {Garbled}
        <5>2. Piece = {[word |-> w, at |-> j] : w \in Words, j \in 1..WordSize}
                        \cup {[n |-> k] : k \in Ints}
          BY DEF Piece
        <5> HIDE DEF Ints
        <5>3. \E k \in Ints : fifo[1] = [n |-> k]
          BY <4>1, <5>1, <5>2, Z3
        <5>4. QED
          BY <5>3 DEF Ints
      <4>3. n' = [n EXCEPT ![c] = k]
        BY <1>3, <3>2, <4>2 DEF CRead
      <4>4. QED
        BY <4>3 DEF TypeOK
    <3>3. QED
      BY <3>1, <3>2
  <2>4. TypeOK'
    BY <1>1, <2>1, <2>2, <2>3 DEF TypeOK, Goto, Process, EndsInv
  <2>5. QED
    BY <2>2, <2>4
<1>4. CASE CWrite(c)
  <2>1. WordMsg(word[c]) \in Seq(Piece)
    BY WordIsMessage DEF TypeOK
  <2>2. /\ EndsInv'
        /\ readers' \subseteq Process /\ writers' \subseteq Process
        /\ asleep' \subseteq readers' \cup writers'
        /\ fifo' \in Seq(Piece)
        /\ Goto(c, "closeW") \/ Goto(c, "dead")
    BY <1>1, <1>4, <2>1, WriteKeeps DEF CWrite
  <2>3. TypeOK'
    BY <1>1, <1>4, <2>2 DEF CWrite, TypeOK, Goto, Process, EndsInv
  <2>4. QED
    BY <2>2, <2>3
<1>5. CASE CCloseWrite(c) \/ CShow(c) \/ Kill(c)
  <2>1. /\ Close(c) /\ UNCHANGED <<buffer, word, n, fresh>>
        /\ Goto(c, "openR") \/ Goto(c, "prompt") \/ Goto(c, "off")
    BY <1>5 DEF CCloseWrite, CShow, Kill
  <2>2. /\ EndsInv'
        /\ readers' \subseteq Process /\ writers' \subseteq Process
        /\ asleep' \subseteq readers' \cup writers'
        /\ fifo' \in Seq(Piece)
    BY <1>1, <2>1, CloseKeeps
  <2>3. TypeOK'
    BY <1>1, <2>1, <2>2 DEF TypeOK, Goto, Process, EndsInv
  <2>4. QED
    BY <2>2, <2>3
<1>6. CASE Start(c) \/ \E w \in Words : Type(c, w)
  <2>1. /\ pc[c] \in {"off", "dead", "prompt"}
        /\ Goto(c, "prompt") \/ Goto(c, "openW")
        /\ \E w \in Words : word' = [word EXCEPT ![c] = w]
        /\ n' = n \/ n' = [n EXCEPT ![c] = Garbled]
        /\ UNCHANGED <<ends, fifo, buffer, fresh>>
    BY <1>6 DEF Start, Type
  <2>2. EndsInv'
    BY <1>1, <2>1 DEF EndsInv, Goto, ends, Label
  <2>3. TypeOK'
    BY <1>1, <2>1 DEF TypeOK, Goto, Process, EndsInv, ends
  <2>4. QED
    BY <2>2, <2>3
<1>7. QED
  BY <1>2, <1>3, <1>4, <1>5, <1>6 DEF ClientStep, User

\* Types and ends are kept by every step.
LEMMA NextEnds == EndsTyped /\ [Next]_vars => EndsTyped'
<1> SUFFICES ASSUME EndsTyped, [Next]_vars
             PROVE  EndsTyped'
  OBVIOUS
<1>1. CASE UNCHANGED vars
  BY <1>1 DEF vars, ends, EndsTyped, TypeOK, EndsInv
<1>2. CASE Next
  BY <1>2, ServerEnds, ClientEnds DEF Next
<1>3. QED
  BY <1>1, <1>2

\* A process has the FIFO open exactly between its open and its close, and
\* sleeps only in an open, whoever is killed.
THEOREM NamedPipeEnds == Spec => []EndsTyped
<1>1. QED
  BY InitEnds, NextEnds, PTL DEF Spec
-----------------------------------------------------------------------------
(***************************************************************************)
(* One dialogue at a time: the client c is the only one.                   *)
(***************************************************************************)
\* Who has the FIFO open, with one client.
Around(c) ==
    /\ Server # c /\ Process = {Server, c}
    /\ pc \in [{Server, c} -> Label] /\ word[c] \in Words
    /\ readers \subseteq {Server, c} /\ writers \subseteq {Server, c}
    /\ asleep \subseteq readers \cup writers
    /\ Server \in readers <=> pc[Server] \in {"read", "closeR"}
    /\ c \in readers <=> pc[c] \in {"read", "show"}
    /\ Server \in writers <=> pc[Server] \in {"write", "closeW"}
    /\ c \in writers <=> pc[c] \in {"write", "closeW"}

\* It follows from the general invariant.
LEMMA Holders ==
    ASSUME NEW c, Clients = {c}, EndsTyped
    PROVE  Around(c)
  BY ServerAssumption DEF EndsTyped, EndsInv, TypeOK, Process, Around

LEMMA ServerPhase ==
    ASSUME NEW c, Clients = {c}, EndsTyped, Phase(c), ServerStep
    PROVE  Phase(c)'
<1>0. Around(c)
  BY Holders
<1> USE <1>0 DEF Phase, Around
<1>1. CASE SOpenRead
  <2>1. pc[Server] = "openR" /\ UNCHANGED <<buffer, word, n>>
    BY <1>1 DEF SOpenRead
  <2>2. CASE Quiet(c)
    BY <1>1, <2>2 DEF Quiet, SOpenRead, OpenRead, Goto
  <2>3. CASE Replied(c)
    BY <1>1, <2>3 DEF Replied, SOpenRead, OpenRead, Goto
  <2>4. QED
    BY <2>1, <2>2, <2>3 DEF Requested, Taken
<1>2. CASE SRead
  <2>1. /\ pc[Server] = "read" /\ Read(Server, WordSize) /\ Goto(Server, "closeR")
        /\ UNCHANGED <<word, n>>
    BY <1>2 DEF SRead
  <2>2. Requested(c)
    BY <2>1 DEF Quiet, Taken, Replied, Read
  <2>3. fifo' = <<>> /\ Got(WordSize) = WordMsg(word[c]) /\ UNCHANGED ends
    <3>1. fifo = WordMsg(word[c]) /\ fifo \in Seq(Piece) /\ Len(fifo) = WordSize
      BY <2>2, WordIsMessage DEF Requested
    <3>2. Got(WordSize) = fifo /\ SubSeq(fifo, Len(Got(WordSize)) + 1, Len(fifo)) = <<>>
      BY <3>1, ReadEmpties, PipeAssumption
    <3>3. QED
      BY <2>1, <3>1, <3>2 DEF Read
  <2>4. buffer' = WordMsg(word[c])
    BY <1>2, <2>3, WordIsMessage, PipeAssumption DEF SRead, WordMsg
  <2>5. QED
    BY <2>1, <2>2, <2>3, <2>4 DEF Requested, Taken, Goto, ends
<1>3. CASE SCloseRead
  BY <1>3 DEF SCloseRead, Close, Goto, Quiet, Requested, Taken, Replied
<1>4. CASE SOpenWrite
  BY <1>4 DEF SOpenWrite, OpenWrite, Goto, Quiet, Requested, Taken, Replied
<1>5. CASE SWrite
  <2>1. pc[Server] = "write" /\ UNCHANGED <<buffer, word, n>> /\ Server \notin asleep
    BY <1>5 DEF SWrite, Write
  <2>2. Taken(c) /\ pc[c] = "read" /\ readers # {}
    BY <2>1 DEF Quiet, Requested, Taken, Replied
  <2>3. fifo' = fifo \o AnswerMsg(Length[word[c]]) /\ Goto(Server, "closeW") /\ UNCHANGED ends
    BY <1>5, <2>2, LengthOfBuffer DEF SWrite, Write, Taken
  <2>4. fifo' = AnswerMsg(Length[word[c]])
    BY <2>2, <2>3, AnswerIsMessage, ConcatEmptySeq DEF Taken
  <2>5. QED
    BY <2>1, <2>2, <2>3, <2>4 DEF Taken, Replied, Goto, ends
<1>6. CASE SCloseWrite
  <2>1. /\ pc[Server] = "closeW" /\ Close(Server) /\ Goto(Server, "openR")
        /\ UNCHANGED <<buffer, word, n>>
    BY <1>6 DEF SCloseWrite
  <2>2. CASE Quiet(c)
    BY <2>1, <2>2 DEF Close, Goto, Quiet
  <2>3. CASE Replied(c)
    BY <2>1, <2>3 DEF Close, Goto, Replied
  <2>4. QED
    BY <2>1, <2>2, <2>3 DEF Requested, Taken
<1>7. QED
  BY <1>1, <1>2, <1>3, <1>4, <1>5, <1>6 DEF ServerStep

\* So do those of the client.
LEMMA ClientPhase ==
    ASSUME NEW c, Clients = {c}, EndsTyped, Phase(c), ClientStep(c)
    PROVE  Phase(c)'
<1>0. Around(c)
  BY Holders
<1> USE <1>0 DEF Phase, Around
<1>1. CASE COpenWrite(c)
  <2>1. pc[c] = "openW" /\ OpenWrite(c) /\ Goto(c, "write") /\ UNCHANGED <<buffer, word, n>>
    BY <1>1 DEF COpenWrite
  <2>2. Quiet(c)
    BY <2>1 DEF Requested, Taken, Replied
  <2>3. QED
    BY <2>1, <2>2 DEF OpenWrite, Goto, Quiet
<1>2. CASE CWrite(c)
  <2>1. pc[c] = "write" /\ c \notin asleep /\ UNCHANGED <<buffer, word, n>>
    BY <1>2 DEF CWrite, Write
  <2>2. Quiet(c) /\ pc[Server] = "read" /\ readers # {}
    BY <2>1 DEF Quiet, Requested, Taken, Replied
  <2>3. fifo' = fifo \o WordMsg(word[c]) /\ Goto(c, "closeW") /\ UNCHANGED ends
    BY <1>2, <2>2 DEF CWrite, Write
  <2>4. fifo' = WordMsg(word[c])
    BY <2>2, <2>3, WordIsMessage, ConcatEmptySeq DEF Quiet
  <2>5. QED
    BY <2>1, <2>2, <2>3, <2>4 DEF Quiet, Requested, Goto, ends
<1>3. CASE CCloseWrite(c)
  <2>1. pc[c] = "closeW" /\ Close(c) /\ Goto(c, "openR") /\ UNCHANGED <<buffer, word, n>>
    BY <1>3 DEF CCloseWrite
  <2>2. CASE Requested(c)
    BY <2>1, <2>2 DEF Close, Goto, Requested
  <2>3. CASE Taken(c)
    BY <2>1, <2>3 DEF Close, Goto, Taken
  <2>4. QED
    BY <2>1, <2>2, <2>3 DEF Quiet, Replied
<1>4. CASE COpenRead(c)
  <2>1. pc[c] = "openR" /\ OpenRead(c) /\ Goto(c, "read") /\ UNCHANGED <<buffer, word, n>>
    BY <1>4 DEF COpenRead
  <2>2. CASE Requested(c)
    BY <2>1, <2>2 DEF OpenRead, Goto, Requested
  <2>3. CASE Taken(c)
    BY <2>1, <2>3 DEF OpenRead, Goto, Taken
  <2>4. QED
    BY <2>1, <2>2, <2>3 DEF Quiet, Replied
<1>5. CASE CRead(c)
  <2>1. /\ pc[c] = "read" /\ Read(c, 1) /\ Goto(c, "show") /\ UNCHANGED <<buffer, word>>
        /\ c \notin asleep
        /\ fifo # <<>> \/ writers = {}
    BY <1>5 DEF CRead, Read
  <2>2. Replied(c)
    BY <2>1 DEF Quiet, Requested, Taken
  <2>3. Length[word[c]] \in {Length[w] : w \in Words} \cup {Garbled}
    OBVIOUS
  <2>4. fifo' = <<>> /\ UNCHANGED ends
    BY <2>1, <2>2, <2>3, AnswerIsMessage, ReadEmpties DEF Read, Replied
  <2>5. n'[c] = Length[word[c]]
    BY <1>5, <2>2, <2>3, AnswerIsMessage DEF CRead, Replied, EndsTyped, TypeOK
  <2>6. QED
    BY <2>1, <2>2, <2>4, <2>5 DEF Replied, Quiet, Goto, ends
<1>6. CASE CShow(c)
  BY <1>6 DEF CShow, Close, Goto, Quiet, Requested, Taken, Replied
<1>7. QED
  BY <1>1, <1>2, <1>3, <1>4, <1>5, <1>6 DEF ClientStep

\* So do those of the user, who kills the client at its prompt.
LEMMA UserPhase ==
    ASSUME NEW c, Clients = {c}, KillAnywhere = FALSE, EndsTyped, Phase(c), User(c)
    PROVE  Phase(c)'
<1>0. Around(c)
  BY Holders
<1> USE <1>0 DEF Phase, Around
<1>1. CASE Start(c)
  BY <1>1 DEF Start, Goto, ends, Quiet, Requested, Taken, Replied
<1>2. ASSUME NEW w \in Words, Type(c, w)
      PROVE  Phase(c)'
  BY <1>2 DEF Type, Goto, ends, Quiet, Requested, Taken, Replied
<1>3. CASE Kill(c)
  BY <1>3 DEF Kill, Close, Goto, Quiet, Requested, Taken, Replied
<1>4. QED
  BY <1>1, <1>2, <1>3 DEF User

\* With one client, killed at its prompt only, every dialogue goes through its
\* phases in order: for ever, however the two sides are scheduled.
THEOREM DialoguePhases ==
    ASSUME NEW d, Clients = {d}, KillAnywhere = FALSE
    PROVE  Spec => []PhaseInv(d)
<1>1. Init => PhaseInv(d)
  <2> SUFFICES ASSUME Init
               PROVE  PhaseInv(d)
    OBVIOUS
  <2>1. EndsTyped
    BY InitEnds
  <2>2. Quiet(d) /\ pc[d] = "off"
    BY <2>1, Holders DEF Init, Quiet, Around
  <2>3. QED
    BY <2>1, <2>2 DEF PhaseInv, Phase, EndsTyped
<1>2. PhaseInv(d) /\ [Next]_vars => PhaseInv(d)'
  <2> SUFFICES ASSUME PhaseInv(d), [Next]_vars
               PROVE  PhaseInv(d)'
    OBVIOUS
  <2>1. EndsTyped /\ Phase(d)
    BY DEF PhaseInv, EndsTyped
  <2>2. EndsTyped'
    BY <2>1, NextEnds
  <2>3. Phase(d)'
    <3>1. CASE UNCHANGED vars
      BY <2>1, <3>1 DEF vars, ends, Phase, Quiet, Requested, Taken, Replied
    <3>2. CASE Next
      BY <2>1, <3>2, ServerPhase, ClientPhase, UserPhase DEF Next
    <3>3. QED
      BY <3>1, <3>2
  <2>4. QED
    BY <2>2, <2>3 DEF PhaseInv, EndsTyped
<1>3. QED
  BY <1>1, <1>2, PTL DEF Spec

\* Whoever reads gets one whole message, and the one meant for him.
THEOREM MessagesAreWhole ==
    ASSUME NEW d, Clients = {d}, KillAnywhere = FALSE
    PROVE  Spec => []WholeMessages
<1>1. PhaseInv(d) => WholeMessages
  <2> SUFFICES ASSUME PhaseInv(d)
               PROVE  WholeMessages
    OBVIOUS
  <2>1. Around(d)
    BY Holders DEF PhaseInv, EndsTyped
  <2>2. pc[Server] = "read" /\ Server \notin asleep /\ (fifo # <<>> \/ writers = {})
          => fifo = WordMsg(word[d])
    BY <2>1 DEF PhaseInv, Phase, Quiet, Requested, Taken, Replied, Around
  <2>3. pc[d] = "read" /\ d \notin asleep /\ (fifo # <<>> \/ writers = {})
          => fifo = AnswerMsg(Length[word[d]])
    BY <2>1 DEF PhaseInv, Phase, Quiet, Requested, Taken, Replied, Around
  <2>4. QED
    BY <2>1, <2>2, <2>3 DEF WholeMessages, Around
<1>2. QED
  BY <1>1, DialoguePhases, PTL

\* No close throws a message away.
THEOREM NothingIsDiscarded ==
    ASSUME NEW d, Clients = {d}, KillAnywhere = FALSE
    PROVE  Spec => NothingDiscarded
<1>1. ASSUME PhaseInv(d), [Next]_vars, fifo # <<>>, fifo' = <<>>
      PROVE  pc[Server] = "read" \/ \E c \in Clients : pc[c] = "read"
  BY <1>1 DEF PhaseInv, Phase, Quiet, Requested, Taken, Replied
<1>2. PhaseInv(d) /\ [Next]_vars =>
        [fifo # <<>> /\ fifo' = <<>> =>
           pc[Server] = "read" \/ \E c \in Clients : pc[c] = "read"]_vars
  BY <1>1
<1>3. Spec => []PhaseInv(d)
  BY DialoguePhases
<1>4. Spec => [][Next]_vars
  BY PTL DEF Spec
<1>5. QED
  BY <1>2, <1>3, <1>4, PTL DEF NothingDiscarded

\* Each answer shown is the one to the word typed: what two clients at once, or
\* a client killed in its dialogue, can break.
THEOREM OneClientOwnReply ==
    ASSUME NEW d, Clients = {d}, KillAnywhere = FALSE
    PROVE  Spec => []OwnReply
<1>1. PhaseInv(d) => OwnReply
  BY DEF PhaseInv, Phase, OwnReply
<1>2. QED
  BY <1>1, DialoguePhases, PTL

\* SIGPIPE never ends the server.
THEOREM ServerSurvives ==
    ASSUME NEW d, Clients = {d}, KillAnywhere = FALSE
    PROVE  Spec => []ServerGoesOn
<1>1. PhaseInv(d) => ServerGoesOn
  BY DEF PhaseInv, Phase, Quiet, Requested, Taken, Replied, ServerGoesOn
<1>2. QED
  BY <1>1, DialoguePhases, PTL
-----------------------------------------------------------------------------
(***************************************************************************)
(* One client, killed anywhere.                                            *)
(***************************************************************************)
Busy == {"write", "closeW", "openR", "read", "show"}

\* A dialogue that met a waiting server begins in its first phase.
LEMMA FreshBegins ==
    ASSUME NEW d, Clients = {d}, EndsTyped, COpenWrite(d), ServerIdle
    PROVE  Phase(d)'
<1>1. Around(d)
  BY Holders
<1>2. /\ pc[d] = "openW" /\ OpenWrite(d) /\ Goto(d, "write")
      /\ UNCHANGED <<buffer, word, n>>
  BY DEF COpenWrite
<1>3. Quiet(d)'
  <2>1. CASE pc[Server] = "openR"
    BY <1>1, <1>2, <2>1 DEF ServerIdle, OpenWrite, Goto, Quiet, Around
  <2>2. CASE pc[Server] = "read" /\ Server \in asleep
    BY <1>1, <1>2, <2>2 DEF ServerIdle, OpenWrite, Goto, Quiet, Around
  <2>3. QED
    BY <2>1, <2>2 DEF ServerIdle
<1>4. QED
  BY <1>1, <1>2, <1>3 DEF Phase, Goto, Around

\* Every step keeps FreshInv: a kill ends the dialogue it is about.
LEMMA FreshKept ==
    ASSUME NEW d, Clients = {d}, FreshInv(d), [Next]_vars
    PROVE  FreshInv(d)'
<1>1. EndsTyped /\ Around(d)
  BY Holders DEF FreshInv, EndsTyped
<1>2. EndsTyped'
  BY <1>1, NextEnds
<1>3. SUFFICES ASSUME d \in fresh', pc'[d] \in Busy
               PROVE  Phase(d)'
  BY <1>2 DEF FreshInv, EndsTyped, Busy
<1>4. CASE UNCHANGED vars
  BY <1>3, <1>4 DEF FreshInv, Busy, vars, ends, Phase, Quiet, Requested, Taken, Replied
<1>5. CASE ServerStep
  <2>1. fresh' = fresh
    BY <1>5 DEF ServerStep, SOpenRead, SRead, SCloseRead, SOpenWrite, SWrite, SCloseWrite
  <2>2. pc'[d] = pc[d]
    BY <1>1, <1>5 DEF ServerStep, SOpenRead, SRead, SCloseRead, SOpenWrite, SWrite, SCloseWrite,
                      Write, Goto, Around
  <2>3. QED
    BY <1>1, <1>3, <1>5, <2>1, <2>2, ServerPhase DEF FreshInv, Busy
<1>6. CASE COpenWrite(d)
  <2>1. ServerIdle
    BY <1>3, <1>6 DEF COpenWrite
  <2>2. QED
    BY <1>1, <1>6, <2>1, FreshBegins
<1>7. CASE ClientStep(d) /\ ~COpenWrite(d)
  <2>1. fresh' = fresh /\ pc[d] \in Busy
    BY <1>7 DEF ClientStep, CWrite, CCloseWrite, COpenRead, CRead, CShow, Busy
  <2>2. QED
    BY <1>1, <1>3, <1>7, <2>1, ClientPhase DEF FreshInv, Busy
<1>8. CASE User(d)
  <2>1. pc'[d] \in {"off", "prompt", "openW"}
    BY <1>1, <1>8 DEF User, Start, Kill, Type, Goto, Around
  <2>2. QED
    BY <1>3, <2>1 DEF Busy
<1>9. QED
  BY <1>4, <1>5, <1>6, <1>7, <1>8 DEF Next

\* However many clients were killed in their dialogues, one after the other, the
\* next whose request meets a waiting server gets the answer to its own word.
THEOREM FreshReplyAlways ==
    ASSUME NEW d, Clients = {d}
    PROVE  Spec => []FreshReply
<1>1. Init => FreshInv(d)
  BY InitEnds DEF Init, FreshInv, EndsTyped
<1>2. FreshInv(d) /\ [Next]_vars => FreshInv(d)'
  BY FreshKept
<1>3. FreshInv(d) => FreshReply
  <2>1. FreshInv(d) => fresh \subseteq {d}
    BY DEF FreshInv, TypeOK
  <2>2. FreshInv(d) /\ d \in fresh /\ pc[d] = "show" => n[d] = Length[word[d]]
    BY DEF FreshInv, Phase
  <2>3. QED
    BY <2>1, <2>2 DEF FreshReply
<1>4. QED
  BY <1>1, <1>2, <1>3, PTL DEF Spec
-----------------------------------------------------------------------------
(***************************************************************************)
(* The abstract service.                                                   *)
(***************************************************************************)
\* What RequestReply's variables stand for.
Requests == [c \in Clients |-> IF Asked(c) THEN <<word[c]>> ELSE <<>>]
Replies  == [c \in Clients |-> IF ~Answered(c) THEN <<>>
                               ELSE IF pc[c] = "show" THEN <<n[c]>>
                               ELSE <<fifo[1].n>>]

\* The client has its answer from the write of the server to its own close.
HasReply(c) == Replied(c) \/ pc[c] = "show"

\* In every phase the answer under way is the right one.
LEMMA RepliesAre ==
    ASSUME NEW d, Clients = {d}, PhaseInv(d)
    PROVE  /\ Replies = [c \in {d} |-> IF HasReply(d) THEN <<Length[word[d]]>> ELSE <<>>]
           /\ HasReply(d) => Asked(d)
<1> USE DEF PhaseInv, Phase
<1>1. Around(d)
  BY Holders DEF EndsTyped
<1>2. Replies = [c \in {d} |-> Replies[d]]
  BY DEF Replies
<1>3. Replies[d] = IF ~Answered(d) THEN <<>>
                   ELSE IF pc[d] = "show" THEN <<n[d]>> ELSE <<fifo[1].n>>
  BY DEF Replies
<1>4. CASE Quiet(d)
  BY <1>2, <1>3, <1>4 DEF Quiet, Answered, Asked, HasReply, Replied
<1>5. CASE Taken(d)
  BY <1>1, <1>2, <1>3, <1>5, AnswerIsMessage DEF Taken, Answered, HasReply, Replied, Around
<1>6. CASE Requested(d)
  <2>1. fifo # <<>> /\ "n" \notin DOMAIN fifo[1]
    BY <1>1, <1>6, WordIsMessage DEF Requested, Around
  <2>2. ~Answered(d) /\ ~HasReply(d)
    <3>1. ~Replied(d)
      BY <1>1, <2>1, AnswerIsMessage DEF Replied, Around
    <3>2. QED
      BY <1>6, <2>1, <3>1 DEF Requested, Answered, HasReply
  <2>3. QED
    BY <1>2, <1>3, <2>2
<1>7. CASE Replied(d)
  <2>1. fifo # <<>> /\ "n" \in DOMAIN fifo[1] /\ fifo[1].n = Length[word[d]]
    BY <1>1, <1>7, AnswerIsMessage DEF Replied, Around
  <2>2. Answered(d) /\ pc[d] # "show" /\ HasReply(d) /\ Asked(d)
    BY <1>7, <2>1 DEF Replied, Answered, Asked, HasReply
  <2>3. QED
    BY <1>2, <1>3, <2>1, <2>2
<1>8. QED
  BY <1>4, <1>5, <1>6, <1>7

\* The same in the next state.
LEMMA RepliesAreNext ==
    ASSUME NEW d, Clients = {d}
    PROVE  (PhaseInv(d) =>
              Replies = [c \in {d} |-> IF HasReply(d) THEN <<Length[word[d]]>> ELSE <<>>])'
<1>1. PhaseInv(d) =>
        Replies = [c \in {d} |-> IF HasReply(d) THEN <<Length[word[d]]>> ELSE <<>>]
  BY RepliesAre
<1>2. QED
  BY <1>1, PTL

\* The steps of the server: its write answers, the others are not seen.
LEMMA ServerRefines ==
    ASSUME NEW d, Clients = {d}, PhaseInv(d), PhaseInv(d)', ServerStep
    PROVE  [Service!Next]_Service!rrVars
<1>1. Around(d) /\ EndsTyped
  BY Holders DEF PhaseInv, EndsTyped
<1>2. Requests' = Requests /\ word' = word
  <2>1. pc'[d] = pc[d] /\ word' = word
    BY <1>1 DEF ServerStep, SOpenRead, SRead, SCloseRead, SOpenWrite, SWrite, SCloseWrite,
                Write, Goto, Around
  <2>2. QED
    BY <2>1 DEF Requests, Asked
<1>3. /\ Replies = [c \in {d} |-> IF HasReply(d) THEN <<Length[word[d]]>> ELSE <<>>]
      /\ Replies' = [c \in {d} |-> IF HasReply(d)' THEN <<Length[word'[d]]>> ELSE <<>>]
  BY RepliesAre, RepliesAreNext
<1>4. CASE SWrite
  <2>1. ~HasReply(d) /\ Asked(d)
    BY <1>1, <1>4 DEF SWrite, Write, HasReply, PhaseInv, Phase, Quiet, Requested, Taken,
                      Replied, Asked, Around
  <2>2. HasReply(d)'
    BY <1>1, <1>4, <2>1 DEF SWrite, Write, Close, Goto, HasReply, PhaseInv, Phase, Quiet,
                            Requested, Taken, Replied, Around
  <2>3. Service!Answer(d)
    <3>1. /\ Requests[d] = <<word[d]>> /\ Replies[d] = <<>>
          /\ Replies' = [Replies EXCEPT ![d] = <<Length[Head(Requests[d])]>>]
      <4>1. Requests[d] = <<word[d]>>
        BY <2>1 DEF Requests
      <4>2. Head(Requests[d]) = word[d]
        BY <4>1
      <4>3. QED
        BY <1>2, <1>3, <2>1, <2>2, <4>1, <4>2
    <3>2. QED
      BY <1>2, <3>1 DEF Service!Answer, Requests, Replies
  <2>4. QED
    BY <2>3 DEF Service!Next
<1>5. CASE ~SWrite
  <2>1. HasReply(d)' <=> HasReply(d)
    BY <1>1, <1>5, <1>2 DEF ServerStep, SOpenRead, SRead, SCloseRead, SOpenWrite, SCloseWrite,
            OpenRead, OpenWrite, Close, Read, Goto, ends, HasReply, PhaseInv, Phase, Quiet,
            Requested, Taken, Replied, Around
  <2>2. Replies' = Replies
    BY <1>2, <1>3, <2>1
  <2>3. QED
    BY <1>2, <2>2 DEF Service!rrVars, Requests, Replies
<1>6. QED
  BY <1>4, <1>5
\* The steps of the client: its write asks, its close at the end receives.
LEMMA ClientRefines ==
    ASSUME NEW d, Clients = {d}, PhaseInv(d), PhaseInv(d)', ClientStep(d)
    PROVE  [Service!Next]_Service!rrVars
<1>1. Around(d) /\ EndsTyped
  BY Holders DEF PhaseInv, EndsTyped
<1>2. word' = word
  BY DEF ClientStep, COpenWrite, CWrite, CCloseWrite, COpenRead, CRead, CShow
<1>3. /\ Replies = [c \in {d} |-> IF HasReply(d) THEN <<Length[word[d]]>> ELSE <<>>]
      /\ Replies' = [c \in {d} |-> IF HasReply(d)' THEN <<Length[word'[d]]>> ELSE <<>>]
  BY RepliesAre, RepliesAreNext
<1>4. /\ Requests = [c \in {d} |-> IF Asked(d) THEN <<word[d]>> ELSE <<>>]
      /\ Requests' = [c \in {d} |-> IF Asked(d)' THEN <<word'[d]>> ELSE <<>>]
  BY DEF Requests
<1>5. CASE CWrite(d)
  <2>1. pc[d] = "write" /\ d \notin asleep
    BY <1>5 DEF CWrite, Write
  <2>2. Quiet(d) /\ readers # {}
    BY <1>1, <2>1 DEF PhaseInv, Phase, Quiet, Requested, Taken, Replied, Around
  <2>3. pc'[d] = "closeW"
    BY <1>1, <1>5, <2>2 DEF CWrite, Write, Goto, Around
  <2>4. ~Asked(d) /\ Asked(d)' /\ ~HasReply(d) /\ ~HasReply(d)'
    BY <2>1, <2>3 DEF Asked, HasReply, Replied
  <2>5. /\ Requests[d] = <<>> /\ Replies' = Replies
        /\ Requests' = [Requests EXCEPT ![d] = <<word[d]>>]
    BY <1>2, <1>3, <1>4, <2>4
  <2>6. word[d] \in Words
    BY <1>1 DEF Around
  <2>7. \E w \in Words : Service!Ask(d, w)
    BY <2>5, <2>6 DEF Service!Ask, Requests, Replies
  <2>8. QED
    BY <2>7 DEF Service!Next
<1>6. CASE CShow(d)
  <2>1. pc[d] = "show" /\ pc'[d] = "prompt"
    BY <1>1, <1>6 DEF CShow, Goto, Around
  <2>2. HasReply(d) /\ Asked(d) /\ ~Asked(d)' /\ ~HasReply(d)'
    BY <2>1 DEF HasReply, Asked, Replied
  <2>3. /\ Replies[d] # <<>>
        /\ Requests' = [Requests EXCEPT ![d] = <<>>]
        /\ Replies' = [Replies EXCEPT ![d] = <<>>]
    BY <1>3, <1>4, <2>2
  <2>4. Service!Receive(d)
    BY <2>3 DEF Service!Receive, Requests, Replies
  <2>5. QED
    BY <2>4 DEF Service!Next
<1>7. CASE ~CWrite(d) /\ ~CShow(d)
  <2>1. (HasReply(d)' <=> HasReply(d)) /\ (Asked(d)' <=> Asked(d))
    <3>1. CASE CRead(d)
      <4>1. pc[d] = "read" /\ pc'[d] = "show" /\ d \notin asleep /\ (fifo # <<>> \/ writers = {})
        BY <1>1, <3>1 DEF CRead, Read, Goto, Around
      <4>2. Replied(d)
        BY <1>1, <4>1 DEF PhaseInv, Phase, Quiet, Requested, Taken, Replied, Around
      <4>3. QED
        BY <4>1, <4>2 DEF HasReply, Asked
    <3>2. CASE COpenRead(d)
      <4>1. pc[d] = "openR" /\ pc'[d] = "read" /\ fifo' = fifo /\ word' = word
        BY <1>1, <1>2, <3>2 DEF COpenRead, OpenRead, Goto, Around
      <4>2. fifo # AnswerMsg(Length[word[d]])
        <5>1. CASE Requested(d)
          BY <1>1, <5>1, WordIsMessage, AnswerIsMessage DEF Requested, Around
        <5>2. CASE Taken(d)
          BY <1>1, <5>2, AnswerIsMessage DEF Taken, Around
        <5>3. QED
          BY <4>1, <5>1, <5>2 DEF PhaseInv, Phase, Quiet, Replied
      <4>3. QED
        BY <4>1, <4>2 DEF HasReply, Asked, Replied
    <3>3. CASE COpenWrite(d) \/ CCloseWrite(d)
      BY <1>1, <3>3 DEF COpenWrite, CCloseWrite, Goto, HasReply, Asked, Replied, Around
    <3>4. QED
      BY <1>7, <3>1, <3>2, <3>3 DEF ClientStep
  <2>2. Requests' = Requests /\ Replies' = Replies
    BY <1>2, <1>3, <1>4, <2>1
  <2>3. QED
    BY <2>2 DEF Service!rrVars, Requests, Replies
<1>8. QED
  BY <1>5, <1>6, <1>7

\* What the user does is not seen: nothing is asked before the client writes.
LEMMA UserRefines ==
    ASSUME NEW d, Clients = {d}, KillAnywhere = FALSE, PhaseInv(d), PhaseInv(d)', User(d)
    PROVE  [Service!Next]_Service!rrVars
<1>1. Around(d) /\ EndsTyped
  BY Holders DEF PhaseInv, EndsTyped
<1>2. /\ Replies = [c \in {d} |-> IF HasReply(d) THEN <<Length[word[d]]>> ELSE <<>>]
      /\ Replies' = [c \in {d} |-> IF HasReply(d)' THEN <<Length[word'[d]]>> ELSE <<>>]
  BY RepliesAre, RepliesAreNext
<1>3. /\ Requests = [c \in {d} |-> IF Asked(d) THEN <<word[d]>> ELSE <<>>]
      /\ Requests' = [c \in {d} |-> IF Asked(d)' THEN <<word'[d]>> ELSE <<>>]
  BY DEF Requests
<1>4. pc[d] \in {"off", "dead", "prompt"} /\ pc'[d] \in {"off", "prompt", "openW"}
  BY <1>1 DEF User, Start, Kill, Type, Goto, Around
<1>5. ~HasReply(d) /\ ~HasReply(d)' /\ ~Asked(d) /\ ~Asked(d)'
  BY <1>4 DEF HasReply, Replied, Asked
<1>6. Requests' = Requests /\ Replies' = Replies
  BY <1>2, <1>3, <1>5
<1>7. QED
  BY <1>6 DEF Service!rrVars, Requests, Replies

\* With one client, killed at its prompt only, the server behind its FIFO is the
\* abstract service: one answer to each word, the right one, before the next.
THEOREM ImplementsServiceAlways ==
    ASSUME NEW d, Clients = {d}, KillAnywhere = FALSE
    PROVE  Spec => ImplementsService
<1>1. Init => Service!Init
  BY ServerAssumption DEF Init, Service!Init, Asked, Answered, Process
<1>2. ASSUME PhaseInv(d), PhaseInv(d)', [Next]_vars
      PROVE  [Service!Next]_Service!rrVars
  <2>1. CASE UNCHANGED vars
    BY <2>1 DEF vars, Service!rrVars, Asked, Answered
  <2>2. CASE Next
    BY <1>2, <2>2, ServerRefines, ClientRefines, UserRefines DEF Next
  <2>3. QED
    BY <1>2, <2>1, <2>2
<1>3. PhaseInv(d) /\ PhaseInv(d)' /\ [Next]_vars => [Service!Next]_Service!rrVars
  BY <1>2
<1>4. Spec => []PhaseInv(d)
  BY DialoguePhases
<1>5. Spec => Init /\ [][Next]_vars
  BY DEF Spec
<1>6. QED
  BY <1>1, <1>3, <1>4, <1>5, PTL DEF ImplementsService, Service!Spec
=============================================================================
