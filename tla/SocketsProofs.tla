--------------------------- MODULE SocketsProofs ---------------------------
(***************************************************************************)
(* Proofs about Sockets for any number of clients, slots and words.  The   *)
(* slots of the select server are its accepted connections, and what       *)
(* select found readable is still readable when its turn comes.  On a      *)
(* network that keeps words whole every answer is that of the last word,   *)
(* and no client takes the server down.                                    *)
(***************************************************************************)
EXTENDS Sockets, SequenceTheorems, WellFoundedInduction, TLAPS

\* The types SlotTable rests on.
Typed ==
    /\ server \in {"select", "single"}
    /\ mpc \in {"off", "select", "accept", "serve", "killed", "stopped"}
    /\ slots \in [Slots -> Clients \cup {Free}] /\ ready \subseteq Slots
    /\ backlog \in Seq(Clients)
    /\ cpc \in [Clients -> {"off", "prompt", "recv", "close", "dead"}]
    /\ cend \in [Clients -> {"none", "refused", "open", "closed"}]
    /\ send \in [Clients -> {"none", "open", "closed"}]
    /\ up \in [Clients -> Seq(STRING)]
    /\ hit \in [Clients -> BOOLEAN]

\* A connection waits in the backlog once, and only until it is accepted.
BacklogOK ==
    /\ \A j \in 1..Len(backlog) : send[backlog[j]] = "none"
    /\ \A j, k \in 1..Len(backlog) : backlog[j] = backlog[k] => j = k

\* A client that was not started has no connection.
OffOK ==
    \A c \in Clients : cpc[c] = "off" =>
        /\ cend[c] = "none" /\ send[c] = "none"
        /\ \A j \in 1..Len(backlog) : backlog[j] # c

\* The select server runs only when it was chosen, and starts with nothing.
ModeOK ==
    /\ server = "single" => mpc = "off"
    /\ server = "select" /\ mpc = "off" =>
         /\ ready = {}
         /\ \A i \in Slots : slots[i] = Free
         /\ \A c \in Clients : send[c] # "open"

SlotInv == Typed /\ BacklogOK /\ OffOK /\ ModeOK /\ SlotTable

\* The least of some natural numbers is one of them.
LEMMA MinIn == ASSUME NEW S, S \subseteq Nat, S # {} PROVE Min(S) \in S
<1>1. ASSUME NEW x \in Nat, NEW y \in Nat, y < x PROVE <<y, x>> \in OpToRel(<, Nat)
  BY <1>1, Zenon DEF OpToRel
<1>2. PICK x \in S : \A y \in S : ~ (<<y, x>> \in OpToRel(<, Nat))
  BY NatLessThanWellFounded, WFMin
<1>3. \A y \in S : ~ (y < x)
  BY <1>1, <1>2, Zenon
<1>4. \A y \in S : x <= y
  BY <1>3
<1> QED
  BY <1>4 DEF Min

\* The slot whose turn it is was found readable.
LEMMA TurnReady == ASSUME Typed, ready # {} PROVE Turn \in ready
<1>1. ready \subseteq Nat
  BY CMaxAssumption DEF Typed, Slots
<1> QED
  BY <1>1, MinIn DEF Turn

\* The slot a connection is accepted into is free.
LEMMA FirstFree ==
    ASSUME Typed, {i \in Slots : slots[i] = Free} # {}
    PROVE  Min({i \in Slots : slots[i] = Free}) \in {i \in Slots : slots[i] = Free}
<1> DEFINE free == {i \in Slots : slots[i] = Free}
<1>1. free \subseteq Nat
  BY CMaxAssumption DEF Slots
<1> HIDE DEF free
<1>2. free # {} => Min(free) \in free
  BY <1>1, MinIn
<1> QED
  BY <1>2 DEF free

\* Every word is a sequence of units.
LEMMA WordsAreSeqs == Words \subseteq Seq(STRING)
<1>1. ASSUME NEW u \in Units
      PROVE  <<u>> \in Seq(STRING) /\ <<u, u>> \in Seq(STRING) /\ <<u, u, u>> \in Seq(STRING)
  BY ExitAssumption
<1>2. <<>> \in Seq(STRING) /\ Exit \in Seq(STRING)
  BY ExitAssumption, EmptySeq
<1> QED
  BY <1>1, <1>2 DEF Words

\* What recv leaves is a sequence of units.
LEMMA RestIsSeq ==
    ASSUME NEW q \in Seq(STRING), NEW part \in Parts(q) PROVE Rest(q, part) \in Seq(STRING)
<1>1. Len(part) \in Nat
  BY SubSeqProperties DEF Parts
<1> QED
  BY <1>1, SubSeqProperties DEF Rest

\* Words sent to a connection leave it readable.
LEMMA MoreIsReadable ==
    ASSUME NEW q \in Seq(STRING), NEW w \in Seq(STRING)
    PROVE  q \o w \in Seq(STRING) /\ (q # <<>> => q \o w # <<>>)
BY ConcatProperties, ConcatEqualIffEmpty

\* The invariant holds at the start.
LEMMA InitSlotInv == ASSUME Init PROVE SlotInv
<1> USE DEF Init, TcpInit, ClientInit, SelectInit, SingleInit
<1>1. Typed
  BY EmptySeq DEF Typed
<1>2. BacklogOK /\ OffOK /\ ModeOK
  BY DEF BacklogOK, OffOK, ModeOK
<1>3. SlotTable
  BY DEF SlotTable, SelectRunning
<1> QED
  BY <1>1, <1>2, <1>3 DEF SlotInv

\* The steps of the clients keep it: they only add to what can be read.
LEMMA ClientKeeps ==
    ASSUME SlotInv, OfClient, NEW c \in Clients,
           \/ Connect(c) \/ RecvAnswer(c) \/ RecvEnd(c) \/ CloseSocket(c) \/ KillClient(c)
           \/ \E w \in Words : SendWord(c, w)
    PROVE  SlotInv'
<1> USE DEF SlotInv, OfClient, selectVars, singleVars
<1>1. CASE Connect(c) /\ listening
  <2>1. /\ cpc[c] = "off" /\ cpc' = [cpc EXCEPT ![c] = "prompt"]
        /\ cend' = [cend EXCEPT ![c] = "open"] /\ backlog' = Append(backlog, c)
        /\ UNCHANGED <<send, up, hit>>
    BY <1>1 DEF Connect
  <2>2. /\ backlog' \in Seq(Clients) /\ backlog' # <<>> /\ Len(backlog') = Len(backlog) + 1
        /\ \A j \in 1..Len(backlog) : backlog'[j] = backlog[j]
        /\ backlog'[Len(backlog) + 1] = c /\ Len(backlog) \in Nat
    BY <2>1, AppendProperties, LenProperties DEF Typed
  <2>3. Typed'
    BY <2>1, <2>2 DEF Typed
  <2>4. BacklogOK'
    BY <2>1, <2>2 DEF BacklogOK, OffOK, Typed
  <2>5. OffOK'
    BY <2>1, <2>2 DEF OffOK, Typed
  <2>6. ModeOK'
    BY <2>1 DEF ModeOK
  <2>7. SlotTable'
    BY <2>1, <2>2 DEF SlotTable, SelectRunning, Readable, OffOK, Typed
  <2> QED
    BY <2>3, <2>4, <2>5, <2>6, <2>7
<1>2. CASE Connect(c) /\ ~listening
  <2>1. /\ cpc[c] = "off" /\ cpc' = [cpc EXCEPT ![c] = "prompt"]
        /\ cend' = [cend EXCEPT ![c] = "refused"]
        /\ UNCHANGED <<send, up, hit, backlog>>
    BY <1>2 DEF Connect
  <2>2. Typed' /\ BacklogOK' /\ OffOK' /\ ModeOK'
    BY <2>1 DEF Typed, BacklogOK, OffOK, ModeOK
  <2>3. SlotTable'
    BY <2>1 DEF SlotTable, SelectRunning, Readable, OffOK, Typed
  <2> QED
    BY <2>2, <2>3
<1>3. CASE RecvAnswer(c)
  <2>1. cpc[c] = "recv" /\ cpc' = [cpc EXCEPT ![c] = "prompt"] /\ UNCHANGED <<cend, send, up, hit, backlog>>
    BY <1>3 DEF RecvAnswer
  <2> QED
    BY <2>1 DEF Typed, BacklogOK, OffOK, ModeOK, SlotTable, SelectRunning, Readable
<1>4. CASE RecvEnd(c) \/ CloseSocket(c) \/ KillClient(c)
  <2>1. /\ cpc' = [cpc EXCEPT ![c] = "dead"]
        /\ cend' = [cend EXCEPT ![c] = IF @ = "open" THEN "closed" ELSE @]
        /\ UNCHANGED <<send, up, hit, backlog>>
    BY <1>4 DEF RecvEnd, CloseSocket, KillClient, Hangup
  <2>2. Typed' /\ BacklogOK' /\ OffOK' /\ ModeOK'
    BY <2>1 DEF Typed, BacklogOK, OffOK, ModeOK
  <2>3. \A x \in Clients : Readable(x) => Readable(x)'
    BY <2>1 DEF Readable, Typed
  <2>4. SlotTable'
    BY <2>1, <2>3 DEF SlotTable, SelectRunning, Typed
  <2> QED
    BY <2>2, <2>4
<1>5. ASSUME NEW w \in Words, SendWord(c, w) PROVE SlotInv'
  <2>1. /\ cpc[c] = "prompt" /\ cpc' \in [Clients -> {"off", "prompt", "recv", "close", "dead"}]
        /\ cpc'[c] # "off" /\ \A x \in Clients \ {c} : cpc'[x] = cpc[x]
        /\ up' = [up EXCEPT ![c] = IF cend[c] = "open" /\ send[c] # "closed" /\ myfd[c]
                                   THEN @ \o w ELSE @]
        /\ UNCHANGED <<cend, send, hit, backlog>>
    BY <1>5 DEF SendWord, Typed
  <2>2. up[c] \o w \in Seq(STRING) /\ (up[c] # <<>> => up[c] \o w # <<>>)
    BY WordsAreSeqs, MoreIsReadable DEF Typed
  <2>3. Typed'
    BY <2>1, <2>2 DEF Typed
  <2>6. BacklogOK' /\ ModeOK'
    BY <2>1 DEF BacklogOK, ModeOK
  <2>7. OffOK'
    BY <2>1 DEF OffOK
  <2>4. \A x \in Clients : Readable(x) => Readable(x)'
    BY <2>1, <2>2 DEF Readable, Typed
  <2>5. SlotTable'
    BY <2>1, <2>4 DEF SlotTable, SelectRunning, Typed
  <2> QED
    BY <2>3, <2>5, <2>6, <2>7
<1> QED
  BY <1>1, <1>2, <1>3, <1>4, <1>5

\* A process that ends leaves nothing that SlotTable speaks of.
LEMMA GoneKeeps ==
    ASSUME SlotInv, ServerGone, UNCHANGED <<cpc, server>>,
           \/ server = "select" /\ TableGone /\ mpc' \in {"killed", "stopped"}
           \/ server = "single" /\ UNCHANGED selectVars
    PROVE  SlotInv'
<1> USE DEF SlotInv, ServerGone, TableGone, selectVars
<1>1. Typed'
  BY EmptySeq DEF Typed
<1>2. BacklogOK'
  BY DEF BacklogOK
<1>3. OffOK'
  BY DEF OffOK, Typed
<1>4. ModeOK' /\ ~ SelectRunning'
  BY DEF ModeOK, Typed, SelectRunning
<1> QED
  BY <1>1, <1>2, <1>3, <1>4 DEF SlotTable

\* The first connection of the backlog is accepted: what accept does to the
\* backlog and to the ends of the connections, in either server.
LEMMA BacklogKeeps ==
    ASSUME SlotInv, backlog # <<>>, backlog' = Tail(backlog),
           send' = [send EXCEPT ![Head(backlog)] = "open"], UNCHANGED <<cpc, cend>>
    PROVE  /\ Head(backlog) \in Clients /\ send[Head(backlog)] = "none"
           /\ backlog' \in Seq(Clients) /\ BacklogOK' /\ OffOK'
<1> USE DEF SlotInv
<1>1. /\ Head(backlog) = backlog[1] /\ Len(backlog) \in Nat /\ Len(backlog) >= 1
      /\ Head(backlog) \in Clients
  BY HeadTailProperties, EmptySeq, LenProperties DEF Typed
<1>2. /\ backlog' \in Seq(Clients) /\ Len(backlog') = Len(backlog) - 1
      /\ \A j \in 1..Len(backlog') : backlog'[j] = backlog[j + 1]
  BY HeadTailProperties DEF Typed
<1>3. send[Head(backlog)] = "none"
  BY <1>1 DEF BacklogOK
<1>4. \A j \in 1..Len(backlog') : backlog'[j] # Head(backlog) /\ backlog'[j] \in Clients
  BY <1>1, <1>2, ElementOfSeq DEF BacklogOK
<1>5. BacklogOK'
  BY <1>1, <1>2, <1>4 DEF BacklogOK, Typed
<1>6. OffOK'
  BY <1>1, <1>2 DEF OffOK, Typed
<1> QED
  BY <1>1, <1>2, <1>3, <1>5, <1>6

\* Up to listen and select.
LEMMA SelectKeeps ==
    ASSUME SlotInv, OfSelect, SelectListen \/ Select PROVE SlotInv'
<1> USE DEF SlotInv, OfSelect, clientVars, tcpVars
<1>1. CASE SelectListen
  <2>1. /\ mpc = "off" /\ mpc' \in {"select", "stopped"}
        /\ UNCHANGED <<slots, ready, backlog, cend, send, up, hit, cpc, server>>
    BY <1>1 DEF SelectListen
  <2>2. Typed' /\ BacklogOK' /\ OffOK'
    BY <2>1 DEF Typed, BacklogOK, OffOK
  <2>3. ModeOK' /\ SlotTable'
    BY <2>1, FreeAssumption DEF ModeOK, SlotTable, SelectRunning, Typed
  <2> QED
    BY <2>2, <2>3
<1>2. CASE Select
  <2>1. /\ mpc = "select" /\ ready' = ReadySlots
        /\ mpc' = IF backlog # <<>> THEN "accept" ELSE "serve"
        /\ backlog # <<>> \/ ReadySlots # {}
        /\ UNCHANGED <<slots, backlog, cend, send, up, hit, cpc, server>>
    BY <1>2 DEF Select
  <2>2. Typed' /\ BacklogOK' /\ OffOK'
    BY <2>1 DEF Typed, BacklogOK, OffOK, ReadySlots
  <2>3. ModeOK'
    BY <2>1 DEF ModeOK
  <2>4. SlotTable'
    BY <2>1 DEF SlotTable, SelectRunning, ReadySlots, Readable
  <2> QED
    BY <2>2, <2>3, <2>4
<1> QED
  BY <1>1, <1>2

\* accept
LEMMA AcceptKeeps == ASSUME SlotInv, OfSelect, Accept PROVE SlotInv'
<1> USE DEF SlotInv, OfSelect, clientVars
<1>1. /\ mpc = "accept" /\ backlog # <<>>
      /\ mpc' = IF ready = {} THEN "select" ELSE "serve"
      /\ UNCHANGED <<ready, cend, up, hit, cpc, server>>
  BY DEF Accept
<1>2. CASE UNCHANGED <<slots, send, backlog>>
  <2>2. Typed' /\ BacklogOK' /\ OffOK' /\ ModeOK'
    BY <1>1, <1>2 DEF Typed, BacklogOK, OffOK, ModeOK
  <2>3. SlotTable'
    BY <1>1, <1>2 DEF SlotTable, SelectRunning, Readable
  <2> QED
    BY <2>2, <2>3
<1>3. CASE ~ UNCHANGED <<slots, send, backlog>>
  <2>1. PICK i \in {i \in Slots : slots[i] = Free} : AcceptInto(i)
    BY <1>3, FirstFree DEF Accept
  <2> DEFINE c == Head(backlog)
  <2>2. /\ slots' = [slots EXCEPT ![i] = c] /\ send' = [send EXCEPT ![c] = "open"]
        /\ backlog' = Tail(backlog) /\ i \in Slots /\ slots[i] = Free
    BY <2>1 DEF AcceptInto
  <2>3. /\ c \in Clients /\ send[c] = "none"
        /\ backlog' \in Seq(Clients) /\ BacklogOK' /\ OffOK'
    BY <1>1, <2>2, BacklogKeeps
  <2> HIDE DEF c
  <2>4. Typed'
    BY <1>1, <2>2, <2>3 DEF Typed
  <2>5. ModeOK'
    BY <1>1 DEF ModeOK
  <2>6. \A j \in Slots : slots[j] # c
    BY <1>1, <2>3 DEF SlotTable, SelectRunning
  <2>7. \A j, k \in Slots : slots'[j] # Free /\ slots'[j] = slots'[k] => j = k
    BY <1>1, <2>2, <2>6 DEF SlotTable, SelectRunning, Typed
  <2>8. \A x \in Clients : send'[x] = "open" <=> \E j \in Slots : slots'[j] = x
    BY <1>1, <2>2, <2>3, FreeAssumption DEF SlotTable, SelectRunning, Typed
  <2>9. \A j \in ready : slots'[j] = slots[j] /\ slots[j] # Free /\ Readable(slots[j])
    BY <1>1, <2>2 DEF SlotTable, SelectRunning, Typed
  <2>11. \A j \in ready' : (slots[j] # Free /\ Readable(slots[j]))'
    BY <1>1, <2>9 DEF Readable
  <2>10. SlotTable'
    BY <1>1, <2>7, <2>8, <2>11 DEF SlotTable
  <2> QED
    BY <2>3, <2>4, <2>5, <2>10
<1> QED
  BY <1>2, <1>3

\* A turn of the loop over the slots: an answer that keeps the connection.
LEMMA TurnKeeps ==
    ASSUME SlotInv, mpc = "serve", Served, Turn \in ready, slots[Turn] \in Clients,
           \A x \in Clients \ {slots[Turn]} : up'[x] = up[x] /\ send'[x] = send[x],
           up' \in [Clients -> Seq(STRING)], hit' \in [Clients -> BOOLEAN],
           UNCHANGED <<backlog, cend, cpc, server>>,
           \/ slots' = slots /\ send' = send
           \/ slots' = [slots EXCEPT ![Turn] = Free]
              /\ send' = [send EXCEPT ![slots[Turn]] = "closed"]
    PROVE  SlotInv'
<1> USE DEF SlotInv, Served
<1> DEFINE c == slots[Turn]
<1>1. Turn \in Slots /\ send[c] = "open"
  BY DEF SlotTable, SelectRunning, Typed
<1>2. \A j \in Slots \ {Turn} : slots[j] # c
  BY <1>1, FreeAssumption DEF SlotTable, SelectRunning
<1>3. ready' = ready \ {Turn} /\ mpc' \in {"select", "serve"} /\ (mpc' = "serve" => ready' # {})
  OBVIOUS
<1> HIDE DEF Served
<1>4. Typed'
  BY <1>1, <1>3 DEF Typed
<1>5. BacklogOK'
  <2>1. \A j \in 1..Len(backlog) : backlog[j] # c /\ backlog[j] \in Clients
    BY <1>1, ElementOfSeq DEF BacklogOK, Typed
  <2> QED
    BY <2>1 DEF BacklogOK
<1>6. OffOK'
  BY <1>1 DEF OffOK
<1>7. ModeOK'
  BY <1>3 DEF ModeOK
<1>12. /\ \A j, k \in Slots : slots[j] # Free /\ slots[j] = slots[k] => j = k
       /\ \A j \in ready : slots[j] # Free /\ Readable(slots[j])
  BY DEF SlotTable, SelectRunning
<1>13. \A j \in Slots \ {Turn} : slots'[j] = slots[j]
  BY <1>1 DEF Typed
<1>14. slots'[Turn] \in {slots[Turn], Free}
  BY <1>1 DEF Typed
<1>8. \A j, k \in Slots : slots'[j] # Free /\ slots'[j] = slots'[k] => j = k
  BY <1>1, <1>12, <1>13, <1>14
<1>9. \A x \in Clients : send'[x] = "open" <=> \E j \in Slots : slots'[j] = x
  BY <1>1, <1>2, FreeAssumption DEF SlotTable, SelectRunning, Typed
<1>10. \A j \in ready' : (slots[j] # Free /\ Readable(slots[j]))'
  <2>1. ASSUME NEW j \in ready' PROVE slots'[j] # Free /\ up'[slots'[j]] = up[slots'[j]] /\ Readable(slots'[j])
    <3>1. j \in Slots \ {Turn} /\ j \in ready /\ slots'[j] = slots[j]
      BY <1>3, <1>13, <2>1 DEF Typed
    <3>2. slots[j] # Free /\ slots[j] # c /\ slots[j] \in Clients
      BY <3>1, <1>2, <1>12 DEF Typed
    <3> QED
      BY <3>1, <3>2, <1>12
  <2> QED
    BY <2>1 DEF Readable
<1>11. SlotTable'
  BY <1>3, <1>8, <1>9, <1>10 DEF SlotTable
<1> QED
  BY <1>4, <1>5, <1>6, <1>7, <1>11

\* recv, with the answer or the close of the connection.
LEMMA ServeKeeps == ASSUME SlotInv, OfSelect, AnswerSlot \/ DropSlot PROVE SlotInv'
<1> USE DEF SlotInv, OfSelect, clientVars
<1> DEFINE c == slots[Turn]
<1>1. mpc = "serve" /\ Served /\ UNCHANGED <<backlog, cend, cpc, server>>
  BY DEF AnswerSlot, DropSlot
<1>2. Turn \in ready /\ c \in Clients
  BY <1>1, TurnReady DEF SlotTable, SelectRunning, Typed
<1>3. CASE AnswerSlot
  <2>1. PICK part \in Parts(up[c]) :
          /\ SendDown(c, Reply(part))
          /\ IF Leaves(part) THEN FreeSlot(c)
             ELSE up' = [up EXCEPT ![c] = Rest(@, part)] /\ UNCHANGED <<slots, send>>
    BY <1>3 DEF AnswerSlot
  <2>2. hit' \in [Clients -> BOOLEAN]
    BY <2>1, <1>2 DEF SendDown, Typed
  <2>3. Rest(up[c], part) \in Seq(STRING)
    BY <1>2, RestIsSeq DEF Typed
  <2>4. up' \in [Clients -> Seq(STRING)]
    <3>1. CASE Leaves(part)
      <4>1. up' = [up EXCEPT ![c] = <<>>]
        BY <3>1, <2>1 DEF FreeSlot, CloseEnd
      <4>2. <<>> \in Seq(STRING)
        BY EmptySeq
      <4> QED
        BY <4>1, <4>2 DEF Typed
    <3>2. CASE ~ Leaves(part)
      BY <3>2, <2>1, <2>3 DEF Typed
    <3> QED
      BY <3>1, <3>2
  <2>5. \/ slots' = slots /\ send' = send
        \/ slots' = [slots EXCEPT ![Turn] = Free] /\ send' = [send EXCEPT ![c] = "closed"]
    BY <2>1 DEF FreeSlot, CloseEnd
  <2>6. \A x \in Clients \ {c} : up'[x] = up[x] /\ send'[x] = send[x]
    BY <2>1, <2>5 DEF FreeSlot, CloseEnd, Typed
  <2> QED
    BY <1>1, <1>2, <2>2, <2>4, <2>5, <2>6, TurnKeeps
<1>4. CASE DropSlot
  <2>1. FreeSlot(c) /\ hit' = [hit EXCEPT ![c] = FALSE]
    BY <1>4 DEF DropSlot
  <2>2. hit' \in [Clients -> BOOLEAN] /\ up' \in [Clients -> Seq(STRING)]
    BY <2>1, EmptySeq DEF FreeSlot, CloseEnd, Typed
  <2>3. slots' = [slots EXCEPT ![Turn] = Free] /\ send' = [send EXCEPT ![c] = "closed"]
    BY <2>1 DEF FreeSlot, CloseEnd
  <2>4. \A x \in Clients \ {c} : up'[x] = up[x] /\ send'[x] = send[x]
    BY <2>1 DEF FreeSlot, CloseEnd, Typed
  <2> QED
    BY <1>1, <1>2, <2>2, <2>3, <2>4, TurnKeeps
<1> QED
  BY <1>3, <1>4

\* The single server, with which the select server is not started.
LEMMA SingleKeeps ==
    ASSUME SlotInv, OfSingle,
           SingleListen \/ SingleAccept \/ SingleAnswer \/ SingleLost
    PROVE  SlotInv'
<1> USE DEF SlotInv, OfSingle, clientVars, selectVars, tcpVars
<1>1. UNCHANGED <<cpc, cend, server, mpc, slots, ready>> /\ ~ SelectRunning'
  BY DEF SingleListen, SingleAccept, SingleAnswer, SingleLost, SelectRunning, ModeOK
<1>2. SlotTable' /\ ModeOK'
  BY <1>1 DEF SlotTable, ModeOK
<1>3. CASE SingleListen \/ SingleLost
  <2>1. UNCHANGED <<backlog, send, up, hit>>
    BY <1>3 DEF SingleListen, SingleLost
  <2>2. Typed' /\ BacklogOK' /\ OffOK'
    BY <1>1, <2>1 DEF Typed, BacklogOK, OffOK
  <2> QED
    BY <1>2, <2>2
<1>6. CASE SingleAccept /\ UNCHANGED <<cfd, backlog, send>>
  <2>1. UNCHANGED <<backlog, send, up, hit>>
    BY <1>6 DEF SingleAccept
  <2>2. Typed' /\ BacklogOK' /\ OffOK'
    BY <1>1, <2>1 DEF Typed, BacklogOK, OffOK
  <2> QED
    BY <1>2, <2>2
<1>4. CASE SingleAccept /\ ~ UNCHANGED <<cfd, backlog, send>>
  <2>1. /\ backlog # <<>> /\ backlog' = Tail(backlog)
        /\ send' = [send EXCEPT ![Head(backlog)] = "open"] /\ UNCHANGED <<up, hit>>
    BY <1>4 DEF SingleAccept
  <2>2. Head(backlog) \in Clients /\ backlog' \in Seq(Clients) /\ BacklogOK' /\ OffOK'
    BY <1>1, <2>1, BacklogKeeps
  <2>3. Typed'
    BY <1>1, <2>1, <2>2 DEF Typed
  <2> QED
    BY <1>2, <2>2, <2>3
<1>5. CASE SingleAnswer
  <2>1. PICK part \in Parts(up[cfd]) :
          SendDown(cfd, IntBytes(Len(part), Len(part))) /\ up' = [up EXCEPT ![cfd] = Rest(@, part)]
    BY <1>5 DEF SingleAnswer
  <2>2. cfd \in Clients => Rest(up[cfd], part) \in Seq(STRING)
    BY <2>1, RestIsSeq DEF Typed
  <2>3. hit' \in [Clients -> BOOLEAN] /\ up' \in [Clients -> Seq(STRING)]
    BY <2>1, <2>2 DEF SendDown, Typed
  <2>4. UNCHANGED <<backlog, send>>
    BY <1>5 DEF SingleAnswer
  <2>5. Typed' /\ BacklogOK' /\ OffOK'
    BY <1>1, <2>3, <2>4 DEF Typed, BacklogOK, OffOK
  <2> QED
    BY <1>2, <2>5
<1> QED
  BY <1>3, <1>4, <1>5, <1>6

\* Every step keeps the invariant.
LEMMA NextSlotInv == ASSUME SlotInv, [Next]_vars PROVE SlotInv'
<1>1. CASE UNCHANGED vars
  BY <1>1 DEF vars, tcpVars, clientVars, selectVars, SlotInv, Typed, BacklogOK, OffOK, ModeOK,
     SlotTable, SelectRunning, Readable
<1>2. CASE (SelectSigpipe \/ SelectFails \/ Stop) /\ OfSelect
  <2>1. ServerGone /\ TableGone /\ server = "select" /\ mpc' \in {"killed", "stopped"}
        /\ UNCHANGED <<cpc, server>>
    BY <1>2 DEF SelectSigpipe, SelectFails, Stop, OfSelect, clientVars
  <2> QED
    BY <2>1, GoneKeeps
<1>3. CASE (SingleClose /\ OfSingle) \/ (SingleSigpipe /\ OfSingle)
  <2>1. ServerGone /\ server = "single" /\ UNCHANGED <<cpc, server, selectVars>>
    BY <1>3 DEF SingleClose, SingleSigpipe, OfSingle, clientVars
  <2> QED
    BY <2>1, GoneKeeps
<1> QED
  BY <1>1, <1>2, <1>3, ClientKeeps, SelectKeeps, AcceptKeeps, ServeKeeps, SingleKeeps DEF Next

\* server_m_sockets.c, with any number of clients and slots: each accepted
\* connection has exactly one slot, and the server never waits in accept or recv.
THEOREM SlotTableAlways == Spec => []SlotTable
<1>1. SlotInv => SlotTable
  BY DEF SlotInv
<1> QED
  BY InitSlotInv, NextSlotInv, <1>1, PTL DEF Spec
-----------------------------------------------------------------------------
\* The second invariant: where a word and its answer are when words arrive whole.

\* The types of what the words and answers are kept in.
WordsTyped ==
    /\ whole \in BOOLEAN
    /\ down \in [Clients -> Seq(Int)]
    /\ n \in [Clients -> [1..IntUnits -> Int]]
    /\ last \in [Clients -> Words]
    /\ full \in [Clients -> BOOLEAN]

\* The rest of n is written once an answer has covered all of it.
RestWritten(c) == n[c][2] = IF full[c] THEN 0 ELSE Garbage

\* What a client has in n is nothing or the length of its last word.
Shown(c) ==
    /\ RestWritten(c)
    /\ full[c] \/ n[c][1] # Garbage => n[c][1] = Len(last[c])

\* At most one word or its answer is on the way, and only while the client waits.
OnTheWay(c) ==
    /\ cpc[c] \in {"off", "prompt"} => up[c] = <<>> /\ down[c] = <<>> /\ Shown(c)
    /\ cpc[c] = "recv" =>
         /\ last[c] # Exit /\ RestWritten(c)
         /\ up[c] \in {<<>>, last[c]}
         /\ \/ down[c] = <<>>
            \/ up[c] = <<>> /\ last[c] # <<>> /\ down[c] = IntBytes(Len(last[c]), Len(last[c]))
    /\ cpc[c] = "close" => last[c] = Exit /\ up[c] \in {<<>>, Exit}

\* A client's end of its connection is that of a running client until it ends,
\* and after a send to a closed end there is nothing left to answer.
EndOf(c) ==
    /\ cpc[c] = "off" => cend[c] = "none"
    /\ cpc[c] = "prompt" => cend[c] \in {"open", "refused"}
    /\ cpc[c] \in {"recv", "close"} => cend[c] = "open"
    /\ up[c] # <<>> => cend[c] \in {"open", "closed"}
    /\ cend[c] = "closed" <=> cpc[c] = "dead" /\ cend[c] # "refused"
    /\ hit[c] => cend[c] = "closed" /\ up[c] = <<>>

Dialogue(c) == OnTheWay(c) /\ EndOf(c)

WordInv == WordsTyped /\ (whole => \A c \in Clients : Dialogue(c))

\* The length of a word that is not empty.
LEMMA WordLength ==
    ASSUME NEW w \in Words
    PROVE  Len(w) \in Nat /\ w \in Seq(STRING) /\ (w # <<>> => Len(w) >= 1)
<1>1. w \in Seq(STRING)
  BY WordsAreSeqs
<1> QED
  BY <1>1, LenProperties, EmptySeq

\* The bytes of an answer: the length first, then zeros.
LEMMA AnswerBytes ==
    ASSUME NEW k \in Nat, k >= 1
    PROVE  /\ IntBytes(k, k) \in Seq(Int) /\ Len(IntBytes(k, k)) = k
           /\ IntBytes(k, k) # <<>> /\ IntBytes(k, k)[1] = k
           /\ k >= 2 => IntBytes(k, k)[2] = 0
<1> DEFINE b(i) == IF i = 1 THEN k ELSE IF i <= IntUnits THEN 0 ELSE Garbage
<1>1. IntBytes(k, k) = [i \in 1..k |-> b(i)]
  BY DEF IntBytes
<1>2. \A i \in 1..k : b(i) \in Int
  BY DEF IntUnits, Garbage
<1>3. b(1) = k /\ b(2) = 0
  BY DEF IntUnits
<1> HIDE DEF b
<1>4. [i \in 1..k |-> b(i)] \in Seq(Int) /\ Len([i \in 1..k |-> b(i)]) = k
  BY <1>2
<1>5. 1 \in 1..k /\ (k >= 2 => 2 \in 1..k)
  OBVIOUS
<1>6. [i \in 1..k |-> b(i)] # <<>>
  BY <1>4
<1> QED
  BY <1>1, <1>3, <1>4, <1>5, <1>6

\* An answer written over n: the length, and all of n when the word was as long
\* as an int.
LEMMA AnswerOver ==
    ASSUME NEW m \in [1..IntUnits -> Int], NEW f \in BOOLEAN, m[2] = IF f THEN 0 ELSE Garbage,
           NEW k \in Nat, k >= 1
    PROVE  LET r == Overwrite(m, IntBytes(k, k)) IN
             r[1] = k /\ r[2] = IF f \/ k >= IntUnits THEN 0 ELSE Garbage
<1> DEFINE q == IntBytes(k, k)
<1>1. Len(q) = k /\ q[1] = k /\ (k >= 2 => q[2] = 0)
  BY AnswerBytes
<1> HIDE DEF q
<1>2. 1 \in 1..IntUnits /\ 2 \in 1..IntUnits /\ IntUnits = 2
  BY DEF IntUnits
<1>3. Overwrite(m, q)[1] = q[1]
  BY <1>1, <1>2 DEF Overwrite
<1>4. Overwrite(m, q)[2] = IF 2 <= k THEN q[2] ELSE m[2]
  BY <1>1, <1>2 DEF Overwrite
<1> QED
  BY <1>1, <1>2, <1>3, <1>4 DEF q

\* What recv takes when words arrive whole, and that nothing is left.
LEMMA WholePart ==
    ASSUME whole, NEW S, NEW q \in Seq(S), NEW part \in Parts(q)
    PROVE  part = q /\ q # <<>> /\ Rest(q, part) = <<>>
<1>1. part = q /\ q # <<>>
  BY DEF Parts
<1>2. Len(q) \in Nat
  OBVIOUS
<1> QED
  BY <1>1, <1>2 DEF Rest

\* The second invariant at the start.
LEMMA InitWordInv == ASSUME Init PROVE WordInv
<1> USE DEF Init, TcpInit, ClientInit
<1>1. <<>> \in Words /\ Len(<<>>) = 0 /\ <<>> \in Seq(Int) /\ Unwritten \in [1..IntUnits -> Int]
  BY EmptySeq DEF Words, Unwritten, Garbage
<1>2. WordsTyped
  BY <1>1 DEF WordsTyped
<1>3. Unwritten[1] = Garbage /\ Unwritten[2] = Garbage
  BY DEF Unwritten, IntUnits
<1>4. ASSUME NEW c \in Clients PROVE Dialogue(c)
  BY <1>3 DEF Dialogue, OnTheWay, EndOf, Shown, RestWritten
<1> QED
  BY <1>2, <1>4 DEF WordInv

\* A step that leaves a client's part of the state alone keeps its dialogue.
LEMMA OtherDialogue ==
    ASSUME NEW c, Dialogue(c), cpc'[c] = cpc[c], cend'[c] = cend[c], up'[c] = up[c],
           down'[c] = down[c], hit'[c] = hit[c], n'[c] = n[c], last'[c] = last[c],
           full'[c] = full[c]
    PROVE  Dialogue(c)'
BY DEF Dialogue, OnTheWay, EndOf, Shown, RestWritten

\* The steps of a client keep the second invariant.
LEMMA ClientWords ==
    ASSUME SlotInv, WordInv, NEW c \in Clients,
           \/ Connect(c) \/ RecvAnswer(c) \/ RecvEnd(c) \/ CloseSocket(c) \/ KillClient(c)
           \/ \E w \in Words : SendWord(c, w)
    PROVE  WordInv'
<1>0. WordsTyped /\ Typed /\ (whole => Dialogue(c))
  BY DEF WordInv, SlotInv
<1>1. ASSUME WordsTyped', whole' = whole, whole => Dialogue(c)',
             \A x \in Clients \ {c} :
                /\ cpc'[x] = cpc[x] /\ cend'[x] = cend[x] /\ up'[x] = up[x] /\ down'[x] = down[x]
                /\ hit'[x] = hit[x] /\ n'[x] = n[x] /\ last'[x] = last[x] /\ full'[x] = full[x]
      PROVE  WordInv'
  BY <1>1, OtherDialogue DEF WordInv
<1>2. CASE Connect(c)
  <2>1. /\ cpc[c] = "off" /\ cpc' = [cpc EXCEPT ![c] = "prompt"] /\ whole' = whole
        /\ cend' = [cend EXCEPT ![c] = "open"] \/ cend' = [cend EXCEPT ![c] = "refused"]
        /\ UNCHANGED <<up, down, hit, n, last, full>>
    BY <1>2 DEF Connect
  <2>2. WordsTyped'
    BY <1>0, <2>1 DEF WordsTyped
  <2>3. whole => Dialogue(c)'
    BY <1>0, <2>1 DEF Dialogue, OnTheWay, EndOf, Shown, RestWritten, Typed
  <2> QED
    BY <1>0, <1>1, <2>1, <2>2, <2>3 DEF Typed
<1>3. ASSUME NEW w \in Words, SendWord(c, w) PROVE WordInv'
  <2>1. /\ cpc[c] = "prompt" /\ whole' = whole /\ last' = [last EXCEPT ![c] = w]
        /\ cpc' = [cpc EXCEPT ![c] = IF cend[c] = "refused" THEN "dead"
                                     ELSE IF w = Exit THEN "close" ELSE "recv"]
        /\ up' = [up EXCEPT ![c] = IF cend[c] = "open" /\ send[c] # "closed" /\ myfd[c]
                                   THEN @ \o w ELSE @]
        /\ UNCHANGED <<cend, down, hit, n, full>>
    BY <1>3 DEF SendWord
  <2>2. WordsTyped'
    BY <1>0, <2>1 DEF WordsTyped
  <2>3. w \in Seq(STRING) /\ <<>> \o w = w
    BY WordsAreSeqs, ConcatEmptySeq
  <2>4. ASSUME whole PROVE Dialogue(c)'
    <3>1. up[c] = <<>> /\ down[c] = <<>> /\ RestWritten(c) /\ cend[c] \in {"open", "refused"}
      BY <1>0, <2>1, <2>4 DEF Dialogue, OnTheWay, EndOf, Shown
    <3>2. hit[c] = FALSE
      BY <1>0, <2>4, <3>1 DEF Dialogue, EndOf, Typed
    <3>3. /\ last'[c] = w /\ cend'[c] = cend[c] /\ down'[c] = <<>> /\ RestWritten(c)' /\ ~hit'[c]
          /\ cpc'[c] = IF cend[c] = "refused" THEN "dead" ELSE IF w = Exit THEN "close" ELSE "recv"
      BY <1>0, <2>1, <3>1, <3>2 DEF Typed, WordsTyped, RestWritten
    <3>4. up'[c] = <<>> \/ (cend[c] = "open" /\ up'[c] = w)
      BY <1>0, <2>1, <2>3, <3>1 DEF Typed
    <3> QED
      BY <3>1, <3>3, <3>4 DEF Dialogue, OnTheWay, EndOf
  <2> QED
    BY <1>0, <1>1, <2>1, <2>2, <2>4 DEF Typed, WordsTyped
<1>4. CASE RecvAnswer(c)
  <2>1. PICK part \in Parts(down[c]) : /\ down' = [down EXCEPT ![c] = Rest(@, part)]
                                       /\ n' = [n EXCEPT ![c] = Overwrite(@, part)]
                                       /\ full' = [full EXCEPT ![c] = @ \/ Len(part) >= IntUnits]
    BY <1>4 DEF RecvAnswer
  <2>2. /\ cpc[c] = "recv" /\ cpc' = [cpc EXCEPT ![c] = "prompt"] /\ whole' = whole
        /\ UNCHANGED <<cend, up, hit, last>>
    BY <1>4 DEF RecvAnswer
  <2>3. Rest(down[c], part) \in Seq(Int) /\ Overwrite(n[c], part) \in [1..IntUnits -> Int]
    <3>1. down[c] \in Seq(Int)
      BY <1>0 DEF WordsTyped
    <3>2. part \in Seq(Int) /\ Len(part) \in Nat
      <4>1. CASE whole
        BY <2>1, <3>1, <4>1 DEF Parts
      <4>2. CASE ~whole
        BY <2>1, <3>1, <4>2, SubSeqProperties DEF Parts
      <4> QED
        BY <4>1, <4>2
    <3>3. \A i \in 1..IntUnits : (IF i <= Len(part) THEN part[i] ELSE n[c][i]) \in Int
      BY <1>0, <3>2, ElementOfSeq DEF WordsTyped, IntUnits
    <3> QED
      BY <3>1, <3>2, <3>3, SubSeqProperties DEF Rest, Overwrite
  <2>4. WordsTyped'
    BY <1>0, <2>1, <2>2, <2>3 DEF WordsTyped
  <2>5. ASSUME whole PROVE Dialogue(c)'
    <3> DEFINE k == Len(last[c])
    <3>1. part = down[c] /\ down[c] # <<>> /\ Rest(down[c], part) = <<>>
      BY <1>0, <2>1, <2>5, WholePart DEF WordsTyped
    <3>2. /\ up[c] = <<>> /\ last[c] # <<>> /\ down[c] = IntBytes(k, k)
          /\ RestWritten(c) /\ cend[c] = "open"
      BY <1>0, <2>2, <2>5, <3>1 DEF Dialogue, OnTheWay, EndOf
    <3>3. k \in Nat /\ k >= 1
      BY <1>0, <3>2, WordLength DEF WordsTyped
    <3>4. n[c] \in [1..IntUnits -> Int] /\ n'[c] = Overwrite(n[c], IntBytes(k, k)) /\ down'[c] = <<>>
      BY <1>0, <2>1, <3>1, <3>2 DEF WordsTyped
    <3>5. /\ last'[c] = last[c] /\ up'[c] = <<>> /\ cend'[c] = "open" /\ hit'[c] = hit[c]
          /\ cpc'[c] = "prompt"
      BY <1>0, <2>2, <3>2 DEF Typed
    <3>8. Len(part) = k
      BY <3>1, <3>2, <3>3, AnswerBytes
    <3>9. full[c] \in BOOLEAN /\ full'[c] = (full[c] \/ k >= IntUnits)
      BY <1>0, <2>1, <3>8 DEF WordsTyped
    <3>10. n[c][2] = IF full[c] THEN 0 ELSE Garbage
      BY <3>2 DEF RestWritten
    <3>6. n'[c][1] = k /\ RestWritten(c)'
      <4> DEFINE r == Overwrite(n[c], IntBytes(k, k))
      <4>1. r[1] = k /\ r[2] = IF full[c] \/ k >= IntUnits THEN 0 ELSE Garbage
        <5> HIDE DEF k
        <5> QED
          BY <3>3, <3>4, <3>9, <3>10, AnswerOver
      <4>2. n'[c] = r
        BY <3>4
      <4> HIDE DEF r, k
      <4>3. n'[c][1] = k /\ n'[c][2] = IF full'[c] THEN 0 ELSE Garbage
        BY <4>1, <4>2, <3>9
      <4> QED
        BY <4>3 DEF RestWritten
    <3>7. ~hit[c]
      BY <1>0, <2>5, <3>2 DEF Dialogue, EndOf
    <3> QED
      BY <3>4, <3>5, <3>6, <3>7 DEF Dialogue, OnTheWay, EndOf, Shown
  <2> QED
    BY <1>0, <1>1, <2>1, <2>2, <2>4, <2>5 DEF Typed, WordsTyped
<1>5. CASE RecvEnd(c) \/ CloseSocket(c) \/ KillClient(c)
  <2>1. /\ cpc[c] \in {"prompt", "recv", "close"} /\ whole' = whole
        /\ cpc' = [cpc EXCEPT ![c] = "dead"]
        /\ cend' = [cend EXCEPT ![c] = IF @ = "open" THEN "closed" ELSE @]
        /\ down' = [down EXCEPT ![c] = <<>>]
        /\ n' = [n EXCEPT ![c] = Unwritten] /\ last' = [last EXCEPT ![c] = <<>>]
        /\ full' = [full EXCEPT ![c] = FALSE]
        /\ UNCHANGED <<up, hit>>
    BY <1>5 DEF RecvEnd, CloseSocket, KillClient, Hangup
  <2>2. <<>> \in Words /\ <<>> \in Seq(Int) /\ Unwritten \in [1..IntUnits -> Int]
    BY EmptySeq DEF Words, Unwritten, Garbage
  <2>3. WordsTyped'
    BY <1>0, <2>1, <2>2 DEF WordsTyped
  <2>4. ASSUME whole PROVE Dialogue(c)'
    <3>1. /\ cpc'[c] = "dead" /\ up'[c] = up[c] /\ hit'[c] = hit[c]
          /\ cend'[c] = IF cend[c] = "open" THEN "closed" ELSE cend[c]
      BY <1>0, <2>1 DEF Typed
    <3>2. OnTheWay(c)'
      BY <3>1 DEF OnTheWay
    <3>3. cend[c] \in {"open", "refused"} /\ ~hit[c] /\ (up[c] # <<>> => cend[c] = "open")
      BY <1>0, <2>1, <2>4 DEF Dialogue, EndOf
    <3>4. EndOf(c)'
      BY <3>1, <3>3 DEF EndOf
    <3> QED
      BY <3>2, <3>4 DEF Dialogue
  <2> QED
    BY <1>0, <1>1, <2>1, <2>3, <2>4 DEF Typed, WordsTyped
<1> QED
  BY <1>2, <1>3, <1>4, <1>5

\* A step that only takes units away, or forgets a send that failed.
LEMMA LessWords ==
    ASSUME WordInv, UNCHANGED <<whole, cend, down, clientVars>>,
           \A x \in Clients : up'[x] \in {up[x], <<>>} /\ hit'[x] \in {hit[x], FALSE}
    PROVE  WordInv'
<1>1. WordsTyped'
  BY DEF WordInv, WordsTyped, clientVars
<1>2. ASSUME whole, NEW x \in Clients PROVE Dialogue(x)'
  <2>1. Dialogue(x) /\ up'[x] \in {up[x], <<>>} /\ hit'[x] \in {hit[x], FALSE}
    BY <1>2 DEF WordInv
  <2>2. /\ cpc'[x] = cpc[x] /\ cend'[x] = cend[x] /\ down'[x] = down[x]
        /\ n'[x] = n[x] /\ last'[x] = last[x] /\ full'[x] = full[x]
    BY DEF clientVars
  <2> QED
    BY <2>1, <2>2 DEF Dialogue, OnTheWay, EndOf, Shown, RestWritten
<1> QED
  BY <1>1, <1>2 DEF WordInv

\* What recv returns is at least a unit.
LEMMA PartLength ==
    ASSUME NEW q \in Seq(STRING), NEW part \in Parts(q)
    PROVE  Len(part) \in Nat /\ Len(part) >= 1
<1>1. CASE whole
  BY <1>1, EmptySeq, LenProperties DEF Parts
<1>2. CASE ~whole
  <2>1. PICK k \in 1..Len(q) : part = SubSeq(q, 1, k)
    BY <1>2 DEF Parts
  <2>2. Len(q) \in Nat /\ k \in Nat /\ k >= 1 /\ k <= Len(q)
    BY LenProperties
  <2>3. Len(SubSeq(q, 1, k)) = k
    BY <2>2
  <2> QED
    BY <2>1, <2>2, <2>3
<1> QED
  BY <1>1, <1>2

\* An answer keeps the second invariant: it takes the place of its word.
LEMMA AnswerWords ==
    ASSUME SlotInv, WordInv, NEW c \in Clients, NEW part \in Parts(up[c]),
           SendDown(c, IntBytes(Len(part), Len(part))),
           \/ up' = [up EXCEPT ![c] = Rest(@, part)]
           \/ up' = [up EXCEPT ![c] = <<>>],
           UNCHANGED <<whole, cend, clientVars>>
    PROVE  WordInv'
<1> DEFINE k == Len(part)
           q == IntBytes(k, k)
<1>1. up[c] \in Seq(STRING) /\ up \in [Clients -> Seq(STRING)] /\ down \in [Clients -> Seq(Int)]
      /\ hit \in [Clients -> BOOLEAN]
  BY DEF SlotInv, Typed, WordInv, WordsTyped
<1>2. k \in Nat /\ k >= 1
  BY <1>1, PartLength
<1>3. q \in Seq(Int)
  BY <1>2, AnswerBytes
<1>4. IF cend[c] = "closed" THEN hit' = [hit EXCEPT ![c] = TRUE] /\ UNCHANGED down
      ELSE down' = [down EXCEPT ![c] = @ \o q] /\ UNCHANGED hit
  BY DEF SendDown
<1> HIDE DEF q
<1>5. down[c] \o q \in Seq(Int)
  BY <1>1, <1>3, ConcatProperties
<1>6. WordsTyped'
  <2>1. down' \in [Clients -> Seq(Int)]
    BY <1>1, <1>4, <1>5
  <2> QED
    BY <2>1 DEF WordInv, WordsTyped, clientVars
<1>7. ASSUME whole, NEW x \in Clients PROVE Dialogue(x)'
  <2>1. Dialogue(x)
    BY <1>7 DEF WordInv
  <2>2. /\ cpc'[x] = cpc[x] /\ cend'[x] = cend[x] /\ n'[x] = n[x] /\ last'[x] = last[x]
        /\ full'[x] = full[x] /\ (RestWritten(x) => RestWritten(x)')
    BY DEF clientVars, RestWritten
  <2>3. CASE x # c
    <3>1. up'[x] = up[x] /\ down'[x] = down[x] /\ hit'[x] = hit[x]
      BY <1>1, <1>4, <2>3
    <3> QED
      BY <2>1, <2>2, <3>1, OtherDialogue
  <2>4. CASE x = c
    <3>1. part = up[c] /\ up[c] # <<>> /\ up'[c] = <<>>
      BY <1>1, <1>7, WholePart
    <3>2. /\ cend[c] \in {"open", "closed"} /\ cpc[c] \notin {"off", "prompt"}
          /\ cpc[c] = "recv" => down[c] = <<>> /\ part = last[c]
      BY <2>1, <2>4, <3>1 DEF Dialogue, OnTheWay, EndOf
    <3>3. CASE cend[c] = "closed"
      <4>1. hit'[c] /\ cend'[c] = "closed" /\ cpc[c] \notin {"recv", "close"}
        BY <1>1, <1>4, <2>1, <2>2, <2>4, <3>3 DEF Dialogue, EndOf
      <4> QED
        BY <2>1, <2>2, <2>4, <3>1, <3>2, <4>1 DEF Dialogue, OnTheWay, EndOf
    <3>4. CASE cend[c] = "open"
      <4>1. hit'[c] = hit[c] /\ ~hit[c] /\ down'[c] = down[c] \o q
        BY <1>1, <1>4, <2>1, <2>4, <3>4 DEF Dialogue, EndOf
      <4>2. <<>> \o q = q
        BY <1>3, ConcatEmptySeq
      <4>3. CASE cpc[c] = "recv"
        <5>1. down'[c] = q /\ q = IntBytes(Len(last[c]), Len(last[c])) /\ last[c] # <<>>
          BY <3>1, <3>2, <4>1, <4>2, <4>3 DEF q
        <5> QED
          BY <2>1, <2>2, <2>4, <3>1, <3>4, <4>1, <4>3, <5>1 DEF Dialogue, OnTheWay, EndOf
      <4>4. CASE cpc[c] # "recv"
        BY <2>1, <2>2, <2>4, <3>1, <3>2, <3>4, <4>1, <4>4 DEF Dialogue, OnTheWay, EndOf
      <4> QED
        BY <4>3, <4>4
    <3> QED
      BY <3>2, <3>3, <3>4
  <2> QED
    BY <2>3, <2>4
<1> QED
  BY <1>6, <1>7 DEF WordInv, clientVars

\* Every step keeps the second invariant.
LEMMA NextWordInv == ASSUME SlotInv, WordInv, [Next]_vars PROVE WordInv'
<1>1. CASE UNCHANGED vars
  BY <1>1, LessWords DEF vars, tcpVars
<1>2. CASE \/ OfSelect /\ (SelectListen \/ Select \/ Accept)
           \/ OfSingle /\ (SingleListen \/ SingleAccept \/ SingleLost)
  <2>1. UNCHANGED <<whole, cend, up, down, hit, clientVars>>
    <3>1. CASE OfSelect /\ (SelectListen \/ Select)
      BY <3>1 DEF OfSelect, SelectListen, Select, tcpVars
    <3>2. CASE Accept /\ OfSelect
      BY <3>2 DEF OfSelect, Accept
    <3>3. CASE OfSingle /\ (SingleListen \/ SingleAccept \/ SingleLost)
      BY <3>3 DEF OfSingle, SingleListen, SingleAccept, SingleLost, tcpVars
    <3> QED
      BY <1>2, <3>1, <3>2, <3>3
  <2> QED
    BY <2>1, LessWords
<1>3. CASE \/ OfSelect /\ (SelectSigpipe \/ SelectFails \/ Stop)
           \/ OfSingle /\ (SingleClose \/ SingleSigpipe)
  <2>1. ServerGone /\ UNCHANGED clientVars
    BY <1>3 DEF SelectSigpipe, SelectFails, Stop, SingleClose, SingleSigpipe, OfSelect, OfSingle
  <2> QED
    BY <2>1, LessWords DEF ServerGone
<1>4. CASE DropSlot /\ OfSelect
  <2>1. /\ hit' = [hit EXCEPT ![slots[Turn]] = FALSE] /\ up' = [up EXCEPT ![slots[Turn]] = <<>>]
        /\ UNCHANGED <<whole, cend, down, clientVars>>
    BY <1>4 DEF DropSlot, FreeSlot, CloseEnd, OfSelect
  <2>2. \A x \in Clients : up'[x] \in {up[x], <<>>} /\ hit'[x] \in {hit[x], FALSE}
    BY <2>1 DEF SlotInv, Typed
  <2> QED
    BY <2>1, <2>2, LessWords
<1>5. CASE AnswerSlot /\ OfSelect
  <2> DEFINE c == slots[Turn]
  <2>1. c \in Clients
    BY <1>5, TurnReady DEF AnswerSlot, SlotInv, SlotTable, SelectRunning, Typed
  <2>2. PICK part \in Parts(up[c]) :
          /\ SendDown(c, Reply(part))
          /\ IF Leaves(part) THEN FreeSlot(c)
             ELSE up' = [up EXCEPT ![c] = Rest(@, part)] /\ UNCHANGED <<slots, send>>
    BY <1>5 DEF AnswerSlot
  <2>3. \/ up' = [up EXCEPT ![c] = Rest(@, part)]
        \/ up' = [up EXCEPT ![c] = <<>>]
    BY <2>2 DEF FreeSlot, CloseEnd
  <2>4. SendDown(c, IntBytes(Len(part), Len(part)))
    BY <2>2 DEF Reply
  <2>5. UNCHANGED <<whole, cend, clientVars>>
    BY <1>5 DEF AnswerSlot, OfSelect
  <2> QED
    BY <2>1, <2>3, <2>4, <2>5, AnswerWords
<1>6. CASE SingleAnswer /\ OfSingle
  <2>1. PICK part \in Parts(up[cfd]) :
          /\ SendDown(cfd, IntBytes(Len(part), Len(part)))
          /\ up' = [up EXCEPT ![cfd] = Rest(@, part)]
    BY <1>6 DEF SingleAnswer
  <2>2. UNCHANGED <<whole, cend, clientVars>>
    BY <1>6 DEF SingleAnswer, OfSingle
  <2>3. CASE cfd \in Clients
    BY <2>1, <2>2, <2>3, AnswerWords
  <2>4. CASE cfd \notin Clients
    <3>1. down' = down /\ \A x \in Clients : up'[x] = up[x] /\ hit'[x] = hit[x]
      BY <2>1, <2>4 DEF SendDown, WordInv, WordsTyped, SlotInv, Typed
    <3> QED
      BY <2>2, <3>1, LessWords
  <2> QED
    BY <2>3, <2>4
<1> QED
  BY <1>1, <1>2, <1>3, <1>4, <1>5, <1>6, ClientWords DEF Next

\* Both invariants hold in every state.
LEMMA SlotAndWordInv == Spec => [](SlotInv /\ WordInv)
<1>1. Init => SlotInv /\ WordInv
  BY InitSlotInv, InitWordInv
<1>2. SlotInv /\ WordInv /\ [Next]_vars => (SlotInv /\ WordInv)'
  BY NextSlotInv, NextWordInv
<1> QED
  BY <1>1, <1>2, PTL DEF Spec

\* client_socket.c with either server, for any number of clients and words, on a
\* network that keeps words whole: the number printed is the length of the word
\* sent last as soon as an answer has covered an int; before, only its first unit.
THEOREM RightAnswerAlways == Spec => []RightAnswer
<1>1. ASSUME WordInv, whole, NEW c \in Clients, HasAnswer(c)
      PROVE  IF full[c] THEN ShowsLength(c) ELSE n[c] = <<Len(last[c]), Garbage>>
  <2>1. Shown(c) /\ n[c] \in [1..IntUnits -> Int] /\ n[c] # Unwritten
    BY <1>1 DEF WordInv, WordsTyped, Dialogue, OnTheWay, HasAnswer
  <2>2. 1..IntUnits = {1, 2}
    BY DEF IntUnits
  <2>3. n[c] = [k \in 1..IntUnits |-> IF k = 1 THEN n[c][1] ELSE n[c][2]]
    BY <2>1, <2>2
  <2>4. CASE full[c]
    BY <2>1, <2>3, <2>4 DEF Shown, RestWritten, ShowsLength
  <2>5. CASE ~full[c]
    <3>1. n[c][2] = Garbage
      BY <2>1, <2>5 DEF Shown, RestWritten
    <3>2. n[c][1] # Garbage
      BY <2>1, <2>2, <3>1 DEF Unwritten
    <3>3. n[c][1] = Len(last[c])
      BY <2>1, <3>2 DEF Shown
    <3>4. <<Len(last[c]), Garbage>> = [k \in 1..2 |-> IF k = 1 THEN Len(last[c]) ELSE Garbage]
      OBVIOUS
    <3> QED
      BY <2>3, <2>5, <3>1, <3>3, <3>4 DEF IntUnits
  <2> QED
    BY <2>4, <2>5
<1>2. WordInv => RightAnswer
  BY <1>1 DEF RightAnswer
<1> QED
  BY <1>2, SlotAndWordInv, PTL

\* server_m_sockets.c, as long as it is not stopped and select does not fail: a
\* connection is closed only when its client has gone or said exit, and no client
\* that was killed takes the server with it.
THEOREM DropsOnlyEndedAlways == Spec => DropsOnlyEnded
<1> DEFINE A == whole /\ server = "select" /\ mpc' # "stopped" =>
                  \A c \in Clients : send[c] # "closed" /\ send'[c] = "closed" =>
                     mpc' # "killed" /\ (cend[c] = "closed" \/ last[c] = Exit)
<1>1. ASSUME SlotInv, WordInv, [Next]_vars PROVE [A]_vars
  <2>1. SUFFICES ASSUME Next, whole, server = "select", mpc' # "stopped",
                        NEW c \in Clients, send[c] # "closed", send'[c] = "closed"
                 PROVE  mpc' # "killed" /\ (cend[c] = "closed" \/ last[c] = Exit)
    BY <1>1
  <2>2. ~ (\/ \E x \in Clients : \/ Connect(x) \/ RecvAnswer(x) \/ RecvEnd(x) \/ CloseSocket(x)
                                 \/ KillClient(x) \/ \E w \in Words : SendWord(x, w)
           \/ SelectListen \/ Select)
    BY <2>1 DEF Connect, RecvAnswer, RecvEnd, CloseSocket, KillClient, Hangup, SendWord,
       SelectListen, Select, tcpVars
  <2>3. ~ OfSingle
    BY <2>1 DEF OfSingle
  <2>4. ~ Stop /\ ~ SelectFails
    BY <2>1 DEF Stop, SelectFails
  <2>5. \A x \in Clients : Dialogue(x)
    BY <1>1, <2>1 DEF WordInv
  <2>6. mpc = "serve" => Turn \in ready /\ slots[Turn] \in Clients
    BY <1>1, TurnReady DEF SlotInv, SlotTable, SelectRunning, Typed
  <2>7. ~ SelectSigpipe
    <3>1. mpc = "serve" => ~ (up[slots[Turn]] # <<>> /\ hit[slots[Turn]])
      BY <2>5, <2>6 DEF Dialogue, EndOf
    <3> QED
      BY <3>1 DEF SelectSigpipe
  <2>8. ~ Accept
    <3>1. ASSUME Accept PROVE send' = send \/ \E x : send' = [send EXCEPT ![x] = "open"]
      BY <3>1 DEF Accept, AcceptInto
    <3> QED
      BY <1>1, <2>1, <3>1 DEF SlotInv, Typed
  <2>9. (AnswerSlot \/ DropSlot) /\ OfSelect
    BY <2>1, <2>2, <2>3, <2>4, <2>7, <2>8 DEF Next
  <2>10. mpc = "serve" /\ mpc' # "killed"
    BY <2>9 DEF AnswerSlot, DropSlot, Served
  <2> DEFINE t == slots[Turn]
  <2>11. t \in Clients
    BY <2>6, <2>10
  <2>12. CASE DropSlot
    <3>1. cend[t] = "closed" /\ send' = [send EXCEPT ![t] = "closed"]
      BY <2>12 DEF DropSlot, FreeSlot, CloseEnd
    <3>2. c = t
      BY <1>1, <2>1, <2>11, <3>1 DEF SlotInv, Typed
    <3> QED
      BY <2>10, <3>1, <3>2
  <2>13. CASE AnswerSlot
    <3>1. PICK part \in Parts(up[t]) :
            IF Leaves(part) THEN FreeSlot(t) ELSE UNCHANGED <<slots, send>>
      BY <2>13 DEF AnswerSlot
    <3>2. part = Exit /\ c = t
      BY <1>1, <2>1, <2>11, <3>1 DEF Leaves, FreeSlot, CloseEnd, SlotInv, Typed
    <3>3. up[t] = Exit /\ up[t] # <<>>
      BY <2>1, <3>2 DEF Parts
    <3>4. cpc[t] \in {"recv", "close"} => last[t] = Exit
      BY <2>5, <2>11, <3>3 DEF Dialogue, OnTheWay
    <3>5. cend[t] = "closed" \/ (cend[t] = "open" /\ cpc[t] \notin {"off", "prompt"})
      BY <2>5, <2>11, <3>3 DEF Dialogue, OnTheWay, EndOf
    <3>6. cend[t] = "open" => cpc[t] # "dead"
      BY <2>5, <2>11 DEF Dialogue, EndOf
    <3> QED
      BY <1>1, <2>10, <2>11, <3>2, <3>4, <3>5, <3>6 DEF SlotInv, Typed
  <2> QED
    BY <2>9, <2>12, <2>13
<1> QED
  BY <1>1, SlotAndWordInv, PTL DEF Spec, DropsOnlyEnded
=============================================================================
