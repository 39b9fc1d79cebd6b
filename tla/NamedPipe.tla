----------------------------- MODULE NamedPipe -----------------------------
(***************************************************************************)
(* chapter08/npip_server.c and npip_client.c: a server that returns the    *)
(* length of a word, asked and answered through one FIFO which both open,  *)
(* use and close for every message.                                        *)
(*                                                                         *)
(* The FIFO is modelled as Linux implements it.  An open for reading       *)
(* sleeps when nobody has it open for writing, until somebody opens it for *)
(* writing, and the other way round; a process asleep in its open counts   *)
(* already as a reader or writer.  A read sleeps while the FIFO is empty   *)
(* and somebody has it open for writing; a write sleeps while it would not *)
(* fit, and with no reader kills its process by SIGPIPE.  What the FIFO holds is gone when nobody has it     *)
(* open.  A message is short enough to be written in one piece.            *)
(*                                                                         *)
(* The data are pieces of sizeof(n) bytes: a word is sent as a buffer of   *)
(* WordSize pieces (64 in the code), an answer is one piece.               *)
(***************************************************************************)
EXTENDS Integers, Sequences

CONSTANTS
    Clients,       \* terminals at which a client may run
    Words,         \* what may be typed
    Length,        \* Length[w]: strlen(w)
    WordSize,      \* the pieces of the buffer `word`
    Capacity,      \* pieces the FIFO holds
    KillAnywhere   \* a client may be killed at any step, not only at its prompt

ASSUME PipeAssumption ==
    /\ WordSize \in Nat /\ WordSize >= 2
    /\ Capacity \in Nat /\ Capacity >= WordSize
    /\ Length \in [Words -> Nat]
    /\ KillAnywhere \in BOOLEAN

Server == "server"
ASSUME ServerAssumption == Server \notin Clients

Process == {Server} \cup Clients
Garbled == -1   \* what n is after anything but an answer was read into it,
                \* or computed from anything but a word

\* The buffer of a word, and an answer.
WordMsg(w)   == [j \in 1..WordSize |-> [word |-> w, at |-> j]]
AnswerMsg(n) == <<[n |-> n]>>
Piece == {[word |-> w, at |-> j] : w \in Words, j \in 1..WordSize}
           \cup {[n |-> k] : k \in {Length[w] : w \in Words} \cup {Garbled}}

VARIABLES
    pc,       \* the next step of each process
    readers,  \* the processes that have the FIFO open for reading
    writers,  \* and for writing
    asleep,   \* those of them that sleep in open
    fifo,     \* the pieces in the FIFO
    buffer,   \* the server's `word`
    word,     \* the `word` of each client
    n,        \* the n of each client
    fresh     \* history: the clients whose open for writing met a server
              \* waiting for a request, and an empty FIFO

ends == <<readers, writers, asleep>>
vars == <<pc, ends, fifo, buffer, word, n, fresh>>

\* mkfifo has made the FIFO by the time either program uses it.  No buffer is
\* initialised.
Init ==
    /\ pc = [p \in Process |-> IF p = Server THEN "openR" ELSE "off"]
    /\ readers = {} /\ writers = {} /\ asleep = {}
    /\ fifo = <<>>
    /\ buffer = [j \in 1..WordSize |-> [n |-> Garbled]]
    /\ word \in [Clients -> Words]
    /\ n = [c \in Clients |-> Garbled]
    /\ fresh = {}
-----------------------------------------------------------------------------
(***************************************************************************)
(* The FIFO.                                                               *)
(***************************************************************************)
Goto(p, label) == pc' = [pc EXCEPT ![p] = label]

\* p opens for reading: writers asleep in open go on; p sleeps without writers.
OpenRead(p) ==
    /\ readers' = readers \cup {p}
    /\ asleep' = (asleep \ writers) \cup (IF writers = {} THEN {p} ELSE {})
    /\ UNCHANGED <<writers, fifo>>

OpenWrite(p) ==
    /\ writers' = writers \cup {p}
    /\ asleep' = (asleep \ readers) \cup (IF readers = {} THEN {p} ELSE {})
    /\ UNCHANGED <<readers, fifo>>

Close(p) ==
    /\ readers' = readers \ {p}
    /\ writers' = writers \ {p}
    /\ asleep' = asleep \ {p}
    /\ fifo' = IF (readers \cup writers) \subseteq {p} THEN <<>> ELSE fifo

\* What a read of at most k pieces returns; nothing at the end of file.
Got(k) == SubSeq(fifo, 1, IF k < Len(fifo) THEN k ELSE Len(fifo))

Read(p, k) ==
    /\ p \notin asleep
    /\ fifo # <<>> \/ writers = {}
    /\ fifo' = SubSeq(fifo, Len(Got(k)) + 1, Len(fifo))
    /\ UNCHANGED ends

Write(p, msg, label) ==
    /\ p \notin asleep
    /\ \/ /\ readers # {} /\ Len(fifo) + Len(msg) <= Capacity
          /\ fifo' = fifo \o msg
          /\ Goto(p, label)
          /\ UNCHANGED ends
       \/ /\ readers = {}          \* SIGPIPE
          /\ Close(p)
          /\ Goto(p, "dead")
-----------------------------------------------------------------------------
(***************************************************************************)
(* The server.                                                             *)
(***************************************************************************)
SOpenRead == /\ pc[Server] = "openR"
             /\ OpenRead(Server) /\ Goto(Server, "read")
             /\ UNCHANGED <<buffer, word, n, fresh>>

\* A short read overwrites the first pieces of `word` only.
SRead == /\ pc[Server] = "read"
         /\ Read(Server, WordSize)
         /\ buffer' = [j \in 1..WordSize |->
                          IF j <= Len(Got(WordSize)) THEN Got(WordSize)[j] ELSE buffer[j]]
         /\ Goto(Server, "closeR")
         /\ UNCHANGED <<word, n, fresh>>

\* Mutant of SCloseRead: the read end stays open for the answer.
SCloseReadNot == /\ pc[Server] = "closeR"
                 /\ Goto(Server, "openW")
                 /\ UNCHANGED <<ends, fifo, buffer, word, n, fresh>>

SCloseRead == /\ pc[Server] = "closeR"
              /\ Close(Server) /\ Goto(Server, "openW")
              /\ UNCHANGED <<buffer, word, n, fresh>>

SOpenWrite == /\ pc[Server] = "openW"
              /\ OpenWrite(Server) /\ Goto(Server, "write")
              /\ UNCHANGED <<buffer, word, n, fresh>>

\* Mutant of BufferLength: the size of the buffer instead of its string's.
BufferSize == WordSize

\* strlen(word).
BufferLength ==
    IF \E w \in Words : buffer = WordMsg(w) THEN Length[buffer[1].word] ELSE Garbled

SWrite == /\ pc[Server] = "write"
          /\ Write(Server, AnswerMsg(BufferLength), "closeW")
          /\ UNCHANGED <<buffer, word, n, fresh>>

SCloseWrite == /\ pc[Server] = "closeW"
               /\ Close(Server) /\ Goto(Server, "openR")
               /\ UNCHANGED <<buffer, word, n, fresh>>

ServerStep == SOpenRead \/ SRead \/ SCloseRead \/ SOpenWrite \/ SWrite \/ SCloseWrite
-----------------------------------------------------------------------------
(***************************************************************************)
(* A client.                                                               *)
(***************************************************************************)
Start(c) == /\ pc[c] \in {"off", "dead"}
            /\ Goto(c, "prompt")
            /\ \E w \in Words : word' = [word EXCEPT ![c] = w]
            /\ n' = [n EXCEPT ![c] = Garbled]
            /\ UNCHANGED <<ends, fifo, buffer, fresh>>

\* fgets and sscanf.  An empty line changes nothing; at the end of input the
\* last line is scanned again, which is the case w = word[c].
Type(c, w) == /\ pc[c] = "prompt"
              /\ word' = [word EXCEPT ![c] = w]
              /\ Goto(c, "openW")
              /\ UNCHANGED <<ends, fifo, buffer, n, fresh>>

\* The server waits for a request, and nothing of another one is left.
ServerIdle == /\ pc[Server] = "openR" \/ (pc[Server] = "read" /\ Server \in asleep)
              /\ fifo = <<>>

COpenWrite(c) == /\ pc[c] = "openW"
                 /\ OpenWrite(c) /\ Goto(c, "write")
                 /\ fresh' = IF ServerIdle THEN fresh \cup {c} ELSE fresh \ {c}
                 /\ UNCHANGED <<buffer, word, n>>

CWrite(c) == /\ pc[c] = "write"
             /\ Write(c, WordMsg(word[c]), "closeW")
             /\ UNCHANGED <<buffer, word, n, fresh>>

\* Mutants of CCloseWrite: the write end stays open for the answer; the answer
\* is not read.
CCloseWriteNot(c) == /\ pc[c] = "closeW"
                     /\ Goto(c, "openR")
                     /\ UNCHANGED <<ends, fifo, buffer, word, n, fresh>>

CCloseWriteOnly(c) == /\ pc[c] = "closeW"
                      /\ Close(c) /\ Goto(c, "prompt")
                      /\ UNCHANGED <<buffer, word, n, fresh>>

CCloseWrite(c) == /\ pc[c] = "closeW"
                  /\ Close(c) /\ Goto(c, "openR")
                  /\ UNCHANGED <<buffer, word, n, fresh>>

COpenRead(c) == /\ pc[c] = "openR"
                /\ OpenRead(c) /\ Goto(c, "read")
                /\ UNCHANGED <<buffer, word, n, fresh>>

\* At the end of file n keeps its last value.
CRead(c) == /\ pc[c] = "read"
            /\ Read(c, 1)
            /\ n' = [n EXCEPT ![c] = IF fifo = <<>> THEN @
                                     ELSE IF "n" \in DOMAIN fifo[1] THEN fifo[1].n
                                     ELSE Garbled]
            /\ Goto(c, "show")
            /\ UNCHANGED <<buffer, word, fresh>>

\* Prints word and n, and closes.
CShow(c) == /\ pc[c] = "show"
            /\ Close(c) /\ Goto(c, "prompt")
            /\ UNCHANGED <<buffer, word, n, fresh>>

\* The loop has no exit: a client ends when a signal kills it.
Kill(c) == /\ pc[c] \notin {"off", "dead"}
           /\ KillAnywhere \/ pc[c] = "prompt"
           /\ Close(c) /\ Goto(c, "off")
           /\ UNCHANGED <<buffer, word, n, fresh>>

ClientStep(c) == \/ COpenWrite(c) \/ CWrite(c) \/ CCloseWrite(c)
                 \/ COpenRead(c) \/ CRead(c) \/ CShow(c)

User(c) == Start(c) \/ Kill(c) \/ (\E w \in Words : Type(c, w))

Next == ServerStep \/ \E c \in Clients : ClientStep(c) \/ User(c)

Spec == Init /\ [][Next]_vars

\* Every process that can run does; the user does what he likes.
FairSpec == Spec /\ WF_vars(ServerStep) /\ \A c \in Clients : WF_vars(ClientStep(c))
-----------------------------------------------------------------------------
\* Every variable keeps its type.
TypeOK ==
    /\ pc[Server] \in {"openR", "read", "closeR", "openW", "write", "closeW", "dead"}
    /\ \A c \in Clients : pc[c] \in {"off", "prompt", "openW", "write", "closeW",
                                     "openR", "read", "show", "dead"}
    /\ readers \subseteq Process /\ writers \subseteq Process
    /\ asleep \subseteq readers \cup writers
    /\ fifo \in Seq(Piece)
    /\ buffer \in [1..WordSize -> Piece]
    /\ word \in [Clients -> Words]
    /\ n \in [Clients -> {Length[w] : w \in Words} \cup {Garbled}]
    /\ fresh \subseteq Clients

\* A read that is about to return returns one whole message, the server's a
\* word and a client's an answer: nobody takes his own message back out of the
\* FIFO, or meets its end of file.
WholeMessages ==
    /\ pc[Server] = "read" /\ Server \notin asleep /\ (fifo # <<>> \/ writers = {})
          => \E w \in Words : fifo = WordMsg(w)
    /\ \A c \in Clients :
          pc[c] = "read" /\ c \notin asleep /\ (fifo # <<>> \/ writers = {})
             => \E w \in Words : fifo = AnswerMsg(Length[w])

\* Nothing in the FIFO is thrown away by a close.
NothingDiscarded ==
    [][fifo # <<>> /\ fifo' = <<>> =>
         pc[Server] = "read" \/ \E c \in Clients : pc[c] = "read"]_vars

\* With one client at a time, killed at its prompt only, the server implements
\* the abstract service.
Asked(c) == pc[c] \in {"closeW", "openR", "read", "show"}

Answered(c) == Asked(c) /\ (pc[c] = "show" \/ (fifo # <<>> /\ "n" \in DOMAIN fifo[1]))

Service == INSTANCE RequestReply
    WITH request <- [c \in Clients |-> IF Asked(c) THEN <<word[c]>> ELSE <<>>],
         reply <- [c \in Clients |-> IF ~Answered(c) THEN <<>>
                                     ELSE IF pc[c] = "show" THEN <<n[c]>>
                                     ELSE <<fifo[1].n>>]

ImplementsService == Service!Spec

\* The damage done by a client killed in the middle of its dialogue is limited:
\* however many were, the next whose request meets a waiting server gets the
\* answer to its own word (one client at a time).
FreshReply == \A c \in fresh : pc[c] = "show" => n[c] = Length[word[c]]

\* A client that sends a word comes back to its prompt, whether the server is
\* fast or slow to close what the client opens next (with FairSpec).
ClientServed == \A c \in Clients : pc[c] = "openW" ~> pc[c] = "prompt"

\* npip_server.c:13: the server returns the length to the client that sent the
\* word.  (Violated with two clients: one may read the word of the other.)
OwnReply == \A c \in Clients : pc[c] = "show" => n[c] = Length[word[c]]

\* npip_server.c:14: the server repeats this for ever.  (Violated when a client
\* is killed while it waits for its answer: SIGPIPE ends the server.)
ServerGoesOn == pc[Server] # "dead"
=============================================================================
