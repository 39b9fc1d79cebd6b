------------------------------ MODULE Sockets ------------------------------
(***************************************************************************)
(* The clients of chapter10 with one of its two servers.                   *)
(***************************************************************************)
EXTENDS SocketClient, SelectServer, SingleServer

VARIABLE server  \* the server that is started: "select" or "single"

vars == <<tcpVars, clientVars, selectVars, singleVars, server>>

Init ==
    /\ TcpInit /\ ClientInit /\ SelectInit /\ SingleInit
    /\ server \in {"select", "single"}

\* One action of one program; the others keep their state.
OfClient == UNCHANGED <<selectVars, singleVars, server>>
OfSelect == server = "select" /\ UNCHANGED <<clientVars, singleVars, server>>
OfSingle == server = "single" /\ UNCHANGED <<clientVars, selectVars, server>>

Next ==
    \/ \E c \in Clients : Connect(c) /\ OfClient
    \/ \E c \in Clients, w \in Words : SendWord(c, w) /\ OfClient
    \/ \E c \in Clients : RecvAnswer(c) /\ OfClient
    \/ \E c \in Clients : RecvEnd(c) /\ OfClient
    \/ \E c \in Clients : CloseSocket(c) /\ OfClient
    \/ \E c \in Clients : KillClient(c) /\ OfClient
    \/ SelectListen /\ OfSelect
    \/ Select /\ OfSelect
    \/ SelectFails /\ OfSelect
    \/ Accept /\ OfSelect
    \/ AnswerSlot /\ OfSelect
    \/ DropSlot /\ OfSelect
    \/ SelectSigpipe /\ OfSelect
    \/ Stop /\ OfSelect
    \/ SingleListen /\ OfSingle
    \/ SingleAccept /\ OfSingle
    \/ SingleAnswer /\ OfSingle
    \/ SingleLost /\ OfSingle
    \/ SingleClose /\ OfSingle
    \/ SingleSigpipe /\ OfSingle

Spec == Init /\ [][Next]_vars

\* The programs run when they can; starting, typing and signals are the user's.
FairSpec ==
    /\ Spec
    /\ \A c \in Clients : WF_vars(ClientStep(c) /\ OfClient)
    /\ WF_vars(SelectStep /\ OfSelect)
    /\ WF_vars(SingleStep /\ OfSingle)
-----------------------------------------------------------------------------
\* Every variable keeps its type.
TypeOK ==
    /\ TcpTypeOK /\ ClientTypeOK /\ SelectTypeOK /\ SingleTypeOK
    /\ server \in {"select", "single"}

\* A client is back at its prompt with an answer to the word it sent last.
HasAnswer(c) == cpc[c] = "prompt" /\ n[c] # Unwritten

\* n is the length of the word it sent last.
ShowsLength(c) == n[c] = [k \in 1..IntUnits |-> IF k = 1 THEN Len(last[c]) ELSE 0]

\* On a network that keeps words whole, the number a client prints is the length
\* of the word it sent last from the first word on that was at least as long as
\* an int.  Before, as the server sends no more bytes of it than the word has
\* (server_m_sockets.c:259), it is another number: the length is in the first
\* unit of n only, and the rest of n is what the memory held.
RightAnswer ==
    whole => \A c \in Clients : HasAnswer(c) =>
        IF full[c] THEN ShowsLength(c) ELSE n[c] = <<Len(last[c]), Garbage>>

\* On such a network the select server closes a connection only when its client
\* has gone or said exit, or when it is stopped or select fails; clients killed
\* at any step do not bring it down.
DropsOnlyEnded ==
    [][whole /\ server = "select" /\ mpc' # "stopped" =>
         \A c \in Clients : send[c] # "closed" /\ send'[c] = "closed" =>
            mpc' # "killed" /\ (cend[c] = "closed" \/ last[c] = Exit)]_vars

\* An accepted client that sent a word gets back to its prompt, or to its end:
\* whatever the other clients do, a full slot table included, and however the
\* words are cut.
Answered ==
    \A c \in Clients :
        cpc[c] = "recv" /\ last[c] # <<>> /\ send[c] = "open" ~> cpc[c] # "recv"
=============================================================================
