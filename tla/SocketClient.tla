---------------------------- MODULE SocketClient ----------------------------
(***************************************************************************)
(* chapter10/client_socket.c: connects, then sends a word and receives its *)
(* length, until the word is exit.  What is longer than an int is written  *)
(* past n, over what the build keeps there.                                *)
(***************************************************************************)
EXTENDS Tcp

CONSTANT MaxWords  \* bound: the words the user types into each client on
                   \* a network that keeps words whole (TRUE) or not

ASSUME MaxWordsAssumption == MaxWords \in [BOOLEAN -> [Clients -> Nat]]

VARIABLES
    cpc,    \* the next step of each client
    n,      \* its variable n, an int of IntUnits units
    myfd,   \* its variable myfd still holds the socket
    last,   \* the word it sent last
    typed,  \* how many it has sent
    full    \* history: it received all of an int at once

clientVars == <<cpc, n, myfd, last, typed, full>>

Unwritten == [k \in 1..IntUnits |-> Garbage]

ClientInit ==
    /\ cpc = [c \in Clients |-> "off"]
    /\ n = [c \in Clients |-> Unwritten]
    /\ myfd = [c \in Clients |-> TRUE]
    /\ last = [c \in Clients |-> <<>>]
    /\ typed = [c \in Clients |-> 0]
    /\ full = [c \in Clients |-> FALSE]

\* socket and connect; that nobody may be listening is not looked at.
Connect(c) ==
    /\ cpc[c] = "off"
    /\ cpc' = [cpc EXCEPT ![c] = "prompt"]
    /\ IF listening THEN /\ cend' = [cend EXCEPT ![c] = "open"]
                         /\ backlog' = Append(backlog, c)
                    ELSE cend' = [cend EXCEPT ![c] = "refused"] /\ UNCHANGED backlog
    /\ UNCHANGED <<whole, listening, send, up, down, hit, n, myfd, last, typed, full>>

\* fgets and send.  An empty line and the end of input send nothing, not even
\* an end of word; on a socket that is not connected send raises SIGPIPE; on
\* what is no socket it fails, which is not looked at.
SendWord(c, w) ==
    /\ cpc[c] = "prompt" /\ typed[c] < MaxWords[whole][c]
    /\ typed' = [typed EXCEPT ![c] = @ + 1]
    /\ last' = [last EXCEPT ![c] = w]
    /\ cpc' = [cpc EXCEPT ![c] = IF cend[c] = "refused" THEN "dead"
                                 ELSE IF w = Exit THEN "close" ELSE "recv"]
    /\ up' = [up EXCEPT ![c] = IF cend[c] = "open" /\ send[c] # "closed" /\ myfd[c]
                               THEN @ \o w ELSE @]
    /\ UNCHANGED <<whole, listening, backlog, cend, send, down, hit, n, myfd, full>>

\* recv(myfd, &n, BUF_SIZE, 0) and the print of n.  Units past n are written
\* over myfd, or over what is not used again, or only when main returns.
RecvAnswer(c) ==
    /\ cpc[c] = "recv" /\ myfd[c]
    /\ \E part \in Parts(down[c]) :
          /\ down' = [down EXCEPT ![c] = Rest(@, part)]
          /\ n' = [n EXCEPT ![c] = Overwrite(@, part)]
          /\ full' = [full EXCEPT ![c] = @ \/ Len(part) >= IntUnits]
          /\ \E held \in {TRUE, Len(part) <= IntUnits} : myfd' = [myfd EXCEPT ![c] = held]
    /\ cpc' = [cpc EXCEPT ![c] = "prompt"]
    /\ UNCHANGED <<whole, listening, backlog, cend, send, up, hit, last, typed>>

\* The process ends, and with it its end of the connection, what it has not
\* read and its variables.
Hangup(c) ==
    /\ cpc' = [cpc EXCEPT ![c] = "dead"]
    /\ cend' = [cend EXCEPT ![c] = IF @ = "open" THEN "closed" ELSE @]
    /\ down' = [down EXCEPT ![c] = <<>>]
    /\ n' = [n EXCEPT ![c] = Unwritten]
    /\ myfd' = [myfd EXCEPT ![c] = TRUE]
    /\ full' = [full EXCEPT ![c] = FALSE]
    /\ last' = [last EXCEPT ![c] = <<>>]
    /\ typed' = [typed EXCEPT ![c] = 0]
    /\ UNCHANGED <<whole, listening, backlog, send, up, hit>>

\* recv returns 0 or -1, as the server has closed its end or myfd is lost, and
\* the program ends.
RecvEnd(c) ==
    /\ cpc[c] = "recv"
    /\ ~myfd[c] \/ (down[c] = <<>> /\ send[c] = "closed")
    /\ Hangup(c)

\* close after "exit"; the answer to it may have come or not.
CloseSocket(c) == cpc[c] = "close" /\ Hangup(c)

\* The user may end a client with a signal at any step.
KillClient(c) == cpc[c] \in {"prompt", "recv"} /\ Hangup(c)

ClientStep(c) == RecvAnswer(c) \/ RecvEnd(c) \/ CloseSocket(c)

ClientUser(c) == Connect(c) \/ KillClient(c) \/ \E w \in Words : SendWord(c, w)

ClientTypeOK ==
    /\ cpc \in [Clients -> {"off", "prompt", "recv", "close", "dead"}]
    /\ n \in [Clients -> [1..IntUnits -> Nat \cup {Garbage}]]
    /\ myfd \in [Clients -> BOOLEAN] /\ full \in [Clients -> BOOLEAN]
    /\ last \in [Clients -> Words]
    /\ \A c \in Clients : typed[c] \in 0..MaxWords[whole][c]
=============================================================================
