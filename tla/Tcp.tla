-------------------------------- MODULE Tcp --------------------------------
(***************************************************************************)
(* The TCP connections of chapter10, as the calls of its programs see      *)
(* them: one listening socket, and for each client a stream in each        *)
(* direction.  Not code of the repository.                                 *)
(*                                                                         *)
(* A stream carries units; sizeof(int) is IntUnits of them.  TCP keeps     *)
(* their order and loses none, but a recv may return any first part of     *)
(* what was sent by one send (server_socket.c:200).  The chapter assumes   *)
(* that short data arrives whole (client_socket.c:179): the variable whole *)
(* tells in which of the two networks the programs run.                    *)
(***************************************************************************)
EXTENDS Integers, Sequences

CONSTANTS
    Clients,  \* the runs of client_socket
    Units,    \* the units a user's words are made of
    Exit      \* the word "exit"

IntUnits == 2

\* What is in memory nothing was written to.
Garbage == -1

\* The words a client may send: none, shorter than an int, as long as one, as
\* "exit" is, and longer.
Words == {<<>>, Exit} \cup {<<u>> : u \in Units} \cup {<<u, u>> : u \in Units}
                      \cup {<<u, u, u>> : u \in Units}

ASSUME ExitAssumption ==
    /\ Exit \in Seq(STRING) /\ Len(Exit) = IntUnits
    /\ \A u \in Units : u \in STRING /\ Exit # <<u, u>>

VARIABLES
    whole,      \* every send arrives in one piece
    listening,  \* the server has called listen
    backlog,    \* the connections it has not accepted yet
    cend,       \* the client's end of each connection
    send,       \* the server's end, "none" until it is accepted
    up, down,   \* units on the way to the server, to the client
    hit         \* the server has sent to a client whose end was closed

tcpVars == <<whole, listening, backlog, cend, send, up, down, hit>>

TcpInit ==
    /\ whole \in BOOLEAN
    /\ listening = FALSE /\ backlog = <<>>
    /\ cend = [c \in Clients |-> "none"]
    /\ send = [c \in Clients |-> "none"]
    /\ up = [c \in Clients |-> <<>>]
    /\ down = [c \in Clients |-> <<>>]
    /\ hit = [c \in Clients |-> FALSE]

\* What one recv may return of the units q.
Parts(q) == IF whole THEN {q} \ {<<>>} ELSE {SubSeq(q, 1, k) : k \in 1..Len(q)}

Rest(q, part) == SubSeq(q, Len(part) + 1, Len(q))

\* select finds a connection readable when recv would return: with units, or
\* with the end or the reset of the client's end behind them.
Readable(c) == up[c] # <<>> \/ cend[c] = "closed"

\* The units that `send(fd, &n, len, 0)` sends of a small int n, and of what
\* follows it in memory.
IntBytes(n, len) == [k \in 1..len |-> IF k = 1 THEN n ELSE IF k <= IntUnits THEN 0
                                                     ELSE Garbage]

\* What a recv into an int makes of it.
Overwrite(n, part) == [k \in 1..IntUnits |-> IF k <= Len(part) THEN part[k] ELSE n[k]]

\* The server sends q to c.  The first send to a closed end is answered by a
\* reset, after which the next one may raise SIGPIPE.
SendDown(c, q) ==
    IF cend[c] = "closed" THEN hit' = [hit EXCEPT ![c] = TRUE] /\ UNCHANGED down
                          ELSE down' = [down EXCEPT ![c] = @ \o q] /\ UNCHANGED hit

\* The server closes its end of a connection.
CloseEnd(c) ==
    /\ send' = [send EXCEPT ![c] = "closed"]
    /\ up' = [up EXCEPT ![c] = <<>>]

\* The server's process ends: every end it has, accepted or not, is closed.
ServerGone ==
    /\ listening' = FALSE /\ backlog' = <<>>
    /\ send' = [c \in Clients |-> IF cend[c] \in {"open", "closed"} THEN "closed"
                                 ELSE send[c]]
    /\ up' = [c \in Clients |-> <<>>]
    /\ hit' = [c \in Clients |-> FALSE]
    /\ UNCHANGED <<whole, cend, down>>

TcpTypeOK ==
    /\ whole \in BOOLEAN /\ listening \in BOOLEAN
    /\ backlog \in Seq(Clients)
    /\ cend \in [Clients -> {"none", "refused", "open", "closed"}]
    /\ send \in [Clients -> {"none", "open", "closed"}]
    /\ \A c \in Clients : up[c] \in Seq(STRING) /\ down[c] \in Seq(Int)
    /\ hit \in [Clients -> BOOLEAN]
=============================================================================
