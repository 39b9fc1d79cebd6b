---------------------------- MODULE SingleServer ----------------------------
(***************************************************************************)
(* chapter10/server_socket.c: accepts one client, serves it until it says  *)
(* exit or goes away, and ends.                                            *)
(***************************************************************************)
EXTENDS Tcp

VARIABLES
    spc,  \* the next step of the server
    cfd   \* the client it has accepted

singleVars == <<spc, cfd>>

NoClient == "none"

SingleInit == spc = "off" /\ cfd = NoClient

\* Up to listen; only setsockopt is checked.  When bind fails the program
\* listens on a port nobody knows, and waits in accept.
SingleListen ==
    /\ spc = "off"
    /\ \/ spc' = "accept" /\ listening' = TRUE
       \/ spc' \in {"accept", "ended"} /\ UNCHANGED listening
    /\ UNCHANGED <<cfd, whole, backlog, cend, send, up, down, hit>>

\* accept; that it failed shows when recv fails, too.
SingleAccept ==
    /\ spc = "accept" /\ backlog # <<>>
    /\ \/ /\ cfd' = Head(backlog)
          /\ backlog' = Tail(backlog)
          /\ send' = [send EXCEPT ![Head(backlog)] = "open"]
          /\ spc' = "recv"
       \/ spc' = "close" /\ UNCHANGED <<cfd, backlog, send>>
    /\ UNCHANGED <<whole, listening, cend, up, down, hit>>

\* recv, strlen and send.
SingleAnswer ==
    /\ spc = "recv"
    /\ \E part \in Parts(up[cfd]) :
          /\ SendDown(cfd, IntBytes(Len(part), Len(part)))
          /\ up' = [up EXCEPT ![cfd] = Rest(@, part)]
          /\ spc' = IF part = Exit THEN "close" ELSE "recv"
    /\ UNCHANGED <<cfd, whole, listening, backlog, cend, send>>

\* recv returns 0 or -1.
SingleLost ==
    /\ spc = "recv" /\ up[cfd] = <<>> /\ cend[cfd] = "closed"
    /\ spc' = "close"
    /\ UNCHANGED <<cfd, tcpVars>>

\* Both sockets are closed; connections that were not accepted are reset.
SingleClose == spc = "close" /\ spc' = "ended" /\ ServerGone /\ cfd' = NoClient

SingleSigpipe ==
    /\ spc = "recv" /\ up[cfd] # <<>> /\ hit[cfd]
    /\ spc' = "killed"
    /\ ServerGone /\ cfd' = NoClient

SingleStep == SingleListen \/ SingleAccept \/ SingleAnswer \/ SingleLost \/ SingleClose

SingleTypeOK ==
    /\ spc \in {"off", "accept", "recv", "close", "killed", "ended"}
    /\ cfd \in Clients \cup {NoClient}
=============================================================================
