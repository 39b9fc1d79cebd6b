---------------------------- MODULE RequestReply ----------------------------
(***************************************************************************)
(* What a server that returns the length of a word promises each client:   *)
(* one answer for each request, the right one, before the next request.    *)
(***************************************************************************)
EXTENDS Sequences

CONSTANTS Clients, Words, Length

VARIABLES request,  \* the word each client waits for an answer to, if any
          reply     \* the answer on its way to each client, if any

rrVars == <<request, reply>>

Init == /\ request = [c \in Clients |-> <<>>]
        /\ reply = [c \in Clients |-> <<>>]

Ask(c, w) == /\ request[c] = <<>>
             /\ request' = [request EXCEPT ![c] = <<w>>]
             /\ UNCHANGED reply

Answer(c) == /\ request[c] # <<>> /\ reply[c] = <<>>
             /\ reply' = [reply EXCEPT ![c] = <<Length[Head(request[c])]>>]
             /\ UNCHANGED request

Receive(c) == /\ reply[c] # <<>>
              /\ request' = [request EXCEPT ![c] = <<>>]
              /\ reply' = [reply EXCEPT ![c] = <<>>]

Next == \E c \in Clients : Answer(c) \/ Receive(c) \/ \E w \in Words : Ask(c, w)

Spec == Init /\ [][Next]_rrVars
=============================================================================
