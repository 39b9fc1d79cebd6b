---------------------------- MODULE SelectServer ----------------------------
(***************************************************************************)
(* chapter10/server_m_sockets.c: one process that serves up to C_MAX       *)
(* clients with select.  Each pass of its loop accepts at most one         *)
(* connection and serves every slot that select found readable, in the     *)
(* order of the slots.  SIGINT ends it at any step.                        *)
(***************************************************************************)
EXTENDS Tcp, FiniteSetsExt

CONSTANT CMax  \* C_MAX: the number of slots

ASSUME CMaxAssumption == CMax \in Nat \ {0}

Slots == 1..CMax
Free  == "free"

ASSUME FreeAssumption == Free \notin Clients

VARIABLES
    mpc,    \* the next step of the server
    slots,  \* socketfds: the client each slot is connected to
    ready   \* rfds: the slots select found readable, not served yet

selectVars == <<mpc, slots, ready>>

SelectInit == mpc = "off" /\ slots = [i \in Slots |-> Free] /\ ready = {}

\* Up to listen; setsockopt, bind and listen are checked.
SelectListen ==
    /\ mpc = "off"
    /\ \/ mpc' = "select" /\ listening' = TRUE
       \/ mpc' = "stopped" /\ UNCHANGED listening
    /\ UNCHANGED <<slots, ready, whole, backlog, cend, send, up, down, hit>>

\* The slots FD_SET and select make ready.
ReadySlots == {i \in Slots : slots[i] # Free /\ Readable(slots[i])}

\* select; that it returns after 5 seconds with nothing ready changes nothing.
Select ==
    /\ mpc = "select"
    /\ backlog # <<>> \/ ReadySlots # {}
    /\ ready' = ReadySlots
    /\ mpc' = IF backlog # <<>> THEN "accept" ELSE "serve"
    /\ UNCHANGED <<slots, tcpVars>>

\* The table goes with the process.
TableGone == slots' = [i \in Slots |-> Free] /\ ready' = {}

\* select returns -1: the loop is left and the program ends.
SelectFails ==
    /\ mpc = "select"
    /\ mpc' = "stopped"
    /\ ServerGone /\ TableGone

\* The first free slot takes the first pending connection.
AcceptInto(i) ==
    /\ slots' = [slots EXCEPT ![i] = Head(backlog)]
    /\ send' = [send EXCEPT ![Head(backlog)] = "open"]
    /\ backlog' = Tail(backlog)

\* Mutant of Accept: the pass is given up when no slot is free.
AcceptAgain ==
    /\ mpc = "accept" /\ backlog # <<>>
    /\ LET free == {i \in Slots : slots[i] = Free} IN
         IF free = {} THEN mpc' = "select" /\ UNCHANGED <<slots, send, backlog>>
         ELSE (mpc' = IF ready = {} THEN "select" ELSE "serve") /\ AcceptInto(Min(free))
    /\ UNCHANGED <<ready, whole, listening, cend, up, down, hit>>

\* With no slot free, or when accept fails and leaves the slot free, nothing is
\* accepted, and select will return at once again.
Accept ==
    /\ mpc = "accept" /\ backlog # <<>>
    /\ LET free == {i \in Slots : slots[i] = Free} IN
         \/ free # {} /\ AcceptInto(Min(free))
         \/ UNCHANGED <<slots, send, backlog>>
    /\ mpc' = IF ready = {} THEN "select" ELSE "serve"
    /\ UNCHANGED <<ready, whole, listening, cend, up, down, hit>>

\* The slot whose turn it is in the loop over the slots, and the step after it.
Turn == Min(ready)
Served == /\ ready' = ready \ {Turn}
          /\ mpc' = IF ready = {Turn} THEN "select" ELSE "serve"

\* close and the free slot.
FreeSlot(c) == slots' = [slots EXCEPT ![Turn] = Free] /\ CloseEnd(c)

\* Mutant of Reply: buf is not cleared, so that n is the longest length so far.
ReplyLong(part) == IntBytes(IntUnits, Len(part))

\* n is the length of what recv returned, and as many bytes of n are sent back.
Reply(part) == IntBytes(Len(part), Len(part))

\* Mutant of Leaves: the connection is closed after every word.
LeavesAlways(part) == TRUE

\* strcmp(buf, "exit")
Leaves(part) == part = Exit

\* recv returns some units, which are answered; "exit" closes the connection.
AnswerSlot ==
    /\ mpc = "serve" /\ Served
    /\ LET c == slots[Turn] IN
         \E part \in Parts(up[c]) :
            /\ SendDown(c, Reply(part))
            /\ IF Leaves(part) THEN FreeSlot(c)
               ELSE up' = [up EXCEPT ![c] = Rest(@, part)] /\ UNCHANGED <<slots, send>>
    /\ UNCHANGED <<whole, listening, backlog, cend>>

\* Mutant of DropSlot: socketfds[i] keeps the closed descriptor.
DropSlotKeep ==
    /\ mpc = "serve" /\ Served
    /\ LET c == slots[Turn] IN
         up[c] = <<>> /\ cend[c] = "closed" /\ CloseEnd(c)
    /\ UNCHANGED <<slots, whole, listening, backlog, cend, down, hit>>

\* recv returns 0 or -1: the client is gone.
DropSlot ==
    /\ mpc = "serve" /\ Served
    /\ LET c == slots[Turn] IN /\ up[c] = <<>> /\ cend[c] = "closed"
                             /\ FreeSlot(c) /\ hit' = [hit EXCEPT ![c] = FALSE]
    /\ UNCHANGED <<whole, listening, backlog, cend, down>>

\* The send raises SIGPIPE, which is not handled.
SelectSigpipe ==
    /\ mpc = "serve" /\ up[slots[Turn]] # <<>> /\ hit[slots[Turn]]
    /\ mpc' = "killed"
    /\ ServerGone /\ TableGone

\* SIGINT: stop closes every socket and exits.
Stop ==
    /\ mpc \in {"select", "accept", "serve"}
    /\ mpc' = "stopped"
    /\ ServerGone /\ TableGone

SelectStep == SelectListen \/ Select \/ Accept \/ AnswerSlot \/ DropSlot

SelectTypeOK ==
    /\ mpc \in {"off", "select", "accept", "serve", "killed", "stopped"}
    /\ slots \in [Slots -> Clients \cup {Free}]
    /\ ready \subseteq Slots

SelectRunning == mpc \in {"select", "accept", "serve"}

\* The slots are exactly the accepted connections, each in one slot; and since
\* only this process reads them, what select found readable is still readable
\* when its turn comes: the one thread never blocks in accept or recv.
SlotTable ==
    SelectRunning =>
        /\ \A i, j \in Slots : slots[i] # Free /\ slots[i] = slots[j] => i = j
        /\ \A c \in Clients : send[c] = "open" <=> \E i \in Slots : slots[i] = c
        /\ \A i \in ready : slots[i] # Free /\ Readable(slots[i])
        /\ mpc = "serve" => ready # {}
        /\ mpc = "accept" => backlog # <<>>
=============================================================================
