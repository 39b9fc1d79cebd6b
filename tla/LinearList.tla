----------------------------- MODULE LinearList -----------------------------
(***************************************************************************)
(* chapter01/linearlist.c: Size nodes of an array are linked into a list   *)
(* while their numbers are read, and the list is walked and printed.  The  *)
(* nodes are 1..Size; Size+1 is the address just after the array, which    *)
(* the loop stores as the last link until NULL replaces it.                *)
(***************************************************************************)
EXTENDS Naturals, Sequences

CONSTANTS
    Size,     \* nodes of the array
    Numbers,  \* what the user may type
    Garbage   \* what a node holds that scanf has not written

SizeAssumption == Size \in Nat \ {0}

Null  == 0
Nodes == 1..Size

VARIABLES
    pc,    \* the next step
    ptr,   \* the variables ptr and curr: a node, Null, or Size+1
    curr,
    data,  \* the two fields of each node
    next,
    out    \* the numbers printed

vars == <<pc, ptr, curr, data, next, out>>

Init ==
    /\ pc = "read" /\ ptr = 1 /\ curr = Null
    /\ data = [i \in Nodes |-> Garbage]
    /\ next \in [Nodes -> {Null, 1}]   \* not initialised
    /\ out = <<>>

\* One round of the loop: scanf, which leaves the node as it is when no number
\* comes, and the link to the node after it.  i is the number of ptr.
Read ==
    /\ pc = "read" /\ ptr <= Size
    /\ \E x \in Numbers \cup {Garbage} : data' = [data EXCEPT ![ptr] = x]
    /\ curr' = ptr
    /\ next' = [next EXCEPT ![ptr] = ptr + 1]
    /\ ptr' = ptr + 1
    /\ UNCHANGED <<pc, out>>

\* Mutant of Finish: the last link is left as it is.
FinishOpen ==
    /\ pc = "read" /\ ptr > Size
    /\ pc' = "walk" /\ ptr' = 1
    /\ UNCHANGED <<curr, data, next, out>>

\* curr->next = NULL and ptr = arr.
Finish ==
    /\ pc = "read" /\ ptr > Size
    /\ next' = [next EXCEPT ![curr] = Null]
    /\ pc' = "walk" /\ ptr' = 1
    /\ UNCHANGED <<curr, data, out>>

\* One round of the second loop.
Walk ==
    /\ pc = "walk" /\ ptr \in Nodes
    /\ out' = Append(out, data[ptr])
    /\ ptr' = next[ptr]
    /\ UNCHANGED <<pc, curr, data, next>>

\* The steps that do not wait for the user.
ListStep == Finish \/ Walk

Next == Read \/ ListStep

Spec == Init /\ [][Next]_vars
-----------------------------------------------------------------------------
TypeOK ==
    /\ pc \in {"read", "walk"}
    /\ ptr \in 0..(Size + 1) /\ curr \in 0..Size
    /\ data \in [Nodes -> Numbers \cup {Garbage}]
    /\ next \in [Nodes -> 0..(Size + 1)]
    /\ out \in Seq(Numbers \cup {Garbage})

\* The walk stays in the array: the address after it, which was a link for a
\* while and is what ptr holds at the end of the first loop, is never followed.
\* What is printed are the numbers read, each once and in the order they were
\* read, and all of them when the walk is over.
PrintsInOrder ==
    pc = "walk" =>
      /\ ptr \in Nodes \cup {Null}
      /\ Len(out) <= Size /\ \A i \in 1..Len(out) : out[i] = data[i]
      /\ ptr = Null => Len(out) = Size

\* Once the last number has been read the walk comes to its end: the links make
\* no cycle.  (Reading waits for the user.)
Walked == pc = "walk" /\ ptr = Null
ListEnds == (pc = "read" /\ ptr > Size) ~> Walked
-----------------------------------------------------------------------------
\* The inductive invariant: up to curr each node is linked to the one after
\* it, and the walk has printed the nodes before ptr.
Linked(n) == \A i \in Nodes : i <= n => next[i] = i + 1

ListInv ==
    /\ TypeOK
    /\ pc = "read" => /\ ptr \in 1..(Size + 1) /\ curr = ptr - 1
                      /\ Linked(curr) /\ out = <<>>
    /\ pc = "walk" => /\ Linked(Size - 1) /\ next[Size] = Null
                      /\ ptr = IF Len(out) = Size THEN Null ELSE Len(out) + 1
                      /\ PrintsInOrder
=============================================================================
