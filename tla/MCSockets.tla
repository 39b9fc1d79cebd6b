----------------------------- MODULE MCSockets -----------------------------
(***************************************************************************)
(* Constants for model checking Sockets: three clients and two slots.      *)
(* The first sends two words when words arrive whole, so that one follows  *)
(* an answer; the third only takes a slot or waits for one.                *)
(***************************************************************************)
EXTENDS Sockets

MCExit == <<"e", "x">>
MCMaxWords == [w \in BOOLEAN |-> [c \in Clients |->
                 CASE c = "c1" -> IF w THEN 2 ELSE 1 [] c = "c2" -> 1 [] OTHER -> 0]]
=============================================================================
