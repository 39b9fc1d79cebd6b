----------------------------- MODULE MCNamedPipe -----------------------------
(***************************************************************************)
(* Constants for model checking NamedPipe.                                 *)
(***************************************************************************)
EXTENDS NamedPipe

MCLength == [w \in Words |->
                CASE w = "Apple" -> 5 [] w = "Ball" -> 4 [] OTHER -> 3]
=============================================================================
