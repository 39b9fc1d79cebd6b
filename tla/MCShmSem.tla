------------------------------ MODULE MCShmSem ------------------------------
(***************************************************************************)
(* Constants for model checking ShmSem: two words of different lengths and *)
(* "exit", closed under "the length of, in decimal".                       *)
(***************************************************************************)
EXTENDS ShmSem

MCWords == {"Apple", "Ball", "exit"}

MCStrlen == [c \in {"", "0", "1", "4", "5"} \cup MCWords |->
                CASE c = ""      -> "0"
                  [] c = "Apple" -> "5"
                  [] c \in {"Ball", "exit"} -> "4"
                  [] OTHER       -> "1"]

MCContents == DOMAIN MCStrlen
=============================================================================
