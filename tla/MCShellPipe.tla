----------------------------- MODULE MCShellPipe -----------------------------
(***************************************************************************)
(* Constants for model checking ShellPipe: commands that work for less and *)
(* for more than the pipe holds, one that never ends by itself (`yes`, or  *)
(* `cat` as a reader) and one that is not there; every line of none, one   *)
(* or two of them, and one of three.                                       *)
(***************************************************************************)
EXTENDS ShellPipe

CONSTANTS short, long, endless, missing

MCCommands  == {short, long, endless, missing}
MCInstalled == {short, long, endless}
MCWork      == [c \in MCCommands |-> CASE c = short -> 1 [] c = long -> 4
                                       [] c = endless -> Endless [] OTHER -> 0]
MCLines == {<<>>, <<long, short, endless>>}
             \cup {<<c>> : c \in MCCommands}
             \cup {<<c, d>> : c, d \in MCCommands}
=============================================================================
