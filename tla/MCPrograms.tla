----------------------------- MODULE MCPrograms -----------------------------
(***************************************************************************)
(* Constants for model checking Programs: words and lines of one, two and  *)
(* three words, a command that is not installed among them.                *)
(***************************************************************************)
EXTENDS Programs

MCLength == [w \in Words |-> CASE w = "I" -> 1 [] OTHER -> 5]
MCLines  == {<<"ls">>, <<"ls", "-l">>, <<"nope", "-l">>, <<"cat", "a", "b">>}

\* rw-r--r-- and r--rwxrwx.
MCModes == {{"u"} \X {"r", "w"} \cup {<<"g", "r">>}, {<<"u", "r">>} \cup {"g"} \X {"r", "w", "x"}}
=============================================================================
