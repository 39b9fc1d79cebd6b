-------------------------- MODULE MCShmSemRestart --------------------------
(***************************************************************************)
(* Constants for model checking ShmSemRestart: the strings of MCShmSem.    *)
(***************************************************************************)
EXTENDS ShmSemRestart, MCShmSem

MCFewWords == {"Apple", "exit"}
=============================================================================
