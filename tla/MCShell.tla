------------------------------- MODULE MCShell -------------------------------
(* Shell with commands of one character. *)
EXTENDS Shell

MCExit == <<"x">>
MCShmTest == <<"s">>
=============================================================================
