---------------------------- MODULE MCProcesses ----------------------------
(* Instance of Processes for TLC. *)
EXTENDS ProcessesInvariant

\* Init does not panic and boot reaches the first user process.
ASSUME BootFits == NUSERS > 0
=============================================================================
