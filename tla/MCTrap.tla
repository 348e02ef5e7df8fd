------------------------------- MODULE MCTrap -------------------------------
(***************************************************************************)
(* Trap on a small instance: programs of two instructions in a loop.       *)
(***************************************************************************)
EXTENDS TrapInvariant

MCAfter == [u0 |-> "u1", u1 |-> "u0"]
=============================================================================
