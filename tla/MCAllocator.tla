---------------------------- MODULE MCAllocator ----------------------------
(* Instance of Allocator for TLC. *)
EXTENDS Allocator
=============================================================================
