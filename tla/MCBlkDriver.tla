---------------------------- MODULE MCBlkDriver ----------------------------
(* BlkDriver on a disk of two sectors with two contents. *)
EXTENDS BlkDriver
=============================================================================
