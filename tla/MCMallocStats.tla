---------------------------- MODULE MCMallocStats ----------------------------
(* Instance of MallocStats for model checking; constants in MallocStats.cfg. *)
EXTENDS MallocStats
=============================================================================
