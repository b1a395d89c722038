------------------------------ MODULE MCTestSem ------------------------------
(* test_sem with few processes. *)
EXTENDS TestSem, TLC
=============================================================================
