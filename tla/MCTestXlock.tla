----------------------------- MODULE MCTestXlock -----------------------------
(* test_xlock with few children and turns. *)
EXTENDS TestXlock, TLC
=============================================================================
