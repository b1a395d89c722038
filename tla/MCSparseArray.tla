---------------------------- MODULE MCSparseArray ----------------------------
(* Four indices, two objects, one slot at first: the array doubles twice. *)
EXTENDS SparseArray, TLC
=============================================================================
