---------------------------- MODULE MCGenInitCpio ----------------------------
(* gen_init_cpio on short lists with few threads. *)
EXTENDS GenInitCpio, TLC
=============================================================================
