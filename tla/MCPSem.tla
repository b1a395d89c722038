-------------------------------- MODULE MCPSem --------------------------------
(* psem on a small set of threads that call psem_down and psem_up freely. *)
EXTENDS PSem, TLC
=============================================================================
