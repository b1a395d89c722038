-------------------------------- MODULE MCXSem --------------------------------
(* The semaphore used freely: any process may call xsem_down or xsem_up. *)
EXTENDS XSem, TLC
=============================================================================
