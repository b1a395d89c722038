---------------------------- MODULE MCXLockFile ----------------------------
(* Three processes on one name, up to two files created under it. *)
EXTENDS XLockFile
=============================================================================
