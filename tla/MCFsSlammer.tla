---------------------------- MODULE MCFsSlammer ----------------------------
(* Two slammers and a reader, with fewer descriptors than they all need. *)
EXTENDS FsSlammer
=============================================================================
