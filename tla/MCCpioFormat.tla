---------------------------- MODULE MCCpioFormat ----------------------------
(* All residues of name, target and file lengths modulo four. *)
EXTENDS CpioFormat, TLC
=============================================================================
