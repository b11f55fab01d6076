---------------------------- MODULE MCOfferings ----------------------------
(* Instances of Offerings for TLC.                                         *)
EXTENDS Offerings, TLC
=============================================================================
