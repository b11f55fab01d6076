----------------------------- MODULE MCPayment -----------------------------
(* Instances of Payment for TLC.                                           *)
EXTENDS Payment, TLC

CONSTANTS p1, p2

PostPermutations == Permutations(Posts)
=============================================================================
