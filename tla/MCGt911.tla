------------------------------ MODULE MCGt911 ------------------------------
(* Instances of Gt911 for TLC. *)
EXTENDS Gt911, TLC

CONSTANTS one, two, x, y, p, q

PointSymmetry == Permutations(Points)
=============================================================================
