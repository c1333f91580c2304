------------------------------ MODULE MCBuzzer ------------------------------
(* Instances of Buzzer for TLC.                                            *)
EXTENDS Buzzer, TLC

CONSTANTS x, y

CallerSymmetry == Permutations(Callers)
=============================================================================
