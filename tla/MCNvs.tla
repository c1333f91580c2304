------------------------------- MODULE MCNvs -------------------------------
(* Instances of Nvs for TLC.                                               *)
EXTENDS Nvs, TLC

CONSTANTS x, y, k, l, p, q, small, large

MCWeight(v) == IF v = small THEN 1 ELSE 2

LifeKinds == {"init", "put", "remove", "destroy"}
StaleKinds == {"init", "put", "destroy"}
DisagreementKinds == {"init", "put", "remove", "destroy", "save"}
AllFaults == {"write", "rename"}

Symmetries == Permutations(Threads) \cup Permutations(Keys)
=============================================================================
