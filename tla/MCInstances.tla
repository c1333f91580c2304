----------------------------- MODULE MCInstances -----------------------------
(***************************************************************************)
(* Instances of Instances for TLC.  A behaviour is about the clock, about  *)
(* what firmware calls on the manager's thread, or about what two threads  *)
(* call; each leaves out what the others vary.                             *)
(***************************************************************************)
EXTENDS Instances, TLC

CONSTANTS a, b, main, worker, MaxThreadSpawns

VARIABLE about

IdSymmetry == Permutations(Ids)

Within ==
  CASE about = "clock"    -> calls = 0
    [] about = "firmware" -> clock = 0 /\ \A c \in Callers \ {Main} : pending[c] = None
    [] about = "threads"  -> clock = 0 /\ spawns <= MaxThreadSpawns

MCInit == about \in {"clock", "firmware", "threads"} /\ Init

MCNext == UNCHANGED about /\ Next /\ Within'

MCSpec == MCInit /\ [][MCNext]_<<instVars, about>>
=============================================================================
