---------------------------- MODULE MCSdStorage ----------------------------
(* Instances of SdStorage for TLC.                                         *)
EXTENDS SdStorage, TLC

CONSTANTS x, y, f, g, b, b2

ThreadSymmetry == Permutations(Firmware)
PathSymmetry == Permutations(Paths)
Symmetries == Permutations(Firmware) \cup Permutations(Paths) \cup Permutations(Blocks)

FileKinds == {"open", "write", "read", "close", "put", "remove", "destroy"}
ControlKinds == {"init", "behave", "open", "end", "quiesce", "powerOn", "attach", "flush",
                 "peek", "spiffs"}
DisagreementKinds == {"init", "behave", "open", "end", "peek", "destroy", "attach", "flush"}

(* The card has been mounted before. *)
MountedInit ==
  /\ power = TRUE
  /\ registry = 1 /\ buses = 1
  /\ spiOwner = [n \in Buses |-> None]
  /\ screenBus = 0
  /\ card = [FreshCard EXCEPT !.mounted = TRUE]
  /\ behavior = [slow |-> FALSE, delay |-> 0]
  /\ files = [p \in Paths |-> None]
  /\ handles = [h \in HandleIds |-> None]
  /\ handlesOwner = None
  /\ todo = [t \in Threads |-> << >>]
  /\ args = [t \in Threads |-> None]
  /\ calls = 1
MountedSpec == MountedInit /\ [][SdNext]_sdVars
=============================================================================
