------------------------------- MODULE MCWire -------------------------------
(***************************************************************************)
(* Instances of Wire for TLC.  A run starts with nothing and has only the  *)
(* host's input, or with wires that were created and begun after two keys  *)
(* were typed, of which one may be of no instance, and has everything      *)
(* else, with few events of the host and none beside a wire of no          *)
(* instance.                                                               *)
(***************************************************************************)
EXTENDS Wire, TLC

CONSTANTS a, b, letter, shift, up, pointer, dark, lit,
  MaxEventsOnWires   \* bound on host events while there are wires

WireSymmetry == Permutations(Wires)

StandingInit ==
  /\ manager = NewManager(1) /\ window = FALSE
  /\ retained = None
  /\ \E keyMode \in BOOLEAN, legacy \in {{}} \cup {{w} : w \in Wires} :
       /\ legacy # {} => ~keyMode
       /\ devices = <<[NewDevice EXCEPT !.keyMode = keyMode,
                         !.queue = <<[at |-> 1, upper |-> FALSE], [at |-> 2, upper |-> FALSE]>>]>>
                    \o IF legacy = {} THEN << >> ELSE <<LegacyDevice(Dark)>>
       /\ wires = [w \in Wires |-> [NewWire(IF w \in legacy THEN 2 ELSE 1, w \notin legacy)
                                      EXCEPT !.begun = TRUE]]
  /\ told = [s \in Sources |-> FALSE] /\ missed = {}
  /\ injected = 2 /\ finger = FALSE /\ hostEvents = 0
  /\ handles = {} /\ powered = TRUE
  /\ got = [w \in Wires |-> << >>] /\ calling = None /\ late = FALSE /\ wireCalls = 0

WithWires == Open # {} \/ wireCalls > 0
NoLegacyWire == \A w \in Open : wires[w].checked

TypingNext ==
  \/ CreateWindow \/ DestroyWindow
  \/ hostEvents < MaxEventsOnWires /\ InjectKey(Letter, TRUE)
  \/ hostEvents < MaxEventsOnWires /\ InjectKey(Letter, FALSE)
  \/ \E pressed \in BOOLEAN : hostEvents < MaxEventsOnWires /\ InjectTouch(TRUE, pressed)

MCNext ==
  \/ ~WithWires /\ InputNext /\ UNCHANGED <<busVars, wireCalls>>
  \/ WithWires /\ NoLegacyWire /\ TypingNext /\ UNCHANGED <<busVars, wireCalls>>
  \/ WithWires /\ (KeyboardCreate \/ SwitchRail)
  \/ \E d \in handles : KeyboardDestroy(d)
  \/ \E d \in handles : hostEvents < MaxEventsOnWires /\ KeyboardInject(d)
  \/ \E d \in handles, persist \in BOOLEAN : SetCrossReset(d, persist)
  \/ \E w \in Wires : WithWires /\ BusNext(w)

MCSpec == (WireInit \/ StandingInit) /\ [][MCNext]_wireVars
=============================================================================
