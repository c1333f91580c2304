----------------------------- MODULE IdealRadio -----------------------------
(***************************************************************************)
(* What the radio network promises to firmware, without the list that      *)
(* RadioBus prunes and without receive queues: every transmission ever     *)
(* made is remembered, and when one has ended it is decided, once, against *)
(* all of them.  RadioBus is shown to implement this specification: what   *)
(* it forgets can never be missed.                                         *)
(*                                                                         *)
(* What the air does to a packet is a parameter here, and that of RadioAir *)
(* where RadioBus instantiates this module.                                *)
(***************************************************************************)
EXTENDS Naturals

CONSTANTS
  Nodes,                      \* instance identifiers that may own a radio
  NoNode,                     \* the settings of a radio that is not there
  TransmissionEnd(_),         \* when a transmission ends
  RadiatedPower(_, _),        \* by transmit power and RF switch setting
  Receives(_, _, _, _)        \* transmission, receiver, its settings, all
                              \* transmissions: is it received?

VARIABLES
  radios,         \* settings of every registered radio
  nowMs,          \* network time
  air,            \* every transmission ever made
  undecided,      \* those whose reception is still open
  received        \* received[n]: serials that reached radio n

idealVars == <<radios, nowMs, air, undecided, received>>

Present == {n \in Nodes : radios[n] # NoNode}

IdealInit ==
  /\ radios = [n \in Nodes |-> NoNode]
  /\ nowMs = 0
  /\ air = {}
  /\ undecided = {}
  /\ received = [n \in Nodes |-> {}]

(* One radio appears, disappears or changes its settings; that neither     *)
(* keys it nor decides anything.                                           *)
Configure(n) ==
  /\ \A m \in Nodes \ {n} : radios'[m] = radios[m]
  /\ DOMAIN radios' = Nodes
  /\ n \in Present /\ radios'[n] # NoNode =>
       radios'[n].busyUntil \in {0, radios[n].busyUntil}
  /\ UNCHANGED <<nowMs, air, undecided, received>>

(* A radio that is not sending keys up, now, with its present settings.    *)
Transmit(n) ==
  /\ n \in Present
  /\ nowMs >= radios[n].busyUntil
  /\ \E e \in air' :
       /\ e.node = n
       /\ e.start = nowMs
       /\ e.channel = radios[n].channel
       /\ e.position = radios[n].position
       /\ e.power = RadiatedPower(radios[n].txPower, radios[n].dio2)
       /\ \A f \in air : f.serial < e.serial
       /\ air' = air \cup {e}
       /\ undecided' = undecided \cup {e}
       /\ radios' = [radios EXCEPT ![n].busyUntil = TransmissionEnd(e)]
  /\ UNCHANGED <<nowMs, received>>

(* Time passes to t, and everything that has ended by then is decided.     *)
Decide(t) ==
  LET ended == {e \in undecided : TransmissionEnd(e) <= t}
  IN  /\ t >= nowMs
      /\ nowMs' = t
      /\ undecided' = undecided \ ended
      /\ received' = [n \in Nodes |-> received[n] \cup
           {e.serial : e \in {x \in ended : n \in Present /\
                                Receives(x, n, radios[n], air)}}]
      /\ UNCHANGED <<radios, air>>

IdealNext ==
  \/ \E n \in Nodes : Configure(n) \/ Transmit(n)
  \/ nowMs' \in Nat /\ Decide(nowMs')

IdealSpec == IdealInit /\ [][IdealNext]_idealVars
=============================================================================
