----------------------------- MODULE MCRadioBus -----------------------------
(***************************************************************************)
(* Instances of RadioBus for TLC: two places, a channel per spreading      *)
(* factor, gains chosen so that a nearby sender captures a receiver from a *)
(* distant one, and so that both RF-switch losses decide some reception.   *)
(***************************************************************************)
EXTENDS RadioBus, TLC

CONSTANTS a, b, c, here, there, sf7, sf8

MCGain == [p \in Positions |-> [q \in Positions |-> IF p = q THEN 100 ELSE 10]]
MCSensitivity == [ch \in Channels |-> 100]
MCSameBand == Channels \X Channels

Symmetry == Permutations(Nodes)

(* A standing network: every node registered and its RF switch driven, as  *)
(* after a creation and a DIO2 call of each, before anything is sent.      *)
StandingNode(position, channel) ==
  [position |-> position, txPower |-> 1, channel |-> channel,
   inbox |-> << >>, busyUntil |-> 0, rxEnabled |-> TRUE, dio2 |-> TRUE]

StandingInit ==
  /\ \E at \in [Nodes -> Positions], on \in [Nodes -> Channels] :
       nodes = [n \in Nodes |-> StandingNode(at[n], on[n])]
  /\ unfinished = {} /\ finished = {} /\ nowMs = 0
  /\ sent = 0 /\ air = {} /\ received = [n \in Nodes |-> {}]

(* Nobody moves or leaves: only sends and ticks, in every order. *)
TrafficNext ==
  \/ \E n \in Nodes, t \in Airtimes : Broadcast(n, t)
  \/ \E t \in nowMs..MaxTime : Tick(t)

TrafficSpec == StandingInit /\ [][TrafficNext]_vars

(* A radio is dropped and registered again while its packet is in the air. *)
RekeyNext ==
  \/ TrafficNext
  \/ \E n \in Nodes : Poll(n) \/ UnregisterNode(n)
  \/ \E n \in Nodes \ Registered, p \in Positions, ch \in Channels :
       RegisterNode(n, p, 1, ch)

RekeySpec == StandingInit /\ [][RekeyNext]_vars
=============================================================================
