------------------------------ MODULE RadioBus ------------------------------
(***************************************************************************)
(* The virtual radio network of core/radio_bus/src/bus.rs: registered      *)
(* nodes, the list of scheduled transmissions, and the tick that resolves  *)
(* completed transmissions into receive queues and then forgets those it   *)
(* no longer needs.                                                        *)
(*                                                                         *)
(* Every caller holds the one BUS mutex of core/bridge/src/ffi.rs, so each *)
(* method is one atomic step, and every caller passes BusState.now_ms as   *)
(* the time: `nowMs` is that clock.                                        *)
(*                                                                         *)
(* RadioBus.transmissions is a Vec of (event, finalized).  Its order is    *)
(* the order of the serial numbers, so it is modelled by two sets:         *)
(* `unfinished` holds the events whose flag is false, `finished` those     *)
(* whose flag is true and that have not been dropped.                      *)
(***************************************************************************)
EXTENDS RadioAir, Sequences

CONSTANTS
  NoNode,         \* the value of an absent entry of RadioBus.nodes
  MaxSends,       \* bound: accepted transmissions in one behaviour
  MaxTime         \* bound: latest value of the clock

VARIABLES
  nodes,          \* RadioBus.nodes: NodeState of each registered id
  unfinished,     \* transmissions that are not finalized
  finished,       \* finalized transmissions still kept for collisions
  nowMs,          \* BusState.now_ms
  sent,           \* accepted transmissions so far, numbers the events
  air,            \* history: every transmission ever accepted
  received        \* history: received[n], serials ever put in n's inbox

vars == <<nodes, unfinished, finished, nowMs, sent, air, received>>

NodeState == [position : Positions,
              txPower  : TxPowers,
              channel  : Channels,
              inbox    : Seq(RxPacket),
              busyUntil: Nat,
              rxEnabled: BOOLEAN,
              dio2     : BOOLEAN]

Registered == {n \in Nodes : nodes[n] # NoNode}

(* A node without its receive queue. *)
RadioSettings == [position : Positions, txPower : TxPowers, channel : Channels,
                  busyUntil : Nat, rxEnabled : BOOLEAN, dio2 : BOOLEAN]

ASSUME NoNodeAssumption == NoNode \notin NodeState \cup RadioSettings

AllEvents == unfinished \cup finished

Init ==
  /\ nodes = [n \in Nodes |-> NoNode]
  /\ unfinished = {}
  /\ finished = {}
  /\ nowMs = 0
  /\ sent = 0
  /\ air = {}
  /\ received = [n \in Nodes |-> {}]

-----------------------------------------------------------------------------
(* Methods that touch one entry of `nodes`. *)

(* register_node inserts a fresh state, whatever the id held before. *)
RegisterNode(n, position, power, channel) ==
  /\ nodes' = [nodes EXCEPT ![n] =
                 [position |-> position, txPower |-> power,
                  channel |-> channel, inbox |-> << >>, busyUntil |-> 0,
                  rxEnabled |-> TRUE, dio2 |-> FALSE]]
  /\ UNCHANGED <<unfinished, finished, nowMs, sent, air, received>>

(* unregister_node leaves the node's transmissions in the air. *)
UnregisterNode(n) ==
  /\ n \in Registered
  /\ nodes' = [nodes EXCEPT ![n] = NoNode]
  /\ UNCHANGED <<unfinished, finished, nowMs, sent, air, received>>

UpdatePosition(n, position) ==
  /\ n \in Registered
  /\ nodes' = [nodes EXCEPT ![n].position = position]
  /\ UNCHANGED <<unfinished, finished, nowMs, sent, air, received>>

SetDio2(n, on) ==
  /\ n \in Registered
  /\ nodes' = [nodes EXCEPT ![n].dio2 = on]
  /\ UNCHANGED <<unfinished, finished, nowMs, sent, air, received>>

(* Disabling reception also empties the receive FIFO. *)
SetReceiveEnabledKeepsFifo(n, enabled) ==  \* mutant: the FIFO survives
  /\ n \in Registered
  /\ nodes' = [nodes EXCEPT ![n].rxEnabled = enabled]
  /\ UNCHANGED <<unfinished, finished, nowMs, sent, air, received>>
SetReceiveEnabled(n, enabled) ==
  /\ n \in Registered
  /\ nodes' = [nodes EXCEPT ![n].rxEnabled = enabled,
                            ![n].inbox = IF enabled THEN @ ELSE << >>]
  /\ UNCHANGED <<unfinished, finished, nowMs, sent, air, received>>

Poll(n) ==
  /\ n \in Registered
  /\ nodes' = [nodes EXCEPT ![n].inbox = << >>]
  /\ UNCHANGED <<unfinished, finished, nowMs, sent, air, received>>

-----------------------------------------------------------------------------
(* Sending. *)

(* The test that makes broadcast return false. *)
CanSend(n) ==
  /\ n \in Registered
  /\ nowMs >= nodes[n].busyUntil

(* The event broadcast stores: position, power and channel are those of    *)
(* the registered node at the time of the call.                            *)
Scheduled(n, airtime) ==
  [serial |-> sent + 1, node |-> n, channel |-> nodes[n].channel,
   power |-> RadiatedPower(nodes[n].txPower, nodes[n].dio2),
   position |-> nodes[n].position, start |-> nowMs, airtime |-> airtime]

Broadcast(n, airtime) ==
  /\ CanSend(n)
  /\ sent < MaxSends
  /\ nowMs + airtime <= MaxTime
  /\ nodes' = [nodes EXCEPT ![n].busyUntil = nowMs + airtime]
  /\ unfinished' = unfinished \cup {Scheduled(n, airtime)}
  /\ sent' = sent + 1
  /\ air' = air \cup {Scheduled(n, airtime)}
  /\ UNCHANGED <<finished, nowMs, received>>

IsSendComplete(n) == n \in Registered /\ nowMs >= nodes[n].busyUntil

-----------------------------------------------------------------------------
(* tick: resolve what has ended by t, then drop what nobody needs. *)

CompletedEarly(t) ==  \* mutant: decided one millisecond before the end
  {e \in unfinished : TransmissionEnd(e) <= t + 1}
Completed(t) == {e \in unfinished : TransmissionEnd(e) <= t}

(* The events of a finite set in the order of the list. *)
InListOrder(events) ==
  [i \in 1..Cardinality(events) |->
     CHOOSE e \in events :
       Cardinality({f \in events : f.serial < e.serial}) = i - 1]

(* The completed events that node n receives in a tick at time t. *)
DeliveredTo(n, t) ==
  {e \in Completed(t) : n \in Registered /\ Receives(e, n, nodes[n], AllEvents)}

NewPackets(n, t) ==
  LET events == InListOrder(DeliveredTo(n, t))
  IN  [i \in 1..Cardinality(DeliveredTo(n, t)) |-> PacketFor(events[i], nodes[n])]

(* retain: a finalized event stays while an unfinished one overlaps it. *)
RetainedNone(events, pending) == {}  \* mutant: what is finalized is dropped
Retained(events, pending) ==
  {e \in events : \E f \in pending : TransmissionsOverlap(e, f)}

(* The caller never passes a time before nowMs; see Next. *)
Tick(t) ==
  /\ nowMs' = t
  /\ nodes' = [n \in Nodes |->
                 IF n \in Registered
                 THEN [nodes[n] EXCEPT !.inbox = @ \o NewPackets(n, t)]
                 ELSE NoNode]
  /\ unfinished' = unfinished \ Completed(t)
  /\ finished' = Retained(finished \cup Completed(t), unfinished')
  /\ received' = [n \in Nodes |->
                    received[n] \cup {e.serial : e \in DeliveredTo(n, t)}]
  /\ UNCHANGED <<sent, air>>

-----------------------------------------------------------------------------
Next ==
  \/ \E n \in Nodes, p \in Positions, w \in TxPowers, c \in Channels :
       RegisterNode(n, p, w, c)
  \/ \E n \in Nodes : UnregisterNode(n)
  \/ \E n \in Nodes, p \in Positions : UpdatePosition(n, p)
  \/ \E n \in Nodes, on \in BOOLEAN : SetDio2(n, on)
  \/ \E n \in Nodes, on \in BOOLEAN : SetReceiveEnabled(n, on)
  \/ \E n \in Nodes : Poll(n)
  \/ \E n \in Nodes, a \in Airtimes : Broadcast(n, a)
  \/ \E t \in nowMs..MaxTime : Tick(t)

Spec == Init /\ [][Next]_vars

-----------------------------------------------------------------------------
(* Properties. *)

(* Every variable has its type; in particular a finalized transmission is  *)
(* in the past and the receive queues hold packets.                        *)
TypeOK ==
  /\ nodes \in [Nodes -> NodeState \cup {NoNode}]
  /\ unfinished \subseteq TxEvent /\ IsFiniteSet(unfinished)
  /\ finished \subseteq TxEvent /\ IsFiniteSet(finished)
  /\ air \subseteq TxEvent
  /\ nowMs \in Nat
  /\ sent \in Nat
  /\ received \in [Nodes -> SUBSET Nat]

(* Pruning is safe: whatever was ever in the air and overlaps a packet     *)
(* that is still undecided is still in the list (bus.rs tick, retain).     *)
HistorySuffices ==
  \A e \in unfinished, f \in air :
    TransmissionsOverlap(e, f) => f \in AllEvents

(* What makes HistorySuffices inductive: the list holds part of the past,  *)
(* nothing starts in the future, what has left `unfinished` has ended,     *)
(* serial numbers tell the events apart and follow their starts, and only  *)
(* decided ones are received.                                              *)
PastOnly ==
  /\ unfinished \subseteq air
  /\ finished \subseteq air
  /\ \A e \in air : e.start <= nowMs
  /\ \A e \in air \ unfinished : TransmissionEnd(e) <= nowMs
SerialsIdentify ==
  /\ \A e \in air : e.serial <= sent
  /\ \A e, f \in air : e.serial = f.serial => e = f
  /\ \A e, f \in air : e.serial < f.serial => e.start <= f.start
ReceivedIsDecided ==
  \A n \in Nodes : \A s \in received[n] :
    \E e \in air \ unfinished : e.serial = s

(* The inductive invariant of the bus. *)
IInv ==
  /\ TypeOK
  /\ PastOnly
  /\ SerialsIdentify
  /\ HistorySuffices
  /\ ReceivedIsDecided

(* Verdicts are final: nothing sent after a packet has been decided        *)
(* overlaps it, so no later send could have destroyed what was received.   *)
NoLateInterference ==
  [][\A e \in air' \ air, f \in air \ unfinished :
       ~TransmissionsOverlap(e, f)]_vars

(* Half duplex over the whole past: no node ever received a packet that    *)
(* overlaps one it sent itself, even one the list has forgotten.           *)
HalfDuplexHolds ==
  \A n \in Nodes, e \in air, f \in air :
    e.serial \in received[n] /\ f.node = n => ~TransmissionsOverlap(e, f)

(* Of two packets that overlap a radio that stands still never gets both,  *)
(* in one tick or in two (bus.rs:319): each would have to be stronger than *)
(* all that overlaps it.  Two that the bus takes for one transmission are  *)
(* excepted.                                                               *)
CaptureIsExclusive ==
  \A n \in Nodes, e \in air, f \in air :
    {e.serial, f.serial} \subseteq received[n] /\ TransmissionsOverlap(e, f)
    => SameTransmission(e, f)

(* A step in which no radio is moved, retuned or removed. *)
StandsStill ==
  \A n \in Registered : /\ nodes'[n] # NoNode
                        /\ nodes'[n].position = nodes[n].position
                        /\ nodes'[n].channel = nodes[n].channel

(* The same within one tick, for radios that move between the ticks.       *)
TicksAreExclusive ==
  [][\A n \in Nodes, e \in air, f \in air :
       /\ {e.serial, f.serial} \subseteq received'[n] \ received[n]
       /\ TransmissionsOverlap(e, f)
       => SameTransmission(e, f)]_vars

(* The queue is filled in list order, the order of the starts, yet it is   *)
(* sorted by the time the packets ended: one that starts first and ends    *)
(* last overlaps the other, and then at most one of them is received.      *)
InboxInCompletionOrder ==
  \A n \in Registered : LET inbox == nodes[n].inbox IN
    \A i, j \in 1..Len(inbox) : i < j =>
      \/ inbox[i].end < inbox[j].end
      \/ \E e, f \in air : /\ e.serial = inbox[i].serial
                           /\ f.serial = inbox[j].serial
                           /\ SameTransmission(e, f)

(* The bus implements the network that never forgets a transmission. *)
SettingsOf(r) ==
  [position |-> r.position, txPower |-> r.txPower, channel |-> r.channel,
   busyUntil |-> r.busyUntil, rxEnabled |-> r.rxEnabled, dio2 |-> r.dio2]
Ideal == INSTANCE IdealRadio WITH
  undecided <- unfinished,
  radios <- [n \in Nodes |->
    IF n \in Registered THEN SettingsOf(nodes[n]) ELSE NoNode]
ImplementsIdealRadio == Ideal!IdealSpec

(* "If two packets overlap in time at a receiver, both are lost (unless    *)
(* one is significantly stronger)", plan.md:171.                           *)
OverlapLosesOne ==
  [][\A n \in Nodes, e \in air, f \in air :
       /\ {e.serial, f.serial} \subseteq received'[n] \ received[n]
       /\ e # f
       => ~TransmissionsOverlap(e, f)]_vars
=============================================================================
