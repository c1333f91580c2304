----------------------------- MODULE RadioProofs -----------------------------
(***************************************************************************)
(* Proofs about RadioBus and RadioBridge for every number of nodes, sends, *)
(* positions, channels, times and instances.                               *)
(*                                                                         *)
(* The bus: time only moves forward, so what is sent later starts at or    *)
(* after the end of everything already decided, and what tick keeps is all *)
(* that can still overlap an undecided packet.  A packet that is received  *)
(* is stronger than the sum of its interferers, so of two that overlap     *)
(* only one is.                                                            *)
(*                                                                         *)
(* The bridge: a deep sleep keeps every other call out, so the moment of   *)
(* waking is never in the past and each of its three calls is a step of    *)
(* the bus; every undecided packet ends later than now, and all that       *)
(* firmware has or can read ended by now, so what a tick appends to a      *)
(* receive queue is later than everything before it.                       *)
(***************************************************************************)
EXTENDS RadioBridge, FiniteSetTheorems, SequenceTheorems, TLAPS

-----------------------------------------------------------------------------
(* Facts about the operators. *)

(* Every place of the list order is the rank of one event. *)
LEMMA InListOrderRanks ==
  ASSUME NEW S \in SUBSET TxEvent, IsFiniteSet(S),
         \A e, f \in S : e.serial = f.serial => e = f
  PROVE  \A i \in 1..Cardinality(S) : \E e \in S :
           Cardinality({f \in S : f.serial < e.serial}) = i - 1
<1> DEFINE n == Cardinality(S)
           before(e) == {f \in S : f.serial < e.serial}
           rank == [e \in S |-> Cardinality(before(e))]
<1>1. n \in Nat
  BY FS_CardinalityType
<1>2. \A e \in S : IsFiniteSet(before(e)) /\ Cardinality(before(e)) \in 0..(n-1)
  <2> TAKE e \in S
  <2>1. before(e) \in SUBSET S /\ e \notin before(e)
    BY DEF TxEvent
  <2>2. IsFiniteSet(before(e)) /\ Cardinality(before(e)) <= n /\ Cardinality(before(e)) # n
    BY <2>1, FS_Subset
  <2>3. Cardinality(before(e)) \in Nat
    BY <2>2, FS_CardinalityType
  <2> QED BY <2>2, <2>3, <1>1
<1>3. \A e, f \in S : rank[e] = rank[f] => e = f
  <2>1. ASSUME NEW e \in S, NEW f \in S, e.serial < f.serial
        PROVE  Cardinality(before(e)) # Cardinality(before(f))
    <3>1. before(e) \in SUBSET before(f) /\ e \in before(f) /\ e \notin before(e)
      BY <2>1 DEF TxEvent
    <3> HIDE DEF before
    <3>2. before(e) # before(f)
      BY <3>1
    <3> QED BY <3>1, <3>2, <1>2, FS_Subset
  <2>2. ASSUME NEW e \in S, NEW f \in S, rank[e] = rank[f], e # f
        PROVE  FALSE
    <3>1. e.serial \in Nat /\ f.serial \in Nat /\ e.serial # f.serial
      BY <2>2 DEF TxEvent
    <3>2. CASE e.serial < f.serial
      BY <3>2, <2>1, <2>2
    <3>3. CASE f.serial < e.serial
      BY <3>3, <2>1, <2>2
    <3> QED BY <3>1, <3>2, <3>3
  <2> QED BY <2>2
<1>4. rank \in Injection(S, 0..(n-1))
  BY <1>2, <1>3 DEF Injection, IsInjective
<1>5. rank \in Surjection(S, 0..(n-1))
  BY <1>1, <1>4, FS_Injection, FS_Interval
<1>6. \A i \in 1..n : \E e \in S : Cardinality(before(e)) = i - 1
  <2> TAKE i \in 1..n
  <2>1. i - 1 \in 0..(n-1)
    BY <1>1
  <2> QED BY <2>1, <1>5 DEF Surjection
<1> QED BY <1>6

(* The order of the list enumerates every finite set of events. *)
LEMMA InListOrderType ==
  ASSUME NEW S \in SUBSET TxEvent, IsFiniteSet(S),
         \A e, f \in S : e.serial = f.serial => e = f
  PROVE  InListOrder(S) \in [1..Cardinality(S) -> S]
BY InListOrderRanks DEF InListOrder

(* The list order is the order of the serial numbers. *)
LEMMA InListOrderSorted ==
  ASSUME NEW S \in SUBSET TxEvent, IsFiniteSet(S),
         \A e, f \in S : e.serial = f.serial => e = f,
         NEW i \in 1..Cardinality(S), NEW j \in 1..Cardinality(S), i < j
  PROVE  InListOrder(S)[i].serial < InListOrder(S)[j].serial
<1> DEFINE before(e) == {f \in S : f.serial < e.serial}
           e == InListOrder(S)[i]
           g == InListOrder(S)[j]
<1>1. InListOrder(S) \in [1..Cardinality(S) -> S] /\ Cardinality(S) \in Nat
  BY InListOrderType, FS_CardinalityType
<1>2. e \in S /\ g \in S /\ e.serial \in Nat /\ g.serial \in Nat
  BY <1>1 DEF TxEvent
<1>3. Cardinality(before(e)) = i - 1 /\ Cardinality(before(g)) = j - 1
  <2>1. \A k \in 1..Cardinality(S) : \E f \in S : Cardinality(before(f)) = k - 1
    BY InListOrderRanks
  <2> QED BY <2>1 DEF InListOrder
<1>4. IsFiniteSet(before(e)) /\ IsFiniteSet(before(g))
  BY FS_Subset
<1>5. ASSUME g.serial <= e.serial
      PROVE  FALSE
  <2>1. \A f \in S : f.serial \in Nat
    BY DEF TxEvent
  <2>2. before(g) \subseteq before(e)
    BY <1>2, <1>5, <2>1
  <2>3. Cardinality(before(g)) <= Cardinality(before(e))
    <3> HIDE DEF before
    <3> QED BY <1>4, <2>2, FS_Subset
  <2> QED BY <1>3, <2>3
<1> QED BY <1>2, <1>5

(* When the transmissions of the past start and end. *)
LEMMA AirTimes ==
  ASSUME IInv
  PROVE  \A e \in air : e.start \in Nat /\ e.airtime \in Nat /\ TransmissionEnd(e) \in Nat
<1>1. \A e \in air : e.start \in Nat /\ e.airtime \in Nat
  BY AirtimesAssumption DEF IInv, TypeOK, TxEvent
<1> QED BY <1>1 DEF TransmissionEnd

LEMMA PacketType ==
  ASSUME NEW e \in TxEvent, NEW r \in NodeState
  PROVE  PacketFor(e, r) \in RxPacket
<1>1. e.power \in Nat /\ e.start \in Nat /\ e.serial \in Nat /\ e.node \in Nodes
      /\ e.airtime \in Nat /\ e.position \in Positions
  BY AirtimesAssumption DEF TxEvent
<1>2. r.position \in Positions /\ r.dio2 \in BOOLEAN
  BY DEF NodeState
<1>3. Gain[e.position][r.position] \in Nat
  BY <1>1, <1>2, LevelsAssumption
<1>4. LevelAt(e, r.position) \in Nat
  BY <1>1, <1>3 DEF LevelAt
<1>5. (IF r.dio2 THEN 1 ELSE Dio2RxLoss) \in Nat \ {0}
  BY LevelsAssumption
<1>6. LevelAt(e, r.position) \div (IF r.dio2 THEN 1 ELSE Dio2RxLoss) \in Nat
  BY <1>4, <1>5
<1> QED BY <1>1, <1>6 DEF PacketFor, RxPacket, TransmissionEnd

LEMMA DeliveredToFacts ==
  ASSUME IInv, NEW n \in Nodes, NEW t
  PROVE  /\ DeliveredTo(n, t) \in SUBSET TxEvent
         /\ IsFiniteSet(DeliveredTo(n, t))
         /\ \A e, f \in DeliveredTo(n, t) : e.serial = f.serial => e = f
<1>1. DeliveredTo(n, t) \in SUBSET unfinished
  BY DEF DeliveredTo, Completed
<1>2. IsFiniteSet(unfinished) /\ unfinished \subseteq TxEvent /\ unfinished \subseteq air
  BY DEF IInv, TypeOK, PastOnly
<1> QED BY <1>1, <1>2, FS_Subset DEF IInv, SerialsIdentify

(* What tick appends to an inbox is a sequence of packets. *)
LEMMA NewPacketsType ==
  ASSUME IInv, NEW n \in Registered, NEW t
  PROVE  NewPackets(n, t) \in Seq(RxPacket)
<1> DEFINE D == DeliveredTo(n, t)
           order == InListOrder(D)
<1>1. n \in Nodes /\ nodes[n] \in NodeState
  BY DEF Registered, IInv, TypeOK
<1>2. D \in SUBSET TxEvent /\ IsFiniteSet(D) /\ \A e, f \in D : e.serial = f.serial => e = f
  BY <1>1, DeliveredToFacts
<1>3. order \in [1..Cardinality(D) -> D] /\ Cardinality(D) \in Nat
  BY <1>2, InListOrderType, FS_CardinalityType
<1>4. \A i \in 1..Cardinality(D) : PacketFor(order[i], nodes[n]) \in RxPacket
  BY <1>1, <1>2, <1>3, PacketType
<1>5. NewPackets(n, t) = [i \in 1..Cardinality(D) |-> PacketFor(order[i], nodes[n])]
  BY DEF NewPackets
<1>6. NewPackets(n, t) \in [1..Cardinality(D) -> RxPacket]
  BY <1>4, <1>5
<1> QED BY <1>3, <1>6, SeqDef

LEMMA ScheduledType ==
  ASSUME IInv, NEW n \in Registered, NEW a \in Airtimes
  PROVE  /\ Scheduled(n, a) \in TxEvent
         /\ Scheduled(n, a).serial = sent + 1
         /\ Scheduled(n, a).node = n
         /\ Scheduled(n, a).start = nowMs
         /\ Scheduled(n, a).airtime = a
<1>1. n \in Nodes /\ nodes[n] \in NodeState /\ sent \in Nat /\ nowMs \in Nat
  BY DEF Registered, IInv, TypeOK
<1>2. nodes[n].txPower \in Nat /\ nodes[n].dio2 \in BOOLEAN
  BY <1>1, LevelsAssumption DEF NodeState
<1>3. RadiatedPower(nodes[n].txPower, nodes[n].dio2) \in Nat
  BY <1>2, LevelsAssumption DEF RadiatedPower
<1> QED BY <1>1, <1>3 DEF Scheduled, TxEvent, NodeState

-----------------------------------------------------------------------------
(* The inductive invariant. *)

LEMMA InitIInv == Init => IInv
<1> SUFFICES ASSUME Init PROVE IInv
  OBVIOUS
<1>1. TypeOK
  BY FS_EmptySet DEF Init, TypeOK
<1>2. PastOnly /\ SerialsIdentify /\ HistorySuffices
  BY DEF Init, PastOnly, SerialsIdentify, HistorySuffices
<1>3. ReceivedIsDecided
  BY DEF Init, ReceivedIsDecided
<1> QED BY <1>1, <1>2, <1>3 DEF IInv

(* The methods that touch one node leave the air alone. *)
NodeStep ==
  \/ \E n \in Nodes, p \in Positions, w \in TxPowers, c \in Channels :
       RegisterNode(n, p, w, c)
  \/ \E n \in Nodes : UnregisterNode(n)
  \/ \E n \in Nodes, p \in Positions : UpdatePosition(n, p)
  \/ \E n \in Nodes, on \in BOOLEAN : SetDio2(n, on)
  \/ \E n \in Nodes, on \in BOOLEAN : SetReceiveEnabled(n, on)
  \/ \E n \in Nodes : Poll(n)

LEMMA NodeStepType ==
  ASSUME IInv, NodeStep
  PROVE  /\ nodes' \in [Nodes -> NodeState \cup {NoNode}]
         /\ UNCHANGED <<unfinished, finished, nowMs, sent, air, received>>
<1>1. nodes \in [Nodes -> NodeState \cup {NoNode}]
  BY DEF IInv, TypeOK
<1>2. \A n \in Registered : n \in Nodes /\ nodes[n] \in NodeState
  BY <1>1 DEF Registered
<1>3. << >> \in Seq(RxPacket)
  BY EmptySeq
<1>4. ASSUME NEW n \in Nodes, NEW p \in Positions, NEW w \in TxPowers,
             NEW c \in Channels, RegisterNode(n, p, w, c)
      PROVE  nodes' \in [Nodes -> NodeState \cup {NoNode}]
  BY <1>1, <1>3, <1>4 DEF RegisterNode, NodeState
<1>5. ASSUME NEW n \in Nodes, UnregisterNode(n)
      PROVE  nodes' \in [Nodes -> NodeState \cup {NoNode}]
  BY <1>1, <1>5 DEF UnregisterNode
<1>6. ASSUME NEW n \in Nodes, NEW p \in Positions, UpdatePosition(n, p)
      PROVE  nodes' \in [Nodes -> NodeState \cup {NoNode}]
  BY <1>1, <1>2, <1>6 DEF UpdatePosition, NodeState
<1>7. ASSUME NEW n \in Nodes, NEW on \in BOOLEAN, SetDio2(n, on)
      PROVE  nodes' \in [Nodes -> NodeState \cup {NoNode}]
  BY <1>1, <1>2, <1>7 DEF SetDio2, NodeState
<1>8. ASSUME NEW n \in Nodes, NEW on \in BOOLEAN, SetReceiveEnabled(n, on)
      PROVE  nodes' \in [Nodes -> NodeState \cup {NoNode}]
  BY ZenonT(40), <1>1, <1>2, <1>3, <1>8 DEF SetReceiveEnabled, NodeState
<1>9. ASSUME NEW n \in Nodes, Poll(n)
      PROVE  nodes' \in [Nodes -> NodeState \cup {NoNode}]
  BY <1>1, <1>2, <1>3, <1>9 DEF Poll, NodeState
<1>10. UNCHANGED <<unfinished, finished, nowMs, sent, air, received>>
  BY DEF NodeStep, RegisterNode, UnregisterNode, UpdatePosition, SetDio2,
         SetReceiveEnabled, Poll
<1> QED BY <1>4, <1>5, <1>6, <1>7, <1>8, <1>9, <1>10 DEF NodeStep

LEMMA NodeStepIInv ==
  ASSUME IInv, NodeStep
  PROVE  IInv'
BY NodeStepType DEF IInv, TypeOK, PastOnly, SerialsIdentify, HistorySuffices,
                    AllEvents, ReceivedIsDecided

LEMMA BroadcastIInv ==
  ASSUME IInv, NEW n \in Nodes, NEW a \in Airtimes, Broadcast(n, a)
  PROVE  IInv'
<1> DEFINE new == Scheduled(n, a)
<1>1. /\ n \in Registered /\ nodes[n] \in NodeState
      /\ new \in TxEvent /\ new.serial = sent + 1 /\ new.start = nowMs
      /\ new.airtime = a
  BY ScheduledType DEF Broadcast, CanSend, Registered, IInv, TypeOK
<1>2. a \in Nat /\ nowMs \in Nat /\ sent \in Nat
  BY AirtimesAssumption DEF IInv, TypeOK
<1> HIDE DEF new
<1>3. /\ unfinished' = unfinished \cup {new} /\ air' = air \cup {new}
      /\ finished' = finished /\ nowMs' = nowMs /\ sent' = sent + 1
      /\ received' = received
  BY DEF Broadcast, new
<1>4. TypeOK'
  <2>1. nodes' \in [Nodes -> NodeState \cup {NoNode}]
    <3>1. nodes' = [nodes EXCEPT ![n] = [nodes[n] EXCEPT !.busyUntil = nowMs + a]]
      BY DEF Broadcast
    <3>2. [nodes[n] EXCEPT !.busyUntil = nowMs + a] \in NodeState
      BY <1>1, <1>2 DEF NodeState
    <3> QED BY <3>1, <3>2 DEF IInv, TypeOK
  <2>2. IsFiniteSet(unfinished')
    BY <1>3, FS_AddElement DEF IInv, TypeOK
  <2> QED BY <1>1, <1>2, <1>3, <2>1, <2>2 DEF IInv, TypeOK
<1>5. PastOnly'
  BY <1>1, <1>2, <1>3 DEF IInv, PastOnly
<1>6. SerialsIdentify'
  <2>1. \A e \in air : /\ e.serial \in Nat /\ e.serial <= sent
                       /\ e.start \in Nat /\ e.start <= nowMs
    BY DEF IInv, TypeOK, TxEvent, SerialsIdentify, PastOnly
  <2>2. \A e \in air : ~(new.serial < e.serial) /\ new.serial # e.serial
    BY <1>1, <1>2, <2>1
  <2>3. \A e \in air' : e.serial <= sent'
    BY <1>1, <1>2, <1>3, <2>1
  <2>4. \A e, f \in air' : e.serial = f.serial => e = f
    BY <1>1, <1>3, <2>2 DEF IInv, SerialsIdentify
  <2>5. \A e, f \in air' : e.serial < f.serial => e.start <= f.start
    BY <1>1, <1>2, <1>3, <2>1, <2>2 DEF IInv, SerialsIdentify
  <2> QED BY <2>3, <2>4, <2>5 DEF SerialsIdentify
<1>7. HistorySuffices'
  <2> SUFFICES ASSUME NEW e \in unfinished', NEW f \in air',
                      TransmissionsOverlap(e, f)
               PROVE  f \in AllEvents'
    BY DEF HistorySuffices
  <2>1. CASE f = new
    BY <2>1, <1>3 DEF AllEvents
  <2>2. CASE f \in air /\ e \in unfinished
    BY <2>2, <1>3 DEF IInv, HistorySuffices, AllEvents
  <2>3. CASE f \in air /\ e = new
    <3>1. f.start \in Nat /\ f.airtime \in Nat
      BY <2>3, AirtimesAssumption DEF IInv, TypeOK, TxEvent
    <3>2. f \in unfinished
      BY <2>3, <3>1, <1>1, <1>2
         DEF IInv, PastOnly, TransmissionsOverlap, TransmissionEnd
    <3> QED BY <3>2, <1>3 DEF AllEvents
  <2> QED BY <1>3, <2>1, <2>2, <2>3
<1>8. ReceivedIsDecided'
  <2>1. new \notin air
    <3>1. \A e \in air : e.serial \in Nat
      BY DEF IInv, TypeOK, TxEvent
    <3> QED BY <3>1, <1>1, <1>2 DEF IInv, SerialsIdentify
  <2>2. air \ unfinished \subseteq air' \ unfinished'
    BY <1>3, <2>1
  <2> QED BY <1>3, <2>2 DEF IInv, ReceivedIsDecided
<1> QED BY <1>4, <1>5, <1>6, <1>7, <1>8 DEF IInv

LEMMA TickIInv ==
  ASSUME IInv, NEW t \in Nat, t >= nowMs, Tick(t)
  PROVE  IInv'
<1>1. /\ nowMs' = t /\ nowMs \in Nat
      /\ unfinished' = unfinished \ Completed(t)
      /\ finished' = Retained(finished \cup Completed(t), unfinished')
      /\ sent' = sent /\ air' = air
  BY DEF Tick, IInv, TypeOK
<1>2. Completed(t) \subseteq unfinished /\ finished' \subseteq finished \cup Completed(t)
  BY <1>1 DEF Completed, Retained
<1>3. TypeOK'
  <2>1. nodes' \in [Nodes -> NodeState \cup {NoNode}]
    <3>1. ASSUME NEW n \in Registered
          PROVE  [nodes[n] EXCEPT !.inbox = @ \o NewPackets(n, t)] \in NodeState
      <4>1. nodes[n] \in NodeState
        BY DEF Registered, IInv, TypeOK
      <4>2. nodes[n].inbox \in Seq(RxPacket)
        BY <4>1 DEF NodeState
      <4>3. nodes[n].inbox \o NewPackets(n, t) \in Seq(RxPacket)
        BY <4>2, NewPacketsType, ConcatProperties
      <4> QED BY <4>1, <4>3 DEF NodeState
    <3> QED BY <3>1 DEF Tick
  <2>2. IsFiniteSet(unfinished') /\ IsFiniteSet(finished')
    <3>1. IsFiniteSet(finished \cup Completed(t))
      BY <1>2, FS_Subset, FS_Union DEF IInv, TypeOK
    <3> QED BY <1>1, <1>2, <3>1, FS_Subset DEF IInv, TypeOK
  <2>3. received' \in [Nodes -> SUBSET Nat]
    <3>1. \A n \in Nodes : \A e \in DeliveredTo(n, t) : e.serial \in Nat
      BY DeliveredToFacts DEF TxEvent
    <3> QED BY <3>1 DEF Tick, IInv, TypeOK
  <2> QED BY <1>1, <1>2, <2>1, <2>2, <2>3 DEF IInv, TypeOK
<1>4. PastOnly'
  <2>1. \A e \in air : e.start \in Nat /\ e.airtime \in Nat
    BY AirtimesAssumption DEF IInv, TypeOK, TxEvent
  <2> QED BY <1>1, <1>2, <2>1 DEF IInv, PastOnly, Completed, TransmissionEnd
<1>5. SerialsIdentify'
  BY <1>1 DEF IInv, SerialsIdentify
<1>6. HistorySuffices'
  <2> SUFFICES ASSUME NEW e \in unfinished', NEW f \in air',
                      TransmissionsOverlap(e, f)
               PROVE  f \in AllEvents'
    BY DEF HistorySuffices
  <2>1. f \in unfinished \cup finished
    BY <1>1 DEF IInv, HistorySuffices, AllEvents
  <2>2. TransmissionsOverlap(f, e)
    BY DEF TransmissionsOverlap
  <2> QED BY <1>1, <2>1, <2>2 DEF AllEvents, Retained
<1>7. ReceivedIsDecided'
  <2> SUFFICES ASSUME NEW n \in Nodes, NEW s \in received'[n]
               PROVE  \E e \in air' \ unfinished' : e.serial = s
    BY DEF ReceivedIsDecided
  <2>1. CASE s \in received[n]
    BY <2>1, <1>1 DEF IInv, ReceivedIsDecided
  <2>2. CASE \E e \in DeliveredTo(n, t) : e.serial = s
    <3>1. PICK e \in DeliveredTo(n, t) : e.serial = s
      BY <2>2
    <3>2. e \in Completed(t) /\ e \in air
      BY <1>2 DEF DeliveredTo, IInv, PastOnly
    <3> QED BY <3>1, <3>2, <1>1
  <2>3. received'[n] = received[n] \cup {e.serial : e \in DeliveredTo(n, t)}
    BY DEF Tick
  <2> QED BY <2>1, <2>2, <2>3
<1> QED BY <1>3, <1>4, <1>5, <1>6, <1>7 DEF IInv

LEMMA StutterIInv ==
  ASSUME IInv, UNCHANGED vars
  PROVE  IInv'
BY DEF vars, IInv, TypeOK, PastOnly, SerialsIdentify, HistorySuffices, AllEvents,
       ReceivedIsDecided

LEMMA NextIInv == IInv /\ [Next]_vars => IInv'
<1> SUFFICES ASSUME IInv, [Next]_vars PROVE IInv'
  OBVIOUS
<1>1. CASE NodeStep
  BY <1>1, NodeStepIInv
<1>2. ASSUME NEW n \in Nodes, NEW a \in Airtimes, Broadcast(n, a)
      PROVE  IInv'
  BY <1>2, BroadcastIInv
<1>3. ASSUME NEW t \in nowMs..MaxTime, Tick(t)
      PROVE  IInv'
  <2>1. t \in Nat /\ t >= nowMs
    BY DEF IInv, TypeOK
  <2> QED BY <2>1, <1>3, TickIInv
<1>4. CASE UNCHANGED vars
  BY <1>4, StutterIInv
<1> QED BY <1>1, <1>2, <1>3, <1>4 DEF Next, NodeStep

LEMMA OverlapIsSymmetric ==
  ASSUME NEW e, NEW f, TransmissionsOverlap(e, f)
  PROVE  TransmissionsOverlap(f, e)
BY DEF TransmissionsOverlap

(* A new transmission overlaps nothing that has been decided. *)
LEMMA NewIsLate ==
  ASSUME IInv, NEW n \in Nodes, NEW a \in Airtimes, Broadcast(n, a),
         NEW f \in air \ unfinished
  PROVE  ~TransmissionsOverlap(Scheduled(n, a), f)
<1>1. Scheduled(n, a).start = nowMs
  BY ScheduledType DEF Broadcast, CanSend
<1>2. TransmissionEnd(f) <= nowMs /\ TransmissionEnd(f) \in Nat /\ nowMs \in Nat
  BY AirTimes DEF IInv, PastOnly, TypeOK
<1> QED BY <1>1, <1>2 DEF TransmissionsOverlap

-----------------------------------------------------------------------------
(* Sums of levels. *)

(* Every set of naturals that is not empty has a least element. *)
LEMMA LeastNatural ==
  ASSUME NEW S \in SUBSET Nat, S # {}
  PROVE  \E m \in S : \A n \in S : m <= n
<1>1. ASSUME NEW R, IsWellFoundedOn(R, Nat), \A m, n \in Nat : n < m => <<n, m>> \in R
      PROVE  \E m \in S : \A n \in S : m <= n
  <2>1. PICK m \in S : \A n \in S : <<n, m>> \notin R
    BY <1>1, WFMin, Zenon
  <2>2. ASSUME NEW n \in S
        PROVE  m <= n
    <3>1. m \in Nat /\ n \in Nat
      OBVIOUS
    <3>2. ~(n < m)
      BY <1>1, <2>1, <3>1, Zenon
    <3> QED BY <3>1, <3>2
  <2> QED BY <2>2
<1>2. \A m, n \in Nat : n < m => <<n, m>> \in OpToRel(<, Nat)
  BY DEF OpToRel
<1> QED BY <1>1, <1>2, NatLessThanWellFounded, Zenon

(* One more element of s added up, when g sums what is left. *)
AddedUp(g, s, p) ==
  LET x == CHOOSE y \in s : TRUE
  IN  IF s = {} THEN 0 ELSE LevelAt(x, p) + g[s \ {x}]

(* A finite set can be summed element by element. *)
LEMMA SumsExist ==
  ASSUME NEW S, IsFiniteSet(S), NEW p
  PROVE  \E g : g = [s \in SUBSET S |-> AddedUp(g, s, p)]
<1> DEFINE Small(k) == {s \in SUBSET S : Cardinality(s) <= k}
           Good(k) == \E g : g = [s \in Small(k) |-> AddedUp(g, s, p)]
<1>1. \A s \in SUBSET S : IsFiniteSet(s) /\ Cardinality(s) \in Nat
  BY FS_Subset, FS_CardinalityType
<1>2. Good(0)
  <2>1. \A s \in Small(0) : s = {}
    BY <1>1, FS_EmptySet
  <2>2. [s \in Small(0) |-> 0] = [s \in Small(0) |-> AddedUp([z \in Small(0) |-> 0], s, p)]
    BY <2>1 DEF AddedUp
  <2> HIDE DEF Small
  <2> QED BY <2>2
<1>3. ASSUME NEW k \in Nat, Good(k)
      PROVE  Good(k + 1)
  <2>1. PICK g : g = [s \in Small(k) |-> AddedUp(g, s, p)]
    BY <1>3
  <2> DEFINE h == [s \in Small(k + 1) |-> AddedUp(g, s, p)]
  <2>2. ASSUME NEW s \in Small(k + 1), s # {}, NEW x \in s
        PROVE  h[s \ {x}] = g[s \ {x}]
    <3>1. s \ {x} \in SUBSET S /\ Cardinality(s \ {x}) = Cardinality(s) - 1
      BY <1>1, <2>2, FS_RemoveElement
    <3>2. Cardinality(s) <= k + 1 /\ Cardinality(s) \in Nat
      BY <1>1
    <3>3. s \ {x} \in Small(k) /\ s \ {x} \in Small(k + 1)
      BY <3>1, <3>2
    <3> HIDE DEF Small
    <3>4. h[s \ {x}] = AddedUp(g, s \ {x}, p)
      BY <3>3
    <3>5. g[s \ {x}] = AddedUp(g, s \ {x}, p)
      BY <2>1, <3>3
    <3> QED BY <3>4, <3>5
  <2>3. \A s \in Small(k + 1) : AddedUp(g, s, p) = AddedUp(h, s, p)
    <3> TAKE s \in Small(k + 1)
    <3> HIDE DEF h, Small
    <3>1. CASE s = {}
      BY <3>1 DEF AddedUp
    <3>2. CASE s # {}
      <4> DEFINE x == CHOOSE y \in s : TRUE
      <4>1. x \in s
        BY <3>2
      <4>2. h[s \ {x}] = g[s \ {x}]
        BY <2>2, <3>2, <4>1
      <4> QED BY <3>2, <4>2 DEF AddedUp
    <3> QED BY <3>1, <3>2
  <2>4. h = [s \in Small(k + 1) |-> AddedUp(h, s, p)]
    <3> DEFINE D == Small(k + 1)
    <3> HIDE DEF Small, D
    <3>1. h = [s \in D |-> AddedUp(g, s, p)]
      BY DEF D
    <3> HIDE DEF h
    <3> QED BY <2>3, <3>1 DEF D
  <2> QED BY <2>4
<1>4. \A k \in Nat : Good(k)
  <2> SUFFICES ASSUME NEW j \in Nat, ~Good(j)
               PROVE  FALSE
    OBVIOUS
  <2> HIDE DEF Good
  <2>1. PICK m \in {k \in Nat : ~Good(k)} : \A k \in {i \in Nat : ~Good(i)} : m <= k
    BY LeastNatural
  <2>2. m # 0
    BY <1>2, <2>1
  <2>3. m - 1 \in Nat /\ ~(m <= m - 1)
    BY <2>2
  <2>4. Good(m - 1)
    BY <2>1, <2>3
  <2>5. Good((m - 1) + 1)
    BY <1>3, <2>3, <2>4
  <2>6. (m - 1) + 1 = m
    BY <2>3
  <2> QED BY <2>1, <2>5, <2>6
<1>5. Small(Cardinality(S)) = SUBSET S
  BY FS_Subset
<1>6. Good(Cardinality(S))
  BY <1>1, <1>4
<1> HIDE DEF Small
<1> QED BY <1>5, <1>6

(* The interference is at least what each interferer contributes. *)
LEMMA InterferenceBounds ==
  ASSUME NEW S, IsFiniteSet(S), NEW p, \A e \in S : LevelAt(e, p) \in Nat
  PROVE  /\ InterferenceAt(S, p) \in Nat
         /\ \A e \in S : LevelAt(e, p) <= InterferenceAt(S, p)
<1> DEFINE g == CHOOSE h : h = [s \in SUBSET S |-> AddedUp(h, s, p)]
           Right(s) == g[s] \in Nat /\ \A e \in s : LevelAt(e, p) <= g[s]
           Wrong == {k \in Nat : \E s \in SUBSET S : Cardinality(s) = k /\ ~Right(s)}
<1>1. g = [s \in SUBSET S |-> AddedUp(g, s, p)]
  BY SumsExist
<1>2. InterferenceAt(S, p) = g[S]
  BY DEF InterferenceAt, MapThenSumSet, MapThenFoldSet, AddedUp
<1> HIDE DEF g
<1>3. \A s \in SUBSET S : IsFiniteSet(s) /\ Cardinality(s) \in Nat
  BY FS_Subset, FS_CardinalityType
<1>4. ASSUME NEW m \in Wrong, \A k \in Wrong : m <= k
      PROVE  FALSE
  <2>1. PICK s \in SUBSET S : Cardinality(s) = m /\ ~Right(s)
    OBVIOUS
  <2>2. g[s] = AddedUp(g, s, p)
    BY <1>1
  <2>3. s # {}
    BY <2>1, <2>2 DEF AddedUp
  <2> DEFINE x == CHOOSE y \in s : TRUE
  <2>4. x \in s /\ x \in S
    BY <2>3
  <2>5. g[s] = LevelAt(x, p) + g[s \ {x}]
    BY <2>2, <2>3 DEF AddedUp
  <2> HIDE DEF x
  <2>6. s \ {x} \in SUBSET S /\ Cardinality(s \ {x}) = m - 1
    BY <1>3, <2>1, <2>4, FS_RemoveElement
  <2>7. Cardinality(s \ {x}) \in Nat /\ m \in Nat
    BY <1>3, <2>6
  <2>8. Right(s \ {x})
    <3> HIDE DEF Right
    <3>1. m - 1 \notin Wrong
      BY <1>4, <2>7
    <3> QED BY <2>6, <2>7, <3>1
  <2>9. LevelAt(x, p) \in Nat
    BY <2>4
  <2>10. ASSUME NEW e \in s
         PROVE  LevelAt(e, p) <= g[s] /\ g[s] \in Nat
    <3>1. CASE e = x
      BY <2>5, <2>8, <2>9, <3>1
    <3>2. CASE e # x
      <4>1. LevelAt(e, p) <= g[s \ {x}] /\ LevelAt(e, p) \in Nat /\ g[s \ {x}] \in Nat
        BY <2>8, <3>2
      <4> QED BY <2>5, <2>9, <4>1
    <3> QED BY <3>1, <3>2
  <2> QED BY <2>1, <2>3, <2>10
<1>5. Wrong = {}
  <2> HIDE DEF Wrong
  <2>1. Wrong \in SUBSET Nat
    BY DEF Wrong
  <2> QED BY <1>4, <2>1, LeastNatural
<1>6. Right(S)
  <2> HIDE DEF Right
  <2> QED BY <1>3, <1>5
<1> QED BY <1>2, <1>6

-----------------------------------------------------------------------------
(* Two packets at one receiver. *)

(* What is delivered is strong enough to be decoded, so it is not nothing. *)
LEMMA DeliveredIsHeard ==
  ASSUME IInv, NEW t, NEW n \in Registered, NEW e \in DeliveredTo(n, t)
  PROVE  LevelAt(e, nodes[n].position) \in Nat \ {0}
<1>1. e \in TxEvent /\ nodes[n] \in NodeState
  BY DEF DeliveredTo, Completed, IInv, TypeOK, Registered
<1>2. LevelAt(e, nodes[n].position) >= DecodeThreshold(e.channel, nodes[n].dio2)
  BY DEF DeliveredTo, Receives
<1>3. /\ e.power \in Nat /\ e.position \in Positions /\ e.channel \in Channels
      /\ nodes[n].position \in Positions
  BY <1>1 DEF TxEvent, NodeState
<1>4. Gain[e.position][nodes[n].position] \in Nat
  BY <1>3, LevelsAssumption
<1>5. LevelAt(e, nodes[n].position) \in Nat
  BY <1>3, <1>4 DEF LevelAt
<1>6. Sensitivity[e.channel] \in Nat \ {0} /\ Dio2RxLoss \in Nat \ {0}
  BY <1>3, LevelsAssumption
<1>7. DecodeThreshold(e.channel, nodes[n].dio2) >= 1
  BY <1>6 DEF DecodeThreshold
<1>8. DecodeThreshold(e.channel, nodes[n].dio2) \in Nat
  BY <1>6 DEF DecodeThreshold
<1> QED BY <1>2, <1>5, <1>7, <1>8

(* A packet that is delivered is stronger than any other on its channel    *)
(* that overlaps it.                                                       *)
LEMMA DeliveredIsStronger ==
  ASSUME IInv, NEW t, NEW n \in Registered,
         NEW e \in DeliveredTo(n, t), NEW f \in AllEvents, f.channel = e.channel,
         TransmissionsOverlap(e, f), ~SameTransmission(e, f)
  PROVE  LevelAt(e, nodes[n].position) > LevelAt(f, nodes[n].position)
<1> DEFINE at == nodes[n].position
           others == Interferers(e, nodes[n], AllEvents)
           noise == InterferenceAt(others, at)
<1>1. nodes[n] \in NodeState /\ at \in Positions
  BY DEF IInv, TypeOK, Registered, NodeState
<1>2. AllEvents \subseteq TxEvent
  BY DEF IInv, TypeOK, AllEvents
<1>3. \A g \in AllEvents : LevelAt(g, at) \in Nat
  <2> TAKE g \in AllEvents
  <2>1. g.power \in Nat /\ g.position \in Positions
    BY <1>2 DEF TxEvent
  <2>2. Gain[g.position][at] \in Nat
    BY <1>1, <2>1, LevelsAssumption
  <2> QED BY <2>1, <2>2 DEF LevelAt
<1>4. f \in others
  <2>1. f.channel = nodes[n].channel
    BY DEF DeliveredTo, Receives
  <2>2. nodes[n].channel \in Channels
    BY <1>1 DEF NodeState
  <2>3. FrequencyOverlaps(f.channel, nodes[n].channel)
    BY <2>1, <2>2, LevelsAssumption DEF FrequencyOverlaps
  <2> QED BY <2>1, <2>3 DEF Interferers
<1>5. others \subseteq AllEvents
  BY DEF Interferers
<1>6. IsFiniteSet(others)
  BY <1>5, FS_Union, FS_Subset DEF IInv, TypeOK, AllEvents
<1>7. noise \in Nat /\ LevelAt(f, at) <= noise
  <2>1. \A g \in others : LevelAt(g, at) \in Nat
    BY <1>3, <1>5
  <2> HIDE DEF others, at
  <2> QED BY <1>4, <1>6, <2>1, InterferenceBounds
<1>8. Captures(e, nodes[n], AllEvents)
  BY DEF DeliveredTo, Receives
<1>9. noise = 0 \/ LevelAt(e, at) > CaptureRatio * noise
  BY <1>8 DEF Captures
<1>10. LevelAt(e, at) \in Nat \ {0} /\ LevelAt(f, at) \in Nat
  BY <1>3, DeliveredIsHeard
<1> HIDE DEF at, others, noise
<1>11. CaptureRatio * noise >= noise /\ CaptureRatio * noise \in Nat
  <2>1. CaptureRatio \in Nat \ {0} /\ noise \in Nat
    BY <1>7, LevelsAssumption
  <2>2. \A k \in Nat \ {0}, i \in Nat : k * i >= i /\ k * i \in Nat
    OBVIOUS
  <2> QED BY <2>1, <2>2
<1> QED BY <1>7, <1>9, <1>10, <1>11 DEF at

(* What one tick delivers to a node either does not overlap or is one      *)
(* transmission in the eyes of the bus.                                    *)
LEMMA DeliveredDoNotOverlap ==
  ASSUME IInv, NEW t, NEW n \in Registered,
         NEW e \in DeliveredTo(n, t), NEW f \in DeliveredTo(n, t),
         TransmissionsOverlap(e, f)
  PROVE  SameTransmission(e, f)
<1> SUFFICES ASSUME ~SameTransmission(e, f) PROVE FALSE
  OBVIOUS
<1>1. TransmissionsOverlap(f, e) /\ ~SameTransmission(f, e)
  BY OverlapIsSymmetric DEF SameTransmission
<1>0. e \in AllEvents /\ f \in AllEvents /\ e.channel = f.channel
  BY DEF DeliveredTo, Completed, Receives, AllEvents
<1>2. LevelAt(e, nodes[n].position) > LevelAt(f, nodes[n].position)
  BY <1>0, DeliveredIsStronger
<1>3. LevelAt(f, nodes[n].position) > LevelAt(e, nodes[n].position)
  BY <1>0, <1>1, DeliveredIsStronger
<1>4. LevelAt(e, nodes[n].position) \in Nat /\ LevelAt(f, nodes[n].position) \in Nat
  BY DeliveredIsHeard
<1> QED BY <1>2, <1>3, <1>4

(* Where the packets that a tick appends come from. *)
LEMMA NewPacketsOrigin ==
  ASSUME IInv, NEW n \in Registered, NEW t
  PROVE  /\ Len(NewPackets(n, t)) = Cardinality(DeliveredTo(n, t))
         /\ Cardinality(DeliveredTo(n, t)) \in Nat
         /\ \A i \in 1..Len(NewPackets(n, t)) :
              LET e == InListOrder(DeliveredTo(n, t))[i]
              IN  /\ e \in DeliveredTo(n, t)
                  /\ NewPackets(n, t)[i].serial = e.serial
                  /\ NewPackets(n, t)[i].end = TransmissionEnd(e)
<1> DEFINE D == DeliveredTo(n, t)
<1>1. n \in Nodes
  BY DEF Registered
<1>2. D \in SUBSET TxEvent /\ IsFiniteSet(D) /\ \A e, f \in D : e.serial = f.serial => e = f
  BY <1>1, DeliveredToFacts
<1>3. InListOrder(D) \in [1..Cardinality(D) -> D] /\ Cardinality(D) \in Nat
  BY <1>2, InListOrderType, FS_CardinalityType
<1>4. NewPackets(n, t) = [i \in 1..Cardinality(D) |-> PacketFor(InListOrder(D)[i], nodes[n])]
  BY DEF NewPackets
<1>5. NewPackets(n, t) \in Seq(RxPacket)
  BY NewPacketsType
<1> HIDE DEF D
<1>6. Len(NewPackets(n, t)) = Cardinality(D)
  BY <1>3, <1>4, <1>5, LenProperties
<1> QED BY <1>3, <1>4, <1>6 DEF PacketFor, D

(* A tick delivers what has ended by then. *)
LEMMA NewPacketsTimes ==
  ASSUME IInv, NEW n \in Registered, NEW t,
         NEW i \in 1..Len(NewPackets(n, t))
  PROVE  /\ NewPackets(n, t)[i].end <= t
         /\ \E e \in unfinished : NewPackets(n, t)[i].end = TransmissionEnd(e)
BY ZenonT(40), NewPacketsOrigin DEF DeliveredTo, Completed

(* The packets one tick delivers are in the order they ended: the list is  *)
(* in the order of the starts, and what starts first and ends last         *)
(* overlaps the other.                                                     *)
LEMMA NewPacketsInOrder ==
  ASSUME IInv, 0 \notin Airtimes, NEW n \in Registered, NEW t,
         NEW i \in 1..Len(NewPackets(n, t)), NEW j \in 1..Len(NewPackets(n, t)), i < j
  PROVE  \/ NewPackets(n, t)[i].end < NewPackets(n, t)[j].end
         \/ \E e, f \in air : /\ e # f
                              /\ e.serial = NewPackets(n, t)[i].serial
                              /\ f.serial = NewPackets(n, t)[j].serial
                              /\ SameTransmission(e, f)
<1> DEFINE D == DeliveredTo(n, t)
           e == InListOrder(D)[i]
           f == InListOrder(D)[j]
<1>1. /\ e \in D /\ NewPackets(n, t)[i].serial = e.serial
      /\ NewPackets(n, t)[i].end = TransmissionEnd(e)
      /\ f \in D /\ NewPackets(n, t)[j].serial = f.serial
      /\ NewPackets(n, t)[j].end = TransmissionEnd(f)
  BY NewPacketsOrigin
<1>2. e.serial < f.serial
  <2>1. D \in SUBSET TxEvent /\ IsFiniteSet(D) /\ \A g, h \in D : g.serial = h.serial => g = h
    BY DeliveredToFacts DEF Registered
  <2>2. i \in 1..Cardinality(D) /\ j \in 1..Cardinality(D)
    BY NewPacketsOrigin
  <2> HIDE DEF D
  <2> QED BY <2>1, <2>2, InListOrderSorted
<1> HIDE DEF e, f
<1>3. e \in air /\ f \in air /\ e.airtime # 0 /\ f.airtime # 0
  BY <1>1 DEF DeliveredTo, Completed, IInv, TypeOK, PastOnly, TxEvent
<1>4. /\ e.start \in Nat /\ e.airtime \in Nat /\ f.start \in Nat /\ f.airtime \in Nat
      /\ e.serial \in Nat /\ f.serial \in Nat
  BY <1>3, AirTimes DEF IInv, TypeOK, TxEvent
<1>5. e.start <= f.start /\ e # f
  BY <1>2, <1>3, <1>4 DEF IInv, SerialsIdentify
<1>6. CASE TransmissionsOverlap(e, f)
  <2>1. SameTransmission(e, f)
    BY <1>1, <1>6, DeliveredDoNotOverlap
  <2> QED BY <1>1, <1>3, <1>5, <2>1
<1>7. CASE ~TransmissionsOverlap(e, f)
  <2>1. TransmissionEnd(e) < TransmissionEnd(f)
    BY SMTT(30), <1>3, <1>4, <1>5, <1>7 DEF TransmissionsOverlap, TransmissionEnd
  <2> QED BY <1>1, <2>1
<1> QED BY <1>6, <1>7

-----------------------------------------------------------------------------
(* Theorems. *)

LEMMA AlwaysIInv == Spec => []IInv
BY InitIInv, NextIInv, PTL DEF Spec

(* Every variable of the bus keeps its type, the receive queues included,  *)
(* for any number of nodes, sends and milliseconds.                        *)
THEOREM TypeCorrect == Spec => []TypeOK
BY AlwaysIInv, PTL DEF IInv

(* RadioBus::tick never forgets a transmission that overlaps a packet it   *)
(* has yet to decide.                                                      *)
THEOREM PruningIsSafe == Spec => []HistorySuffices
BY AlwaysIInv, PTL DEF IInv

(* Nothing that is sent can overlap a packet whose reception has been      *)
(* decided, so deciding it at the first tick after its end is never early. *)
THEOREM VerdictsAreFinal == Spec => NoLateInterference
<1> DEFINE A == \A e \in air' \ air, f \in air \ unfinished :
                  ~TransmissionsOverlap(e, f)
<1>1. IInv /\ [Next]_vars => [A]_vars
  <2> SUFFICES ASSUME IInv, Next PROVE A
    BY DEF vars
  <2>1. CASE NodeStep
    BY <2>1, NodeStepType
  <2>2. ASSUME NEW n \in Nodes, NEW a \in Airtimes, Broadcast(n, a)
        PROVE  A
    BY <2>2, NewIsLate DEF Broadcast
  <2>3. ASSUME NEW t \in nowMs..MaxTime, Tick(t)
        PROVE  A
    BY <2>3 DEF Tick
  <2> QED BY <2>1, <2>2, <2>3 DEF Next, NodeStep
<1> QED BY <1>1, AlwaysIInv, PTL DEF Spec, NoLateInterference

LEMMA HalfDuplexStep ==
  ASSUME IInv, HalfDuplexHolds, [Next]_vars
  PROVE  HalfDuplexHolds'
<1>1. CASE NodeStep
  BY <1>1, NodeStepType DEF HalfDuplexHolds
<1>2. CASE UNCHANGED vars
  BY <1>2 DEF vars, HalfDuplexHolds
<1>3. ASSUME NEW m \in Nodes, NEW a \in Airtimes, Broadcast(m, a)
      PROVE  HalfDuplexHolds'
  <2> SUFFICES ASSUME NEW n \in Nodes, NEW e \in air', NEW f \in air',
                      e.serial \in received'[n], f.node = n
               PROVE  ~TransmissionsOverlap(e, f)
    BY DEF HalfDuplexHolds
  <2> DEFINE new == Scheduled(m, a)
  <2>1. /\ air' = air \cup {new} /\ received' = received
        /\ new.serial = sent + 1 /\ sent \in Nat
    BY <1>3, ScheduledType DEF Broadcast, CanSend, IInv, TypeOK
  <2>2. PICK g \in air \ unfinished : g.serial = e.serial
    BY <2>1 DEF IInv, ReceivedIsDecided
  <2>3. g.serial <= sent /\ g.serial \in Nat
    BY DEF IInv, SerialsIdentify, TypeOK, TxEvent
  <2>4. e \in air \ unfinished
    BY <2>1, <2>2, <2>3 DEF IInv, SerialsIdentify
  <2>5. CASE f = new
    BY <1>3, <2>4, <2>5, NewIsLate, OverlapIsSymmetric
  <2>6. CASE f \in air
    BY <2>1, <2>4, <2>6 DEF HalfDuplexHolds
  <2> QED BY <2>1, <2>5, <2>6
<1>4. ASSUME NEW t \in nowMs..MaxTime, Tick(t)
      PROVE  HalfDuplexHolds'
  <2> SUFFICES ASSUME NEW n \in Nodes, NEW e \in air, NEW f \in air,
                      e.serial \in received'[n], f.node = n
               PROVE  ~TransmissionsOverlap(e, f)
    BY <1>4 DEF HalfDuplexHolds, Tick
  <2>1. CASE e.serial \in received[n]
    BY <2>1 DEF HalfDuplexHolds
  <2>2. CASE \E g \in DeliveredTo(n, t) : g.serial = e.serial
    <3>1. PICK g \in DeliveredTo(n, t) : g.serial = e.serial
      BY <2>2
    <3>2. g \in unfinished /\ g \in air /\ ~HalfDuplexBlocked(g, n, AllEvents)
      BY DEF DeliveredTo, Completed, Receives, IInv, PastOnly
    <3>3. g = e
      BY <3>1, <3>2 DEF IInv, SerialsIdentify
    <3> QED BY <3>2, <3>3 DEF HalfDuplexBlocked, IInv, HistorySuffices
  <2> QED BY <1>4, <2>1, <2>2 DEF Tick
<1> QED BY <1>1, <1>2, <1>3, <1>4 DEF Next, NodeStep

(* No radio ever receives a packet that overlaps one it sends itself, in   *)
(* any network and however much of the past tick has dropped.              *)
THEOREM NobodyHearsWhileSending == Spec => []HalfDuplexHolds
<1>1. Init => HalfDuplexHolds
  BY DEF Init, HalfDuplexHolds
<1>2. IInv /\ HalfDuplexHolds /\ [Next]_vars => HalfDuplexHolds'
  BY HalfDuplexStep
<1> QED BY <1>1, <1>2, AlwaysIInv, PTL DEF Spec

(* What a radio that stands still has received is on its channel, and      *)
(* stronger there than all on that channel that ever overlapped it.        *)
Dominates(n, e) ==
  /\ e.channel = nodes[n].channel
  /\ LevelAt(e, nodes[n].position) \in Nat
  /\ \A f \in air :
       TransmissionsOverlap(e, f) /\ ~SameTransmission(e, f) /\ f.channel = e.channel
       => LevelAt(e, nodes[n].position) > LevelAt(f, nodes[n].position)
ReceivedDominates ==
  \A n \in Nodes, e \in air :
    e.serial \in received[n] => n \in Registered /\ Dominates(n, e)

LEMMA DominatesStep ==
  ASSUME IInv, ReceivedDominates, Next, StandsStill
  PROVE  ReceivedDominates'
<1>1. ASSUME NEW n \in Nodes, NEW e \in air, e.serial \in received[n]
      PROVE  n \in Registered' /\ (air' = air => Dominates(n, e)')
  BY <1>1 DEF ReceivedDominates, Dominates, StandsStill, Registered, LevelAt
<1>2. CASE NodeStep
  <2>1. air' = air /\ received' = received
    BY <1>2, NodeStepType
  <2> QED BY <1>1, <2>1 DEF ReceivedDominates
<1>3. ASSUME NEW m \in Nodes, NEW a \in Airtimes, Broadcast(m, a)
      PROVE  ReceivedDominates'
  <2> DEFINE new == Scheduled(m, a)
  <2>1. /\ air' = air \cup {new} /\ received' = received
        /\ new.serial = sent + 1 /\ sent \in Nat
    BY <1>3, ScheduledType DEF Broadcast, CanSend, IInv, TypeOK
  <2>2. ASSUME NEW n \in Nodes, NEW e \in air', e.serial \in received'[n]
        PROVE  n \in Registered' /\ Dominates(n, e)'
    <3>1. PICK g \in air \ unfinished : g.serial = e.serial
      BY <2>1, <2>2 DEF IInv, ReceivedIsDecided
    <3>2. g.serial <= sent /\ g.serial \in Nat
      BY DEF IInv, SerialsIdentify, TypeOK, TxEvent
    <3>3. e \in air \ unfinished
      BY <2>1, <3>1, <3>2 DEF IInv, SerialsIdentify
    <3>4. ~TransmissionsOverlap(e, new)
      BY <1>3, <3>3, NewIsLate, OverlapIsSymmetric
    <3>5. n \in Registered /\ Dominates(n, e) /\ n \in Registered'
      BY <1>1, <2>1, <2>2, <3>3 DEF ReceivedDominates
    <3>6. nodes'[n].position = nodes[n].position /\ nodes'[n].channel = nodes[n].channel
      BY <3>5 DEF StandsStill
    <3> HIDE DEF new
    <3> QED BY <2>1, <3>4, <3>5, <3>6 DEF Dominates, LevelAt
  <2> QED BY <2>2 DEF ReceivedDominates
<1>4. ASSUME NEW t \in nowMs..MaxTime, Tick(t)
      PROVE  ReceivedDominates'
  <2>1. air' = air /\ \A n \in Nodes : received'[n] = received[n] \cup {g.serial : g \in DeliveredTo(n, t)}
    BY <1>4 DEF Tick
  <2>2. ASSUME NEW n \in Nodes, NEW e \in air, e.serial \in received'[n]
        PROVE  n \in Registered' /\ Dominates(n, e)'
    <3>1. CASE e.serial \in received[n]
      BY <1>1, <2>1, <3>1
    <3>2. CASE \E g \in DeliveredTo(n, t) : g.serial = e.serial
      <4>1. PICK g \in DeliveredTo(n, t) : g.serial = e.serial
        BY <3>2
      <4>2. g \in unfinished /\ g \in air /\ n \in Registered /\ g.channel = nodes[n].channel
        BY DEF DeliveredTo, Completed, Receives, IInv, PastOnly
      <4>3. g = e
        BY <4>1, <4>2 DEF IInv, SerialsIdentify
      <4>4. LevelAt(e, nodes[n].position) \in Nat
        BY <4>2, <4>3, DeliveredIsHeard
      <4>5. ASSUME NEW f \in air, TransmissionsOverlap(e, f), ~SameTransmission(e, f), f.channel = e.channel
            PROVE  LevelAt(e, nodes[n].position) > LevelAt(f, nodes[n].position)
        <5>1. f \in AllEvents
          BY <4>2, <4>3, <4>5 DEF IInv, HistorySuffices
        <5> QED BY <4>2, <4>3, <4>5, <5>1, DeliveredIsStronger
      <4>6. Dominates(n, e)
        BY <4>2, <4>3, <4>4, <4>5 DEF Dominates
      <4>7. /\ nodes'[n].position = nodes[n].position /\ nodes'[n].channel = nodes[n].channel
            /\ n \in Registered'
        BY <4>2 DEF StandsStill, Registered
      <4> QED BY <2>1, <4>6, <4>7 DEF Dominates, LevelAt
    <3> QED BY <2>1, <2>2, <3>1, <3>2
  <2> QED BY <2>1, <2>2 DEF ReceivedDominates
<1> QED BY <1>2, <1>3, <1>4 DEF Next, NodeStep

(* Of two packets that overlap a radio that stands still never gets both,  *)
(* however many interfere, whatever the gains and however far apart the    *)
(* ticks are that decide them: each would have to be the stronger.         *)
THEOREM CaptureDecides == Spec /\ [][StandsStill]_vars => []CaptureIsExclusive
<1>1. Init => ReceivedDominates
  BY DEF Init, ReceivedDominates
<1>2. IInv /\ ReceivedDominates /\ [Next]_vars /\ [StandsStill]_vars => ReceivedDominates'
  <2>1. CASE UNCHANGED vars
    BY <2>1 DEF vars, ReceivedDominates, Dominates, Registered, LevelAt
  <2> QED BY <2>1, DominatesStep
<1>3. ReceivedDominates => CaptureIsExclusive
  <2> SUFFICES ASSUME ReceivedDominates, NEW n \in Nodes, NEW e \in air, NEW f \in air,
                      {e.serial, f.serial} \subseteq received[n], TransmissionsOverlap(e, f),
                      ~SameTransmission(e, f)
               PROVE  FALSE
    BY DEF CaptureIsExclusive
  <2>1. Dominates(n, e) /\ Dominates(n, f) /\ TransmissionsOverlap(f, e) /\ ~SameTransmission(f, e)
    BY OverlapIsSymmetric DEF ReceivedDominates, SameTransmission
  <2>2. /\ LevelAt(e, nodes[n].position) > LevelAt(f, nodes[n].position)
        /\ LevelAt(f, nodes[n].position) > LevelAt(e, nodes[n].position)
        /\ LevelAt(e, nodes[n].position) \in Nat /\ LevelAt(f, nodes[n].position) \in Nat
    BY <2>1 DEF Dominates
  <2> QED BY <2>2
<1> QED BY <1>1, <1>2, <1>3, AlwaysIInv, PTL DEF Spec

(* A radio that moves between ticks does not get both in one of them.      *)
THEOREM MovingRadiosToo == Spec => TicksAreExclusive
<1> DEFINE A == \A n \in Nodes, e \in air, f \in air :
                  /\ {e.serial, f.serial} \subseteq received'[n] \ received[n]
                  /\ TransmissionsOverlap(e, f)
                  => SameTransmission(e, f)
<1>1. IInv /\ [Next]_vars => [A]_vars
  <2> SUFFICES ASSUME IInv, Next PROVE A
    BY DEF vars
  <2>1. CASE NodeStep
    BY <2>1, NodeStepType
  <2>2. ASSUME NEW n \in Nodes, NEW a \in Airtimes, Broadcast(n, a)
        PROVE  A
    BY <2>2 DEF Broadcast
  <2>3. ASSUME NEW t \in nowMs..MaxTime, Tick(t)
        PROVE  A
    <3> SUFFICES ASSUME NEW n \in Nodes, NEW e \in air, NEW f \in air,
                        {e.serial, f.serial} \subseteq received'[n] \ received[n],
                        TransmissionsOverlap(e, f)
                 PROVE  SameTransmission(e, f)
      OBVIOUS
    <3>1. received'[n] = received[n] \cup {g.serial : g \in DeliveredTo(n, t)}
      BY <2>3 DEF Tick
    <3>2. DeliveredTo(n, t) \subseteq air
      BY DEF DeliveredTo, Completed, IInv, PastOnly
    <3>3. e \in DeliveredTo(n, t) /\ f \in DeliveredTo(n, t)
      BY <3>1, <3>2 DEF IInv, SerialsIdentify
    <3>4. n \in Registered
      BY <3>3 DEF DeliveredTo
    <3> QED BY <3>3, <3>4, DeliveredDoNotOverlap
  <2> QED BY <2>1, <2>2, <2>3 DEF Next, NodeStep
<1> QED BY <1>1, AlwaysIInv, PTL DEF Spec, TicksAreExclusive

-----------------------------------------------------------------------------
(* The bus implements IdealRadio: the refinement mapping drops the receive *)
(* queues and the list, and keeps the settings of the nodes, the past and  *)
(* what has been received.                                                 *)

Radios == [n \in Nodes |-> IF n \in Registered THEN SettingsOf(nodes[n]) ELSE NoNode]

LEMMA RadiosFacts ==
  ASSUME IInv
  PROVE  \A n \in Nodes :
           /\ n \in Registered => /\ Radios[n] = SettingsOf(nodes[n])
                                  /\ Radios[n] # NoNode
           /\ n \notin Registered => Radios[n] = NoNode
<1>1. ASSUME NEW n \in Registered
      PROVE  SettingsOf(nodes[n]) # NoNode
  <2>1. nodes[n] \in NodeState
    BY DEF Registered, IInv, TypeOK
  <2>2. SettingsOf(nodes[n]) \in RadioSettings
    BY <2>1 DEF SettingsOf, NodeState, RadioSettings
  <2> QED BY <2>2, NoNodeAssumption
<1> QED BY <1>1 DEF Radios

(* What the list has dropped decides nothing about an undecided packet,    *)
(* and neither does a receive queue.                                       *)
LEMMA ReceivesAlike ==
  ASSUME IInv, NEW e \in unfinished, NEW n \in Registered
  PROVE  Receives(e, n, SettingsOf(nodes[n]), air)
           <=> Receives(e, n, nodes[n], AllEvents)
<1> DEFINE r == nodes[n]
           q == SettingsOf(nodes[n])
<1>1. /\ q.rxEnabled = r.rxEnabled /\ q.channel = r.channel
      /\ q.position = r.position /\ q.dio2 = r.dio2
  BY DEF SettingsOf
<1>2. AllEvents \subseteq air
  BY DEF IInv, PastOnly, AllEvents
<1>3. \A f \in air : TransmissionsOverlap(e, f) => f \in AllEvents
  BY DEF IInv, HistorySuffices
<1> HIDE DEF q, r
<1>4. HalfDuplexBlocked(e, n, air) <=> HalfDuplexBlocked(e, n, AllEvents)
  BY <1>2, <1>3 DEF HalfDuplexBlocked
<1>5. Interferers(e, q, air) = Interferers(e, r, AllEvents)
  BY <1>1, <1>2, <1>3 DEF Interferers
<1>6. Captures(e, q, air) <=> Captures(e, r, AllEvents)
  BY <1>1, <1>5 DEF Captures
<1> QED BY <1>1, <1>4, <1>6 DEF Receives, q, r

(* A method that touches one node changes the settings of one radio. *)
LEMMA NodeStepConfigures ==
  ASSUME IInv, IInv', NodeStep
  PROVE  \E n \in Nodes : Ideal!Configure(n)
<1> DEFINE OnlyAt(n) ==
      /\ \A m \in Nodes \ {n} : nodes'[m] = nodes[m]
      /\ nodes'[n] # NoNode /\ nodes[n] # NoNode =>
           nodes'[n].busyUntil \in {0, nodes[n].busyUntil}
<1>1. \E n \in Nodes : OnlyAt(n)
  <2>1. nodes \in [Nodes -> NodeState \cup {NoNode}]
    BY DEF IInv, TypeOK
  <2>2. \A n \in Registered : n \in Nodes /\ nodes[n] \in NodeState
    BY <2>1 DEF Registered
  <2>3. ASSUME NEW n \in Nodes, NEW p \in Positions, NEW w \in TxPowers,
               NEW c \in Channels, RegisterNode(n, p, w, c)
        PROVE  OnlyAt(n)
    BY <2>1, <2>3 DEF RegisterNode
  <2>4. ASSUME NEW n \in Nodes, UnregisterNode(n)
        PROVE  OnlyAt(n)
    BY <2>1, <2>4 DEF UnregisterNode
  <2>5. ASSUME NEW n \in Nodes, NEW p \in Positions, UpdatePosition(n, p)
        PROVE  OnlyAt(n)
    BY <2>1, <2>2, <2>5 DEF UpdatePosition, NodeState
  <2>6. ASSUME NEW n \in Nodes, NEW on \in BOOLEAN, SetDio2(n, on)
        PROVE  OnlyAt(n)
    BY <2>1, <2>2, <2>6 DEF SetDio2, NodeState
  <2>7. ASSUME NEW n \in Nodes, NEW on \in BOOLEAN, SetReceiveEnabled(n, on)
        PROVE  OnlyAt(n)
    BY <2>1, <2>2, <2>7 DEF SetReceiveEnabled, NodeState
  <2>8. ASSUME NEW n \in Nodes, Poll(n)
        PROVE  OnlyAt(n)
    BY <2>1, <2>2, <2>8 DEF Poll, NodeState
  <2> HIDE DEF OnlyAt
  <2> QED BY <2>3, <2>4, <2>5, <2>6, <2>7, <2>8 DEF NodeStep
<1>2. PICK n \in Nodes : OnlyAt(n)
  BY <1>1
<1>3. \A m \in Nodes \ {n} : Radios'[m] = Radios[m]
  BY <1>2 DEF Radios, Registered
<1>4. Radios[n] # NoNode /\ Radios'[n] # NoNode =>
        Radios'[n].busyUntil \in {0, Radios[n].busyUntil}
  BY <1>2, RadiosFacts DEF Radios, Registered, SettingsOf
<1>5. UNCHANGED <<nowMs, air, unfinished, received>>
  BY NodeStepType
<1>6. DOMAIN Radios' = Nodes
  BY DEF Radios
<1> QED BY <1>3, <1>4, <1>5, <1>6 DEF Ideal!Configure, Ideal!Present, Radios

LEMMA BroadcastTransmits ==
  ASSUME IInv, NEW n \in Nodes, NEW a \in Airtimes, Broadcast(n, a)
  PROVE  Ideal!Transmit(n)
<1> DEFINE new == Scheduled(n, a)
<1>1. /\ n \in Registered /\ nowMs >= nodes[n].busyUntil
      /\ unfinished' = unfinished \cup {new} /\ air' = air \cup {new}
      /\ nowMs' = nowMs /\ received' = received
      /\ nodes' = [nodes EXCEPT ![n].busyUntil = nowMs + a]
  BY DEF Broadcast, CanSend
<1>2. nodes[n] \in NodeState /\ nodes \in [Nodes -> NodeState \cup {NoNode}]
  BY <1>1 DEF Registered, IInv, TypeOK
<1>3. TransmissionEnd(new) = nowMs + a
  BY <1>1, ScheduledType DEF TransmissionEnd
<1>4. \A f \in air : f.serial < new.serial
  <2>1. \A f \in air : f.serial <= sent /\ f.serial \in Nat /\ sent \in Nat
    BY DEF IInv, SerialsIdentify, TypeOK, TxEvent
  <2> QED BY <1>1, <2>1, ScheduledType
<1>5. Radios[n] = SettingsOf(nodes[n]) /\ Radios[n] # NoNode
  BY <1>1, RadiosFacts
<1>6. Radios' = [Radios EXCEPT ![n].busyUntil = TransmissionEnd(new)]
  <2>1. nodes'[n] = [nodes[n] EXCEPT !.busyUntil = nowMs + a]
    BY <1>1, <1>2
  <2>2. SettingsOf(nodes'[n]) = [SettingsOf(nodes[n]) EXCEPT !.busyUntil = nowMs + a]
    BY <1>2, <2>1 DEF NodeState, SettingsOf
  <2>3. nodes'[n] # NoNode
    <3>1. nowMs + a \in Nat
      BY AirtimesAssumption DEF IInv, TypeOK
    <3>2. nodes'[n] \in NodeState
      BY <1>2, <2>1, <3>1 DEF NodeState
    <3> QED BY <3>2, NoNodeAssumption
  <2>4. \A m \in Nodes \ {n} : nodes'[m] = nodes[m]
    BY <1>1, <1>2
  <2>5. Radios'[n] = [Radios[n] EXCEPT !.busyUntil = TransmissionEnd(new)]
    BY <1>3, <1>5, <2>2, <2>3 DEF Radios, Registered
  <2>6. \A m \in Nodes \ {n} : Radios'[m] = Radios[m]
    BY <2>4 DEF Radios, Registered
  <2>7. Radios' = [m \in Nodes |-> Radios'[m]]
    BY DEF Radios
  <2>8. DOMAIN Radios = Nodes
    BY DEF Radios
  <2> QED BY <2>5, <2>6, <2>7, <2>8
<1>7. /\ new.node = n /\ new.start = nowMs
      /\ new.channel = Radios[n].channel
      /\ new.position = Radios[n].position
      /\ new.power = RadiatedPower(Radios[n].txPower, Radios[n].dio2)
  BY <1>5 DEF Scheduled, SettingsOf
<1>8. nowMs >= Radios[n].busyUntil
  BY <1>1, <1>5 DEF SettingsOf
<1>9. new \in air'
  BY <1>1
<1> HIDE DEF new
<1> QED BY <1>1, <1>4, <1>5, <1>6, <1>7, <1>8, <1>9
        DEF Ideal!Transmit, Ideal!Present, Radios

LEMMA TickDecides ==
  ASSUME IInv, IInv', NEW t \in Nat, t >= nowMs, Tick(t)
  PROVE  Ideal!Decide(t)
<1> DEFINE ended == {e \in unfinished : TransmissionEnd(e) <= t}
<1>1. /\ nowMs' = t /\ air' = air
      /\ unfinished' = unfinished \ ended
      /\ received' = [n \in Nodes |->
           received[n] \cup {e.serial : e \in DeliveredTo(n, t)}]
  BY DEF Tick, Completed
<1>2. \A n \in Nodes :
        DeliveredTo(n, t) = {x \in ended : Radios[n] # NoNode
                                           /\ Receives(x, n, Radios[n], air)}
  <2> TAKE n \in Nodes
  <2>1. CASE n \in Registered
    BY <2>1, RadiosFacts, ReceivesAlike DEF DeliveredTo, Completed
  <2>2. CASE n \notin Registered
    BY <2>2, RadiosFacts DEF DeliveredTo
  <2> QED BY <2>1, <2>2
<1>3. Radios' = Radios
  <2>1. \A n \in Nodes : n \in Registered => n \in Registered' /\
          SettingsOf(nodes'[n]) = SettingsOf(nodes[n])
    <3> SUFFICES ASSUME NEW n \in Registered
                 PROVE  nodes'[n] # NoNode /\
                        SettingsOf(nodes'[n]) = SettingsOf(nodes[n])
      BY DEF Registered
    <3>1. n \in Nodes /\ nodes[n] \in NodeState
      BY DEF Registered, IInv, TypeOK
    <3>2. nodes'[n] = [nodes[n] EXCEPT !.inbox = @ \o NewPackets(n, t)]
      BY <3>1 DEF Tick
    <3>3. nodes'[n] \in NodeState
      <4>1. nodes[n].inbox \in Seq(RxPacket)
        BY <3>1 DEF NodeState
      <4>2. nodes[n].inbox \o NewPackets(n, t) \in Seq(RxPacket)
        BY <4>1, NewPacketsType, ConcatProperties
      <4> QED BY <3>1, <3>2, <4>2 DEF NodeState
    <3> QED BY <3>1, <3>2, <3>3, NoNodeAssumption DEF NodeState, SettingsOf
  <2>2. \A n \in Nodes : n \notin Registered => n \notin Registered'
    BY DEF Tick, Registered
  <2> QED BY <2>1, <2>2 DEF Radios
<1>4. received' = [n \in Nodes |-> received[n] \cup
        {e.serial : e \in {x \in ended : n \in {m \in Nodes : Radios[m] # NoNode} /\
                             Receives(x, n, Radios[n], air)}}]
  BY <1>1, <1>2
<1> QED BY <1>1, <1>3, <1>4 DEF Ideal!Decide, Ideal!Present, Radios

(* Firmware cannot tell the bus from a network that never forgets a        *)
(* transmission: every step of the bus is one of IdealRadio or a stutter.  *)
THEOREM BusImplementsIdealRadio == Spec => ImplementsIdealRadio
<1>1. Init => Ideal!IdealInit
  BY DEF Init, Ideal!IdealInit, Registered
<1>2. IInv /\ IInv' /\ [Next]_vars => [Ideal!IdealNext]_(Ideal!idealVars)
  <2> SUFFICES ASSUME IInv, IInv', [Next]_vars
               PROVE  Ideal!IdealNext \/ UNCHANGED Ideal!idealVars
    OBVIOUS
  <2>1. CASE NodeStep
    BY <2>1, NodeStepConfigures DEF Ideal!IdealNext
  <2>2. ASSUME NEW n \in Nodes, NEW a \in Airtimes, Broadcast(n, a)
        PROVE  Ideal!IdealNext
    BY <2>2, BroadcastTransmits DEF Ideal!IdealNext
  <2>3. ASSUME NEW t \in nowMs..MaxTime, Tick(t)
        PROVE  Ideal!IdealNext
    <3>1. t \in Nat /\ t >= nowMs
      BY DEF IInv, TypeOK
    <3>2. Ideal!Decide(t) /\ nowMs' = t
      BY <2>3, <3>1, TickDecides DEF Tick
    <3> QED BY <3>1, <3>2 DEF Ideal!IdealNext
  <2>4. CASE UNCHANGED vars
    BY <2>4 DEF vars, Ideal!idealVars, Registered
  <2> QED BY <2>1, <2>2, <2>3, <2>4 DEF Next, NodeStep
<1> QED BY <1>1, <1>2, AlwaysIInv, PTL DEF Spec, ImplementsIdealRadio, Ideal!IdealSpec

-----------------------------------------------------------------------------
(* The bridge. *)

(* The inductive invariant. *)

(* No clock is ahead of where a deep sleep may take the bus. *)
Clocks ==
  /\ nowMs <= MaxTime /\ simNow <= MaxTime
  /\ \A n \in Nodes :
       IF busLock = <<n, "asleep">>
       THEN nowMs <= sleepRequests[n] /\ sleepRequests[n] <= MaxTime
       ELSE sleepRequests[n] <= nowMs

(* Whoever holds the lock in its deep sleep hears nothing. *)
SleeperIsDeaf ==
  \A n \in Registered : busLock # << >> /\ busLock[1] = n =>
    ~nodes[n].rxEnabled /\ nodes[n].inbox = << >>

(* What is in a receive queue ended after the node last woke. *)
QueuesAreAwake ==
  \A n \in Registered : \A i \in 1..Len(nodes[n].inbox) :
    nodes[n].inbox[i].end > sleepRequests[n]

UndecidedIsAhead == \A e \in unfinished : TransmissionEnd(e) > nowMs

StreamsArePast ==
  \A n \in Live : \A i \in 1..Len(Stream(n)) : Stream(n)[i].end <= nowMs

BridgeInv ==
  /\ IInv
  /\ BridgeTypeOK
  /\ Clocks
  /\ SleeperIsDeaf
  /\ QueuesAreAwake
  /\ UndecidedIsAhead
  /\ StreamsArePast
  /\ StreamInOrder

-----------------------------------------------------------------------------
(* Facts about sequences of packets. *)

(* In the order of the ends, or taken for one transmission by the bus. *)
InOrder(p, q, heard) ==
  \/ p.end < q.end
  \/ \E e, f \in heard : /\ e # f
                         /\ e.serial = p.serial
                         /\ f.serial = q.serial
                         /\ SameTransmission(e, f)

Ordered(s, heard) == \A i, j \in 1..Len(s) : i < j => InOrder(s[i], s[j], heard)

LEMMA StreamsAreOrdered ==
  StreamInOrder <=> \A n \in Live : Ordered(Stream(n), air)
BY DEF StreamInOrder, Ordered, InOrder

(* A prefix of an ordered sequence is ordered, and ends no later. *)
LEMMA PrefixIsOrdered ==
  ASSUME NEW s \in Seq(RxPacket), NEW u \in Seq(RxPacket), NEW heard,
         Ordered(s \o u, heard)
  PROVE  /\ Ordered(s, heard)
         /\ \A i \in 1..Len(s) : i \in 1..Len(s \o u) /\ s[i] = (s \o u)[i]
<1>1. /\ Len(s) \in Nat /\ Len(u) \in Nat /\ Len(s \o u) = Len(s) + Len(u)
      /\ \A i \in 1..Len(s) : (s \o u)[i] = s[i]
  BY ConcatProperties, LenProperties
<1>2. \A i \in 1..Len(s) : i \in 1..Len(s \o u)
  BY <1>1
<1> QED BY <1>1, <1>2 DEF Ordered

(* Ordered sequences of which the second begins after the first ends. *)
LEMMA ConcatIsOrdered ==
  ASSUME NEW s \in Seq(RxPacket), NEW u \in Seq(RxPacket), NEW heard,
         Ordered(s, heard), Ordered(u, heard),
         \A i \in 1..Len(s), j \in 1..Len(u) : s[i].end < u[j].end
  PROVE  Ordered(s \o u, heard)
<1> DEFINE m == Len(s)
           k == Len(u)
           w == s \o u
<1>1. /\ m \in Nat /\ k \in Nat /\ Len(w) = m + k
      /\ \A i \in 1..m : w[i] = s[i]
      /\ \A i \in (m + 1)..(m + k) : w[i] = u[i - m]
  BY ConcatProperties, LenProperties
<1>2. \A i, j \in 1..m : i < j => InOrder(s[i], s[j], heard)
  BY DEF Ordered
<1>3. \A i, j \in 1..k : i < j => InOrder(u[i], u[j], heard)
  BY DEF Ordered
<1>4. \A i \in 1..m, j \in 1..k : s[i].end < u[j].end
  OBVIOUS
<1> HIDE DEF m, k, w
<1> SUFFICES ASSUME NEW i \in 1..(m + k), NEW j \in 1..(m + k), i < j
             PROVE  InOrder(w[i], w[j], heard)
  BY <1>1 DEF Ordered, w
<1>5. CASE i \in 1..m /\ j \in 1..m
  BY <1>1, <1>2, <1>5
<1>6. CASE i \in 1..m /\ j \in (m + 1)..(m + k)
  <2>1. j - m \in 1..k
    BY <1>1, <1>6
  <2> QED BY <1>1, <1>4, <1>6, <2>1 DEF InOrder
<1>7. CASE i \in (m + 1)..(m + k) /\ j \in (m + 1)..(m + k)
  <2>1. i - m \in 1..k /\ j - m \in 1..k /\ i - m < j - m
    BY <1>1, <1>7
  <2>2. w[i] = u[i - m] /\ w[j] = u[j - m]
    BY <1>1, <1>7
  <2> QED BY <1>3, <2>1, <2>2
<1> QED BY <1>1, <1>5, <1>6, <1>7

(* Moving the front of a queue to what was taken leaves the stream. *)
LEMMA PopKeepsStream ==
  ASSUME NEW s \in Seq(RxPacket), NEW q \in Seq(RxPacket), q # << >>
  PROVE  Append(s, Head(q)) \o Tail(q) = s \o q
<1>1. Head(q) \in RxPacket /\ Tail(q) \in Seq(RxPacket)
  BY HeadTailProperties
<1>2. << Head(q) >> \in Seq(RxPacket)
  BY <1>1
<1>3. Append(s, Head(q)) = s \o << Head(q) >>
  BY <1>1, AppendIsConcat
<1>4. << Head(q) >> \o Tail(q) = q
  <2>1. /\ Len(<< Head(q) >>) = 1 /\ << Head(q) >>[1] = Head(q)
        /\ Len(q) \in Nat /\ Len(q) >= 1 /\ Head(q) = q[1]
    BY EmptySeq, LenProperties
  <2>2. Len(Tail(q)) = Len(q) - 1 /\ \A i \in 1..Len(Tail(q)) : Tail(q)[i] = q[i + 1]
    BY HeadTailProperties
  <2> DEFINE w == << Head(q) >> \o Tail(q)
             h == << Head(q) >>
  <2>3. w \in Seq(RxPacket) /\ Len(w) = 1 + Len(Tail(q))
        /\ (\A i \in 1..1 : w[i] = h[i])
        /\ \A i \in 2..(1 + Len(Tail(q))) : w[i] = Tail(q)[i - 1]
    <3>1. h \in Seq(RxPacket) /\ Len(h) = 1
      BY <1>2, <2>1
    <3> HIDE DEF h
    <3> QED BY <1>1, <3>1, ConcatProperties DEF h
  <2> HIDE DEF w
  <2>4. \A i \in 1..Len(q) : w[i] = q[i]
    <3> TAKE i \in 1..Len(q)
    <3>1. CASE i = 1
      BY <2>1, <2>3, <3>1
    <3>2. CASE i # 1
      <4>1. i - 1 \in 1..Len(Tail(q)) /\ i \in 2..(1 + Len(Tail(q)))
        BY <2>1, <2>2, <3>2
      <4>2. Tail(q)[i - 1] = q[(i - 1) + 1]
        BY <2>2, <4>1
      <4>3. (i - 1) + 1 = i
        BY <4>1
      <4> QED BY <2>3, <4>1, <4>2, <4>3
    <3> QED BY <3>1, <3>2
  <2>5. w = q
    BY <2>1, <2>2, <2>3, <2>4, SeqEqual
  <2> QED BY <2>5 DEF w
<1> QED BY <1>1, <1>2, <1>3, <1>4, ConcatAssociative

-----------------------------------------------------------------------------
(* The calls are steps of the bus. *)

(* A radio that lives has a node on the bus and two queues of packets. *)
LEMMA BridgeFacts ==
  ASSUME BridgeInv
  PROVE  /\ Live = Registered /\ nodeIds = Registered
         /\ \A n \in Registered :
              /\ n \in Nodes /\ nodes[n] \in NodeState
              /\ nodes[n].inbox \in Seq(RxPacket)
              /\ handle[n] \in [pending : Seq(RxPacket)]
              /\ handle[n].pending \in Seq(RxPacket)
              /\ taken[n] \in Seq(RxPacket)
              /\ Stream(n) \in Seq(RxPacket)
<1>1. Live = Registered /\ nodeIds = Registered
  BY DEF BridgeInv, BridgeTypeOK
<1>2. ASSUME NEW n \in Registered
      PROVE  /\ n \in Nodes /\ nodes[n] \in NodeState
             /\ nodes[n].inbox \in Seq(RxPacket)
             /\ handle[n] \in [pending : Seq(RxPacket)]
             /\ handle[n].pending \in Seq(RxPacket)
             /\ taken[n] \in Seq(RxPacket)
  <2>1. n \in Nodes /\ n \in Live
    BY <1>1, <1>2 DEF Registered
  <2>2. nodes[n] \in NodeState
    BY DEF Registered, BridgeInv, IInv, TypeOK
  <2>3. handle[n] \in [pending : Seq(RxPacket)]
    BY <2>1 DEF Live, BridgeInv, BridgeTypeOK
  <2> QED BY <2>1, <2>2, <2>3 DEF NodeState, BridgeInv, BridgeTypeOK
<1>3. ASSUME NEW n \in Registered
      PROVE  Stream(n) \in Seq(RxPacket)
  BY <1>2, ConcatProperties DEF Stream
<1> QED BY <1>1, <1>2, <1>3

(* The times the bus is ticked with. *)
LEMMA TickTimes ==
  ASSUME BridgeInv
  PROVE  /\ nowMs \in Nat /\ simNow \in Nat
         /\ \A n \in Nodes : busLock = <<n, "asleep">> =>
              sleepRequests[n] \in Nat /\ sleepRequests[n] \in nowMs..MaxTime
         /\ (IF simNow > nowMs THEN simNow ELSE nowMs) \in nowMs..MaxTime
<1>1. nowMs \in Nat /\ simNow \in Nat /\ MaxTime \in Nat
  BY FrameAssumption DEF BridgeInv, BridgeTypeOK, TypeOK
<1>2. nowMs <= MaxTime /\ simNow <= MaxTime
  BY DEF BridgeInv, Clocks
<1>3. ASSUME NEW n \in Nodes, busLock = <<n, "asleep">>
      PROVE  sleepRequests[n] \in Nat /\ sleepRequests[n] \in nowMs..MaxTime
  <2>1. sleepRequests[n] \in Nat
    BY DEF BridgeInv, BridgeTypeOK
  <2>2. nowMs <= sleepRequests[n] /\ sleepRequests[n] <= MaxTime
    BY <1>3 DEF BridgeInv, Clocks
  <2> QED BY <1>1, <2>1, <2>2
<1> QED BY <1>1, <1>2, <1>3

(* What a step of the bridge asks of the bus. *)
BusCall ==
  \/ NodeStep
  \/ \E n \in Nodes, a \in Airtimes : Broadcast(n, a)
  \/ \E t \in nowMs..MaxTime : Tick(t)
  \/ UNCHANGED vars

LEMMA BusCallIsStep == BusCall => [Next]_vars
BY DEF BusCall, NodeStep, Next

LEMMA BridgeStepIsBusCall ==
  ASSUME BridgeInv, [BridgeNext]_allVars
  PROVE  BusCall
<1>1. ASSUME NEW n \in Nodes, NEW p \in Positions, NEW w \in TxPowers,
             NEW c \in Channels, RadioCreate(n, p, w, c)
      PROVE  NodeStep
  BY <1>1 DEF RadioCreate, NodeStep
<1>2. ASSUME NEW n \in Nodes, RadioDestroy(n)
      PROVE  NodeStep
  BY <1>2 DEF RadioDestroy, NodeStep
<1>3. ASSUME NEW n \in Nodes, NEW a \in Airtimes, StartSend(n, a)
      PROVE  BusCall
  BY <1>3 DEF StartSend, BusCall
<1>4. ASSUME NEW n \in Nodes, NEW p \in Positions, SetPosition(n, p)
      PROVE  NodeStep
  BY <1>4 DEF SetPosition, NodeStep
<1>5. ASSUME NEW n \in Nodes, NEW on \in BOOLEAN, SetDio2Config(n, on)
      PROVE  NodeStep
  BY <1>5 DEF SetDio2Config, NodeStep
<1>6. ASSUME NEW n \in Nodes, RecvRaw(n) \/ RecvTruncated(n)
      PROVE  BusCall
  BY <1>6 DEF RecvRaw, RecvTruncated, PollIfEmpty, NodeStep, BusCall
<1>7. ASSUME NEW n \in Nodes, NEW d \in SleepTimes, SleepBegin(n, d)
      PROVE  BusCall
  BY <1>7 DEF SleepBegin, NodeStep, BusCall
<1>8. ASSUME NEW n \in Nodes, SleepTick(n)
      PROVE  BusCall
  BY <1>8, TickTimes DEF SleepTick, BusCall
<1>9. ASSUME NEW n \in Nodes, SleepEnd(n)
      PROVE  BusCall
  BY <1>9 DEF SleepEnd, NodeStep, BusCall
<1>10. CASE RunLoops
  BY <1>10 DEF RunLoops, BusCall, vars
<1>11. CASE BusTick
  BY <1>11, TickTimes DEF BusTick, BusCall
<1>12. CASE UNCHANGED allVars
  BY <1>12 DEF allVars, BusCall
<1> QED BY <1>1, <1>2, <1>3, <1>4, <1>5, <1>6, <1>7, <1>8, <1>9, <1>10, <1>11, <1>12
        DEF BridgeNext, BusCall

(* So the bus keeps its invariant, its time moves forward and nothing      *)
(* leaves the air.                                                         *)
LEMMA BusGoesOn ==
  ASSUME BridgeInv, BusCall
  PROVE  /\ IInv' /\ nowMs' \in Nat /\ nowMs <= nowMs' /\ nowMs' <= MaxTime
         /\ air \subseteq air'
<1>1. IInv'
  BY BusCallIsStep, NextIInv DEF BridgeInv
<1>2. nowMs' \in Nat /\ nowMs \in Nat /\ nowMs <= MaxTime
  BY <1>1 DEF IInv, TypeOK, BridgeInv, Clocks
<1>3. CASE NodeStep
  BY <1>1, <1>2, <1>3, NodeStepType DEF BridgeInv
<1>4. CASE \E n \in Nodes, a \in Airtimes : Broadcast(n, a)
  BY <1>1, <1>2, <1>4 DEF Broadcast
<1>5. CASE \E t \in nowMs..MaxTime : Tick(t)
  BY <1>1, <1>2, <1>5 DEF Tick
<1>6. CASE UNCHANGED vars
  BY <1>1, <1>2, <1>6 DEF vars
<1> QED BY <1>3, <1>4, <1>5, <1>6 DEF BusCall

(* An undecided packet ends later than now: what has airtime ends after it *)
(* begins, and a tick decides all that has ended.                          *)
LEMMA UndecidedStaysAhead ==
  ASSUME BridgeInv, BusCall
  PROVE  UndecidedIsAhead'
<1>1. IInv /\ UndecidedIsAhead /\ nowMs \in Nat
  BY DEF BridgeInv, IInv, TypeOK
<1>2. CASE NodeStep
  BY <1>1, <1>2, NodeStepType DEF UndecidedIsAhead
<1>3. ASSUME NEW n \in Nodes, NEW a \in Airtimes, Broadcast(n, a)
      PROVE  UndecidedIsAhead'
  <2>1. unfinished' = unfinished \cup {Scheduled(n, a)} /\ nowMs' = nowMs
    BY <1>3 DEF Broadcast
  <2>2. TransmissionEnd(Scheduled(n, a)) = nowMs + a
    BY <1>1, <1>3, ScheduledType DEF TransmissionEnd, Broadcast, CanSend
  <2>3. a \in Nat /\ a # 0
    BY AirtimesAssumption, SendAssumption
  <2> QED BY <1>1, <2>1, <2>2, <2>3 DEF UndecidedIsAhead
<1>4. ASSUME NEW t \in nowMs..MaxTime, Tick(t)
      PROVE  UndecidedIsAhead'
  <2>1. nowMs' = t /\ t \in Nat /\ unfinished' = unfinished \ Completed(t)
    BY <1>1, <1>4 DEF Tick
  <2>2. \A e \in unfinished : TransmissionEnd(e) \in Nat
    BY <1>1, AirTimes DEF IInv, PastOnly
  <2> QED BY <2>1, <2>2 DEF UndecidedIsAhead, Completed
<1>5. CASE UNCHANGED vars
  BY <1>1, <1>5 DEF vars, UndecidedIsAhead
<1> QED BY <1>2, <1>3, <1>4, <1>5 DEF BusCall

-----------------------------------------------------------------------------
(* Types and clocks. *)

LEMMA ClocksStep ==
  ASSUME BridgeInv, [BridgeNext]_allVars
  PROVE  Clocks'
<1>1. /\ nowMs' \in Nat /\ nowMs \in Nat /\ nowMs <= nowMs' /\ nowMs' <= MaxTime
      /\ nowMs <= MaxTime
  BY BridgeStepIsBusCall, BusGoesOn DEF BridgeInv, IInv, TypeOK, Clocks
<1>2. /\ simNow <= MaxTime /\ sleepRequests \in [Nodes -> Nat]
      /\ \A n \in Nodes :
           IF busLock = <<n, "asleep">>
           THEN nowMs <= sleepRequests[n] /\ sleepRequests[n] <= MaxTime
           ELSE sleepRequests[n] <= nowMs
  BY DEF BridgeInv, BridgeTypeOK, Clocks
<1>3. ASSUME busLock' = busLock, sleepRequests' = sleepRequests, simNow' <= MaxTime,
             nowMs' = nowMs \/ BusFree
      PROVE  Clocks'
  BY <1>1, <1>2, <1>3 DEF Clocks, BusFree
<1>4. ASSUME NEW n \in Nodes, NEW d \in SleepTimes, SleepBegin(n, d)
      PROVE  Clocks'
  <2>1. nowMs' = nowMs
    BY <1>4, NodeStepType DEF SleepBegin, SetReceiveEnabled, vars
  <2>2. d \in Nat /\ nowMs + d <= MaxTime /\ busLock' = <<n, "asleep">>
        /\ sleepRequests' = [sleepRequests EXCEPT ![n] = nowMs + d] /\ simNow' = simNow
    BY <1>4, FrameAssumption DEF SleepBegin
  <2>3. sleepRequests'[n] = nowMs + d
        /\ \A m \in Nodes \ {n} : sleepRequests'[m] = sleepRequests[m]
    BY <1>2, <2>2
  <2>4. \A m \in Nodes : sleepRequests[m] <= nowMs
    BY <1>2, <1>4 DEF SleepBegin, BusFree
  <2>5. \A m \in Nodes : IF busLock' = <<m, "asleep">>
          THEN nowMs' <= sleepRequests'[m] /\ sleepRequests'[m] <= MaxTime
          ELSE sleepRequests'[m] <= nowMs'
    <3> TAKE m \in Nodes
    <3>1. CASE m = n
      BY <1>1, <2>1, <2>2, <2>3, <3>1
    <3>2. CASE m # n
      BY <2>1, <2>2, <2>3, <2>4, <3>2
    <3> QED BY <3>1, <3>2
  <2> QED BY <1>1, <1>2, <2>2, <2>5 DEF Clocks
<1>5. ASSUME NEW n \in Nodes, SleepTick(n)
      PROVE  Clocks'
  <2>1. /\ busLock = <<n, "asleep">> /\ busLock' = <<n, "waking">>
        /\ nowMs' = sleepRequests[n] /\ sleepRequests' = sleepRequests /\ simNow' = simNow
    BY <1>5 DEF SleepTick, Tick
  <2>2. \A m \in Nodes : busLock' # <<m, "asleep">> /\ sleepRequests[m] <= nowMs'
    <3> TAKE m \in Nodes
    <3>1. CASE m = n
      BY <1>2, <2>1, <3>1
    <3>2. CASE m # n
      <4>1. sleepRequests[m] <= nowMs /\ sleepRequests[m] \in Nat
        BY <1>2, <2>1, <3>2
      <4> QED BY <1>1, <2>1, <4>1
    <3> QED BY <3>1, <3>2
  <2> QED BY <1>1, <1>2, <2>1, <2>2 DEF Clocks
<1>6. ASSUME NEW n \in Nodes, SleepEnd(n)
      PROVE  Clocks'
  <2>1. nowMs' = nowMs
    BY <1>6 DEF SleepEnd, SetReceiveEnabled, vars
  <2>2. /\ busLock = <<n, "waking">> /\ busLock' = << >>
        /\ sleepRequests' = sleepRequests /\ simNow' = simNow
    BY <1>6 DEF SleepEnd
  <2>3. \A m \in Nodes : busLock' # <<m, "asleep">> /\ sleepRequests[m] <= nowMs
    BY <1>2, <2>2
  <2> QED BY <1>1, <1>2, <2>1, <2>2, <2>3 DEF Clocks
<1>7. CASE RunLoops
  <2>1. busLock' = busLock /\ sleepRequests' = sleepRequests /\ nowMs' = nowMs
        /\ simNow' <= MaxTime
    BY <1>7 DEF RunLoops, vars
  <2> QED BY <1>3, <2>1
<1>8. CASE BusTick
  BY <1>2, <1>3, <1>8 DEF BusTick
<1>9. CASE UNCHANGED allVars
  BY <1>2, <1>3, <1>9 DEF allVars, vars, bridgeVars
<1>10. ASSUME NEW n \in Nodes, NEW p \in Positions, NEW w \in TxPowers,
              NEW c \in Channels, RadioCreate(n, p, w, c)
       PROVE  Clocks'
  BY <1>2, <1>3, <1>10 DEF RadioCreate, loopVars
<1>11. ASSUME NEW n \in Nodes, RadioDestroy(n) \/ RecvRaw(n) \/ RecvTruncated(n)
       PROVE  Clocks'
  BY <1>2, <1>3, <1>11 DEF RadioDestroy, RecvRaw, RecvTruncated, loopVars
<1>12. ASSUME NEW n \in Nodes, NEW a \in Airtimes, StartSend(n, a)
       PROVE  Clocks'
  BY <1>2, <1>3, <1>12 DEF StartSend, bridgeVars
<1>13. ASSUME NEW n \in Nodes, NEW p \in Positions, SetPosition(n, p)
       PROVE  Clocks'
  BY <1>2, <1>3, <1>13 DEF SetPosition, bridgeVars
<1>14. ASSUME NEW n \in Nodes, NEW on \in BOOLEAN, SetDio2Config(n, on)
       PROVE  Clocks'
  BY <1>2, <1>3, <1>14 DEF SetDio2Config, bridgeVars
<1> QED BY <1>4, <1>5, <1>6, <1>7, <1>8, <1>9, <1>10, <1>11, <1>12, <1>13, <1>14
        DEF BridgeNext

-----------------------------------------------------------------------------
(* What the calls of the bus do to receivers and their queues. *)

SameReceiver(m) ==
  nodes'[m].inbox = nodes[m].inbox /\ nodes'[m].rxEnabled = nodes[m].rxEnabled

LEMMA RegisterReceivers ==
  ASSUME IInv, NEW n \in Nodes, NEW p \in Positions, NEW w \in TxPowers,
         NEW c \in Channels, RegisterNode(n, p, w, c)
  PROVE  /\ Registered' = Registered \cup {n}
         /\ nodes'[n].inbox = << >> /\ nodes'[n].rxEnabled = TRUE
         /\ \A m \in Registered \ {n} : SameReceiver(m)
<1>1. nodes \in [Nodes -> NodeState \cup {NoNode}]
  BY DEF IInv, TypeOK
<1>2. /\ nodes'[n] = [position |-> p, txPower |-> w, channel |-> c, inbox |-> << >>,
                      busyUntil |-> 0, rxEnabled |-> TRUE, dio2 |-> FALSE]
      /\ \A m \in Nodes \ {n} : nodes'[m] = nodes[m]
  BY <1>1 DEF RegisterNode
<1>3. nodes'[n] \in NodeState
  BY <1>2, EmptySeq DEF NodeState
<1>4. nodes'[n] # NoNode
  BY <1>3, NoNodeAssumption
<1> QED BY <1>2, <1>4 DEF Registered, SameReceiver

LEMMA UnregisterReceivers ==
  ASSUME IInv, NEW n \in Nodes, UnregisterNode(n)
  PROVE  /\ Registered' = Registered \ {n}
         /\ \A m \in Registered' : SameReceiver(m)
<1>1. nodes \in [Nodes -> NodeState \cup {NoNode}]
  BY DEF IInv, TypeOK
<1>2. nodes'[n] = NoNode /\ \A m \in Nodes \ {n} : nodes'[m] = nodes[m]
  BY <1>1 DEF UnregisterNode
<1> QED BY <1>2 DEF Registered, SameReceiver

(* The remaining methods leave who is registered. *)
LEMMA SettingReceivers ==
  ASSUME IInv, NEW n \in Nodes,
         \/ \E p \in Positions : UpdatePosition(n, p)
         \/ \E on \in BOOLEAN : SetDio2(n, on)
         \/ \E a \in Airtimes : Broadcast(n, a)
  PROVE  /\ Registered' = Registered
         /\ \A m \in Registered : SameReceiver(m)
<1>1. nodes \in [Nodes -> NodeState \cup {NoNode}] /\ nowMs \in Nat
  BY DEF IInv, TypeOK
<1>2. n \in Registered /\ nodes[n] \in NodeState
  BY DEF Registered, UpdatePosition, SetDio2, Broadcast, CanSend, IInv, TypeOK
<1>3. ASSUME NEW p \in Positions, UpdatePosition(n, p)
      PROVE  /\ nodes'[n] \in NodeState /\ SameReceiver(n)
             /\ \A m \in Nodes \ {n} : nodes'[m] = nodes[m]
  BY <1>1, <1>2, <1>3 DEF UpdatePosition, NodeState, SameReceiver
<1>4. ASSUME NEW on \in BOOLEAN, SetDio2(n, on)
      PROVE  /\ nodes'[n] \in NodeState /\ SameReceiver(n)
             /\ \A m \in Nodes \ {n} : nodes'[m] = nodes[m]
  BY <1>1, <1>2, <1>4 DEF SetDio2, NodeState, SameReceiver
<1>5. ASSUME NEW a \in Airtimes, Broadcast(n, a)
      PROVE  /\ nodes'[n] \in NodeState /\ SameReceiver(n)
             /\ \A m \in Nodes \ {n} : nodes'[m] = nodes[m]
  <2>1. nowMs + a \in Nat
    BY <1>1, AirtimesAssumption
  <2>2. nodes'[n] = [nodes[n] EXCEPT !.busyUntil = nowMs + a]
        /\ \A m \in Nodes \ {n} : nodes'[m] = nodes[m]
    BY <1>1, <1>5 DEF Broadcast
  <2> QED BY <1>2, <2>1, <2>2 DEF NodeState, SameReceiver
<1>6. /\ nodes'[n] \in NodeState /\ SameReceiver(n)
      /\ \A m \in Nodes \ {n} : nodes'[m] = nodes[m]
  BY <1>3, <1>4, <1>5
<1>7. nodes'[n] # NoNode
  BY <1>6, NoNodeAssumption
<1> QED BY <1>2, <1>6, <1>7 DEF Registered, SameReceiver

LEMMA ReceiveEnabledReceivers ==
  ASSUME IInv, NEW n \in Nodes, NEW on \in BOOLEAN, SetReceiveEnabled(n, on)
  PROVE  /\ Registered' = Registered /\ n \in Registered
         /\ nodes'[n].rxEnabled = on
         /\ nodes'[n].inbox = IF on THEN nodes[n].inbox ELSE << >>
         /\ \A m \in Registered \ {n} : SameReceiver(m)
<1>1. nodes \in [Nodes -> NodeState \cup {NoNode}]
  BY DEF IInv, TypeOK
<1>2. n \in Registered /\ nodes[n] \in NodeState
  BY DEF Registered, SetReceiveEnabled, IInv, TypeOK
<1>3. /\ nodes'[n] = [nodes[n] EXCEPT !.rxEnabled = on,
                                      !.inbox = IF on THEN @ ELSE << >>]
      /\ \A m \in Nodes \ {n} : nodes'[m] = nodes[m]
  BY <1>1, <1>2 DEF SetReceiveEnabled
<1>4. nodes'[n] \in NodeState
  BY <1>2, <1>3, EmptySeq DEF NodeState
<1>5. nodes'[n] # NoNode
  BY <1>4, NoNodeAssumption
<1>6. nodes'[n].rxEnabled = on /\ nodes'[n].inbox = IF on THEN nodes[n].inbox ELSE << >>
  BY <1>2, <1>3 DEF NodeState
<1> QED BY <1>2, <1>3, <1>5, <1>6 DEF Registered, SameReceiver

LEMMA PollReceivers ==
  ASSUME IInv, NEW n \in Nodes, Poll(n)
  PROVE  /\ Registered' = Registered /\ n \in Registered
         /\ nodes'[n].inbox = << >> /\ nodes'[n].rxEnabled = nodes[n].rxEnabled
         /\ \A m \in Registered \ {n} : SameReceiver(m)
<1>1. nodes \in [Nodes -> NodeState \cup {NoNode}]
  BY DEF IInv, TypeOK
<1>2. n \in Registered /\ nodes[n] \in NodeState
  BY DEF Registered, Poll, IInv, TypeOK
<1>3. /\ nodes'[n] = [nodes[n] EXCEPT !.inbox = << >>]
      /\ \A m \in Nodes \ {n} : nodes'[m] = nodes[m]
  BY <1>1, <1>2 DEF Poll
<1>4. nodes'[n] \in NodeState
  BY <1>2, <1>3, EmptySeq DEF NodeState
<1>5. nodes'[n] # NoNode
  BY <1>4, NoNodeAssumption
<1>6. nodes'[n].rxEnabled = nodes[n].rxEnabled /\ nodes'[n].inbox = << >>
  BY <1>2, <1>3 DEF NodeState
<1> QED BY <1>2, <1>3, <1>5, <1>6 DEF Registered, SameReceiver

LEMMA TickReceivers ==
  ASSUME IInv, NEW t \in nowMs..MaxTime, Tick(t)
  PROVE  /\ Registered' = Registered
         /\ \A m \in Registered :
              /\ nodes'[m].rxEnabled = nodes[m].rxEnabled
              /\ nodes'[m].inbox = nodes[m].inbox \o NewPackets(m, t)
<1>1. IInv'
  <2>1. t \in Nat /\ t >= nowMs
    BY DEF IInv, TypeOK
  <2> QED BY <2>1, TickIInv
<1>2. ASSUME NEW m \in Registered
      PROVE  /\ m \in Registered'
             /\ nodes'[m].rxEnabled = nodes[m].rxEnabled
             /\ nodes'[m].inbox = nodes[m].inbox \o NewPackets(m, t)
  <2>1. m \in Nodes /\ nodes[m] \in NodeState
    BY DEF Registered, IInv, TypeOK
  <2>2. nodes'[m] = [nodes[m] EXCEPT !.inbox = @ \o NewPackets(m, t)]
    BY <2>1 DEF Tick
  <2>3. nodes[m].inbox \o NewPackets(m, t) \in Seq(RxPacket)
    <3>1. nodes[m].inbox \in Seq(RxPacket)
      BY <2>1 DEF NodeState
    <3> QED BY <3>1, NewPacketsType, ConcatProperties
  <2>4. nodes'[m] \in NodeState
    BY <2>1, <2>2, <2>3 DEF NodeState
  <2>5. nodes'[m] # NoNode
    BY <2>4, NoNodeAssumption
  <2> QED BY <2>1, <2>2, <2>5 DEF NodeState, Registered
<1>3. \A m \in Nodes : m \notin Registered => m \notin Registered'
  BY DEF Tick, Registered
<1> QED BY <1>2, <1>3 DEF Registered

-----------------------------------------------------------------------------
(* One step of the bridge. *)

(* What is left of the invariant besides the bus and the clocks. *)
Receivers ==
  BridgeTypeOK /\ SleeperIsDeaf /\ QueuesAreAwake /\ StreamsArePast /\ StreamInOrder

LoopTypeOK == simNow \in Nat /\ gt911Now \in Nat /\ phase \in {"idle", "loops"}

(* A step after which a stream is new, or a prefix of what it was. *)
StreamsOnlyShrink ==
  \A m \in Live' :
    \/ Stream(m)' = << >>
    \/ /\ m \in Live /\ Stream(m)' \in Seq(RxPacket)
       /\ \E u \in Seq(RxPacket) : Stream(m) = Stream(m)' \o u

LEMMA SameStreamShrinks ==
  ASSUME NEW s \in Seq(RxPacket)
  PROVE  \E u \in Seq(RxPacket) : s = s \o u
<1>1. << >> \in Seq(RxPacket) /\ s \o << >> = s
  BY EmptySeq, ConcatEmptySeq
<1> QED BY <1>1

LEMMA ShrinkingKeepsOrder ==
  ASSUME BridgeInv, BusCall, StreamsOnlyShrink
  PROVE  StreamsArePast' /\ StreamInOrder'
<1>1. /\ nowMs' \in Nat /\ nowMs \in Nat /\ nowMs <= nowMs' /\ air \subseteq air'
  BY BusGoesOn DEF BridgeInv, IInv, TypeOK
<1>2. /\ \A m \in Live : Ordered(Stream(m), air)
      /\ \A m \in Live : \A i \in 1..Len(Stream(m)) : Stream(m)[i].end <= nowMs
      /\ \A m \in Live : Stream(m) \in Seq(RxPacket)
  BY StreamsAreOrdered, BridgeFacts DEF BridgeInv, StreamsArePast
<1>3. ASSUME NEW m \in Live'
      PROVE  /\ Ordered(Stream(m)', air')
             /\ \A i \in 1..Len(Stream(m)') : Stream(m)'[i].end <= nowMs'
  <2> DEFINE s == Stream(m)'
  <2>1. CASE s = << >>
    <3>1. Len(s) = 0 /\ 1..0 = {}
      BY <2>1
    <3> QED BY <3>1 DEF Ordered
  <2>2. CASE s # << >>
    <3>1. m \in Live /\ s \in Seq(RxPacket)
      BY <1>3, <2>2 DEF StreamsOnlyShrink
    <3>2. PICK u \in Seq(RxPacket) : Stream(m) = s \o u
      BY <1>3, <2>2 DEF StreamsOnlyShrink
    <3>3. Ordered(s \o u, air)
      BY <1>2, <3>1, <3>2
    <3> HIDE DEF s
    <3>4. /\ Ordered(s, air)
          /\ \A i \in 1..Len(s) : i \in 1..Len(s \o u) /\ s[i] = (s \o u)[i]
      BY <3>1, <3>3, PrefixIsOrdered
    <3>5. \A i \in 1..Len(s) : s[i].end <= nowMs /\ s[i].end \in Nat
      <4> TAKE i \in 1..Len(s)
      <4>1. s[i] \in RxPacket
        BY <3>1, ElementOfSeq
      <4>2. i \in 1..Len(Stream(m)) /\ s[i] = Stream(m)[i]
        BY <3>2, <3>4
      <4> QED BY <1>2, <3>1, <4>1, <4>2 DEF RxPacket
    <3>6. Ordered(s, air')
      BY <1>1, <3>4 DEF Ordered, InOrder
    <3>7. \A i \in 1..Len(s) : s[i].end <= nowMs'
      BY <1>1, <3>5
    <3> QED BY <3>6, <3>7 DEF s
  <2> QED BY <2>1, <2>2
<1>4. StreamsArePast'
  BY <1>3 DEF StreamsArePast
<1>5. StreamInOrder'
  BY <1>3 DEF StreamInOrder, Ordered, InOrder
<1> QED BY <1>4, <1>5

(* Calls that change neither receivers nor handles. *)
LEMMA SettingKeepsReceivers ==
  ASSUME BridgeInv, BusCall, Registered' = Registered,
         \A m \in Registered : SameReceiver(m),
         UNCHANGED <<nodeIds, handle, sleepRequests, busLock, taken>>,
         simNow' \in Nat, gt911Now' \in Nat, phase' \in {"idle", "loops"}
  PROVE  Receivers'
<1>1. IInv' /\ Live' = Live /\ Live = Registered
  BY BusGoesOn, BridgeFacts DEF Live
<1>2. BridgeTypeOK'
  BY <1>1 DEF BridgeInv, BridgeTypeOK, IInv, SameReceiver, BusFree, Live
<1>3. SleeperIsDeaf' /\ QueuesAreAwake'
  BY DEF BridgeInv, SleeperIsDeaf, QueuesAreAwake, SameReceiver
<1>4. StreamsOnlyShrink
  <2> SUFFICES ASSUME NEW m \in Live'
               PROVE  /\ m \in Live /\ Stream(m)' \in Seq(RxPacket)
                      /\ \E u \in Seq(RxPacket) : Stream(m) = Stream(m)' \o u
    BY DEF StreamsOnlyShrink
  <2>1. m \in Live /\ Stream(m)' = Stream(m)
    BY <1>1 DEF Stream, SameReceiver
  <2>2. Stream(m) \in Seq(RxPacket)
    BY <1>1, <2>1, BridgeFacts
  <2> QED BY <2>1, <2>2, SameStreamShrinks
<1>5. StreamsArePast' /\ StreamInOrder'
  BY <1>4, ShrinkingKeepsOrder
<1> QED BY <1>2, <1>3, <1>5 DEF Receivers

SettingCall(n) ==
  \/ \E a \in Airtimes : StartSend(n, a)
  \/ \E p \in Positions : SetPosition(n, p)
  \/ \E on \in BOOLEAN : SetDio2Config(n, on)

LEMMA SettingsStep ==
  ASSUME BridgeInv, BusCall, NEW n \in Nodes, SettingCall(n)
  PROVE  Receivers'
<1>1. UNCHANGED bridgeVars
  BY DEF SettingCall, StartSend, SetPosition, SetDio2Config
<1>2. /\ Registered' = Registered
      /\ \A m \in Registered : SameReceiver(m)
  <2>1. \/ \E p \in Positions : UpdatePosition(n, p)
        \/ \E on \in BOOLEAN : SetDio2(n, on)
        \/ \E a \in Airtimes : Broadcast(n, a)
    BY DEF SettingCall, StartSend, SetPosition, SetDio2Config
  <2> QED BY <2>1, SettingReceivers DEF BridgeInv
<1>3. simNow \in Nat /\ gt911Now \in Nat /\ phase \in {"idle", "loops"}
  BY DEF BridgeInv, BridgeTypeOK
<1> QED BY <1>1, <1>2, <1>3, SettingKeepsReceivers DEF bridgeVars

IdleCall == RunLoops \/ UNCHANGED allVars

LEMMA IdleStep ==
  ASSUME BridgeInv, BusCall, IdleCall
  PROVE  Receivers'
<1>1. UNCHANGED <<vars, nodeIds, handle, sleepRequests, busLock, taken>>
  BY DEF IdleCall, RunLoops, allVars, bridgeVars
<1>2. Registered' = Registered /\ \A m \in Registered : SameReceiver(m)
  BY <1>1 DEF vars, Registered, SameReceiver
<1>3. simNow' \in Nat /\ gt911Now' \in Nat /\ phase' \in {"idle", "loops"}
  BY FrameAssumption DEF BridgeInv, BridgeTypeOK, IdleCall, RunLoops, allVars, bridgeVars
<1> QED BY <1>1, <1>2, <1>3, SettingKeepsReceivers

(* A radio and its node, its handle and its identifier come together: the  *)
(* stream of the new radio is empty.                                       *)
LEMMA CreateStep ==
  ASSUME BridgeInv, BusCall, NEW n \in Nodes, NEW p \in Positions,
         NEW w \in TxPowers, NEW c \in Channels, RadioCreate(n, p, w, c)
  PROVE  Receivers'
<1>1. /\ BusFree /\ n \notin nodeIds /\ nodeIds' = nodeIds \cup {n}
      /\ handle' = [handle EXCEPT ![n] = [pending |-> << >>]]
      /\ taken' = [taken EXCEPT ![n] = << >>]
      /\ UNCHANGED loopVars
  BY DEF RadioCreate
<1>2. /\ Registered' = Registered \cup {n}
      /\ nodes'[n].inbox = << >> /\ nodes'[n].rxEnabled = TRUE
      /\ \A m \in Registered \ {n} : SameReceiver(m)
  BY RegisterReceivers DEF RadioCreate, BridgeInv
<1>3. /\ handle \in [Nodes -> [pending : Seq(RxPacket)] \cup {NoHandle}]
      /\ taken \in [Nodes -> Seq(RxPacket)]
      /\ Live = Registered /\ nodeIds = Registered
  BY DEF BridgeInv, BridgeTypeOK
<1>4. /\ handle'[n] = [pending |-> << >>] /\ taken'[n] = << >>
      /\ \A m \in Nodes \ {n} : handle'[m] = handle[m] /\ taken'[m] = taken[m]
  BY <1>1, <1>3
<1>5. [pending |-> << >>] \in [pending : Seq(RxPacket)]
  BY EmptySeq
<1>6. Live' = Live \cup {n}
  BY <1>4, <1>5, FrameAssumption DEF Live
<1>7. BridgeTypeOK'
  <2>1. TypeOK'
    BY BusGoesOn DEF IInv
  <2>2. nodeIds' = Registered' /\ nodeIds' = Live'
    BY <1>1, <1>2, <1>3, <1>6
  <2>3. handle' \in [Nodes -> [pending : Seq(RxPacket)] \cup {NoHandle}]
        /\ taken' \in [Nodes -> Seq(RxPacket)]
    BY <1>1, <1>3, <1>5, EmptySeq
  <2>4. \A m \in Registered' : ~nodes'[m].rxEnabled => ~BusFree' /\ busLock'[1] = m
    <3> TAKE m \in Registered'
    <3>1. CASE m = n
      BY <1>2, <3>1
    <3>2. CASE m # n
      BY <1>1, <1>2, <3>2 DEF BridgeInv, BridgeTypeOK, SameReceiver, loopVars, BusFree
    <3> QED BY <3>1, <3>2
  <2> QED BY <1>1, <2>1, <2>2, <2>3, <2>4 DEF BridgeInv, BridgeTypeOK, loopVars
<1>8. SleeperIsDeaf' /\ QueuesAreAwake'
  <2>1. Len(<< >>) = 0 /\ 1..0 = {}
    OBVIOUS
  <2>2. \A i \in 1..Len(nodes'[n].inbox) : FALSE
    BY <1>2, <2>1
  <2>3. QueuesAreAwake'
    BY <1>1, <1>2, <2>2 DEF BridgeInv, QueuesAreAwake, SameReceiver, loopVars
  <2> QED BY <1>1, <2>3 DEF SleeperIsDeaf, BusFree, loopVars
<1>9. StreamsOnlyShrink
  <2> SUFFICES ASSUME NEW m \in Live'
               PROVE  \/ Stream(m)' = << >>
                      \/ /\ m \in Live /\ Stream(m)' \in Seq(RxPacket)
                         /\ \E u \in Seq(RxPacket) : Stream(m) = Stream(m)' \o u
    BY DEF StreamsOnlyShrink
  <2>1. CASE m = n
    <3>1. << >> \o << >> = << >>
      BY EmptySeq, ConcatEmptySeq
    <3>2. Stream(m)' = << >> \o << >> \o << >>
      BY <1>2, <1>4, <2>1 DEF Stream
    <3> QED BY <3>1, <3>2
  <2>2. CASE m # n
    <3>1. m \in Live /\ m \in Nodes
      BY <1>6, <2>2 DEF Live
    <3>2. Stream(m)' = Stream(m)
      BY <1>2, <1>3, <1>4, <2>2, <3>1 DEF Stream, SameReceiver
    <3>3. Stream(m) \in Seq(RxPacket)
      BY <1>3, <3>1, BridgeFacts
    <3> QED BY <3>1, <3>2, <3>3, SameStreamShrinks
  <2> QED BY <2>1, <2>2
<1>10. StreamsArePast' /\ StreamInOrder'
  BY <1>9, ShrinkingKeepsOrder
<1> QED BY <1>7, <1>8, <1>10 DEF Receivers

LEMMA DestroyStep ==
  ASSUME BridgeInv, BusCall, NEW n \in Nodes, RadioDestroy(n)
  PROVE  Receivers'
<1>1. /\ n \in Live /\ nodeIds' = nodeIds \ {n}
      /\ handle' = [handle EXCEPT ![n] = NoHandle]
      /\ taken' = taken
      /\ UNCHANGED loopVars
  BY DEF RadioDestroy
<1>2. /\ Registered' = Registered \ {n}
      /\ \A m \in Registered' : SameReceiver(m)
  BY UnregisterReceivers DEF RadioDestroy, BridgeInv
<1>3. /\ handle \in [Nodes -> [pending : Seq(RxPacket)] \cup {NoHandle}]
      /\ taken \in [Nodes -> Seq(RxPacket)]
      /\ Live = Registered /\ nodeIds = Registered
  BY DEF BridgeInv, BridgeTypeOK
<1>4. handle'[n] = NoHandle /\ \A m \in Nodes \ {n} : handle'[m] = handle[m]
  BY <1>1, <1>3
<1>5. Live' = Live \ {n}
  BY <1>4 DEF Live
<1>6. BridgeTypeOK'
  <2>1. TypeOK'
    BY BusGoesOn DEF IInv
  <2>2. nodeIds' = Registered' /\ nodeIds' = Live'
    BY <1>1, <1>2, <1>3, <1>5
  <2>3. handle' \in [Nodes -> [pending : Seq(RxPacket)] \cup {NoHandle}]
    BY <1>1, <1>3
  <2>4. \A m \in Registered' : ~nodes'[m].rxEnabled => ~BusFree' /\ busLock'[1] = m
    BY <1>1, <1>2 DEF BridgeInv, BridgeTypeOK, SameReceiver, loopVars, BusFree
  <2> QED BY <1>1, <2>1, <2>2, <2>3, <2>4 DEF BridgeInv, BridgeTypeOK, loopVars
<1>7. SleeperIsDeaf' /\ QueuesAreAwake'
  BY <1>1, <1>2 DEF BridgeInv, SleeperIsDeaf, QueuesAreAwake, SameReceiver, loopVars
<1>8. StreamsOnlyShrink
  <2> SUFFICES ASSUME NEW m \in Live'
               PROVE  /\ m \in Live /\ Stream(m)' \in Seq(RxPacket)
                      /\ \E u \in Seq(RxPacket) : Stream(m) = Stream(m)' \o u
    BY DEF StreamsOnlyShrink
  <2>1. m \in Live /\ m # n /\ m \in Nodes /\ m \in Registered'
    BY <1>2, <1>3, <1>5 DEF Live
  <2>2. Stream(m)' = Stream(m)
    BY <1>1, <1>2, <1>4, <2>1 DEF Stream, SameReceiver
  <2>3. Stream(m) \in Seq(RxPacket)
    BY <1>3, <2>1, BridgeFacts
  <2> QED BY <2>1, <2>2, <2>3, SameStreamShrinks
<1>9. StreamsArePast' /\ StreamInOrder'
  BY <1>8, ShrinkingKeepsOrder
<1> QED BY <1>6, <1>7, <1>9 DEF Receivers

(* Polling moves packets from the bus to the handle and loses none. *)
LEMMA PollKeepsPackets ==
  ASSUME BridgeInv, NEW n \in Live, PollIfEmpty(n)
  PROVE  /\ Registered' = Registered
         /\ Polled(n) \in Seq(RxPacket)
         /\ nodes'[n].inbox \in {nodes[n].inbox, << >>}
         /\ nodes'[n].rxEnabled = nodes[n].rxEnabled
         /\ \A m \in Registered \ {n} : SameReceiver(m)
         /\ Stream(n) = (taken[n] \o Polled(n)) \o nodes'[n].inbox
<1>1. /\ n \in Registered /\ n \in Nodes
      /\ nodes[n].inbox \in Seq(RxPacket) /\ handle[n].pending \in Seq(RxPacket)
      /\ taken[n] \in Seq(RxPacket)
  BY BridgeFacts
<1>2. CASE handle[n].pending = << >>
  <2>1. /\ Registered' = Registered
        /\ nodes'[n].inbox = << >> /\ nodes'[n].rxEnabled = nodes[n].rxEnabled
        /\ \A m \in Registered \ {n} : SameReceiver(m)
    BY <1>1, <1>2, PollReceivers DEF PollIfEmpty, BridgeInv
  <2>2. Polled(n) = nodes[n].inbox
    BY <1>2 DEF Polled
  <2>3. taken[n] \o handle[n].pending = taken[n]
    BY <1>1, <1>2, ConcatEmptySeq
  <2>4. taken[n] \o nodes[n].inbox \in Seq(RxPacket)
    BY <1>1, ConcatProperties
  <2>5. (taken[n] \o nodes[n].inbox) \o << >> = taken[n] \o nodes[n].inbox
    BY <2>4, ConcatEmptySeq
  <2> QED BY <1>1, <2>1, <2>2, <2>3, <2>5 DEF Stream
<1>3. CASE handle[n].pending # << >>
  <2>1. UNCHANGED vars /\ Polled(n) = handle[n].pending
    BY <1>3 DEF PollIfEmpty, Polled
  <2> QED BY <1>1, <2>1 DEF vars, Registered, SameReceiver, Stream
<1> QED BY <1>2, <1>3

(* A read with a buffer of either size leaves every stream as it is. *)
LEMMA ReadStep ==
  ASSUME BridgeInv, BusCall, NEW n \in Nodes, RecvRaw(n) \/ RecvTruncated(n)
  PROVE  Receivers'
<1>1. /\ BusFree /\ n \in Live /\ Polled(n) # << >> /\ PollIfEmpty(n)
      /\ nodeIds' = nodeIds /\ UNCHANGED loopVars
  BY DEF RecvRaw, RecvTruncated
<1>2. /\ Registered' = Registered
      /\ Polled(n) \in Seq(RxPacket)
      /\ nodes'[n].inbox \in {nodes[n].inbox, << >>}
      /\ nodes'[n].rxEnabled = nodes[n].rxEnabled
      /\ \A m \in Registered \ {n} : SameReceiver(m)
      /\ Stream(n) = (taken[n] \o Polled(n)) \o nodes'[n].inbox
  BY <1>1, PollKeepsPackets
<1>3. /\ handle \in [Nodes -> [pending : Seq(RxPacket)] \cup {NoHandle}]
      /\ taken \in [Nodes -> Seq(RxPacket)]
      /\ Live = Registered /\ nodeIds = Registered
      /\ handle[n] \in [pending : Seq(RxPacket)]
  BY <1>1, BridgeFacts DEF BridgeInv, BridgeTypeOK
<1> DEFINE q == handle'[n].pending
<1>4. /\ handle'[n] \in [pending : Seq(RxPacket)] /\ q \in Seq(RxPacket)
      /\ taken'[n] \in Seq(RxPacket)
      /\ taken'[n] \o q = taken[n] \o Polled(n)
      /\ \A m \in Nodes \ {n} : handle'[m] = handle[m] /\ taken'[m] = taken[m]
      /\ handle' \in [Nodes -> [pending : Seq(RxPacket)] \cup {NoHandle}]
      /\ taken' \in [Nodes -> Seq(RxPacket)]
  <2>1. Head(Polled(n)) \in RxPacket /\ Tail(Polled(n)) \in Seq(RxPacket)
    BY <1>1, <1>2, HeadTailProperties
  <2>2. CASE RecvRaw(n)
    <3>1. /\ handle' = [handle EXCEPT ![n] = [handle[n] EXCEPT !.pending = Tail(Polled(n))]]
          /\ taken' = [taken EXCEPT ![n] = Append(taken[n], Head(Polled(n)))]
      BY <2>2 DEF RecvRaw
    <3>2. [handle[n] EXCEPT !.pending = Tail(Polled(n))] \in [pending : Seq(RxPacket)]
      BY <1>3, <2>1
    <3>3. Append(taken[n], Head(Polled(n))) \in Seq(RxPacket)
      BY <1>3, <2>1, AppendProperties
    <3>4. Append(taken[n], Head(Polled(n))) \o Tail(Polled(n)) = taken[n] \o Polled(n)
      BY <1>1, <1>2, <1>3, PopKeepsStream
    <3>5. q = Tail(Polled(n)) /\ taken'[n] = Append(taken[n], Head(Polled(n)))
      BY <1>3, <3>1
    <3> QED BY <1>3, <2>1, <3>1, <3>2, <3>3, <3>4, <3>5
  <2>3. CASE RecvTruncated(n)
    <3>1. /\ handle' = [handle EXCEPT ![n] = [handle[n] EXCEPT !.pending = Polled(n)]]
          /\ taken' = taken
      BY <2>3 DEF RecvTruncated
    <3>2. [handle[n] EXCEPT !.pending = Polled(n)] \in [pending : Seq(RxPacket)]
      BY <1>2, <1>3
    <3>3. q = Polled(n)
      BY <1>3, <3>1
    <3> QED BY <1>2, <1>3, <3>1, <3>2, <3>3
  <2> QED BY <2>2, <2>3
<1> HIDE DEF q
<1>5. Live' = Live
  BY <1>1, <1>4, FrameAssumption DEF Live
<1>6. BridgeTypeOK'
  <2>1. TypeOK'
    BY BusGoesOn DEF IInv
  <2>2. \A m \in Registered' : ~nodes'[m].rxEnabled => ~BusFree' /\ busLock'[1] = m
    <3> TAKE m \in Registered'
    <3>1. CASE m = n
      BY <1>1, <1>2, <3>1 DEF BridgeInv, BridgeTypeOK, loopVars, BusFree
    <3>2. CASE m # n
      BY <1>1, <1>2, <3>2 DEF BridgeInv, BridgeTypeOK, SameReceiver, loopVars, BusFree
    <3> QED BY <3>1, <3>2
  <2> QED BY <1>1, <1>2, <1>3, <1>4, <1>5, <2>1, <2>2 DEF BridgeInv, BridgeTypeOK, loopVars
<1>7. QueuesAreAwake'
  <2>1. Len(<< >>) = 0 /\ 1..0 = {}
    OBVIOUS
  <2>2. \A i \in 1..Len(nodes'[n].inbox) : nodes'[n].inbox[i].end > sleepRequests[n]
    <3>1. CASE nodes'[n].inbox = << >>
      BY <2>1, <3>1
    <3>2. CASE nodes'[n].inbox = nodes[n].inbox
      BY <1>1, <1>3, <3>2 DEF BridgeInv, QueuesAreAwake
    <3> QED BY <1>2, <3>1, <3>2
  <2> QED BY <1>1, <1>2, <2>2 DEF BridgeInv, QueuesAreAwake, SameReceiver, loopVars
<1>8. SleeperIsDeaf'
  BY <1>1 DEF SleeperIsDeaf, BusFree, loopVars
<1>9. StreamsOnlyShrink
  <2> SUFFICES ASSUME NEW m \in Live'
               PROVE  /\ m \in Live /\ Stream(m)' \in Seq(RxPacket)
                      /\ \E u \in Seq(RxPacket) : Stream(m) = Stream(m)' \o u
    BY DEF StreamsOnlyShrink
  <2>1. m \in Live /\ m \in Nodes
    BY <1>5 DEF Live
  <2>2. Stream(m)' = Stream(m)
    <3>1. CASE m = n
      <4>1. Stream(n)' = (taken'[n] \o q) \o nodes'[n].inbox
        BY DEF Stream, q
      <4> QED BY <1>2, <1>4, <3>1, <4>1
    <3>2. CASE m # n
      BY <1>2, <1>3, <1>4, <2>1, <3>2 DEF Stream, SameReceiver
    <3> QED BY <3>1, <3>2
  <2>3. Stream(m) \in Seq(RxPacket)
    BY <1>3, <2>1, BridgeFacts
  <2> QED BY <2>1, <2>2, <2>3, SameStreamShrinks
<1>10. StreamsArePast' /\ StreamInOrder'
  BY <1>9, ShrinkingKeepsOrder
<1> QED BY <1>6, <1>7, <1>8, <1>10 DEF Receivers

(* Falling asleep empties the queue that the bus keeps, so no packet in it *)
(* is older than the moment of waking.                                     *)
LEMMA SleepBeginStep ==
  ASSUME BridgeInv, BusCall, NEW n \in Nodes, NEW d \in SleepTimes, SleepBegin(n, d)
  PROVE  Receivers'
<1>1. /\ BusFree /\ busLock' = <<n, "asleep">>
      /\ sleepRequests' = [sleepRequests EXCEPT ![n] = nowMs + d]
      /\ UNCHANGED <<nodeIds, handle, simNow, gt911Now, phase, taken>>
  BY DEF SleepBegin
<1>2. /\ Registered' = Registered
      /\ n \in Registered => ~nodes'[n].rxEnabled /\ nodes'[n].inbox = << >>
      /\ \A m \in Registered \ {n} : SameReceiver(m)
  <2>1. CASE n \in Registered
    <3>1. SetReceiveEnabled(n, FALSE)
      BY <2>1 DEF SleepBegin
    <3> QED BY <3>1, ReceiveEnabledReceivers DEF BridgeInv
  <2>2. CASE n \notin Registered
    BY <2>2 DEF SleepBegin, vars, Registered, SameReceiver
  <2> QED BY <2>1, <2>2
<1>3. /\ Live = Registered /\ nodeIds = Registered /\ Live' = Live
      /\ sleepRequests \in [Nodes -> Nat]
  BY <1>1 DEF BridgeInv, BridgeTypeOK, Live
<1>4. nowMs + d \in Nat
  BY FrameAssumption DEF BridgeInv, IInv, TypeOK
<1>5. /\ \A m \in Nodes \ {n} : sleepRequests'[m] = sleepRequests[m]
      /\ sleepRequests' \in [Nodes -> Nat]
  BY <1>1, <1>3, <1>4
<1>6. BridgeTypeOK'
  <2>1. TypeOK'
    BY BusGoesOn DEF IInv
  <2>2. \A m \in Registered' : ~nodes'[m].rxEnabled => ~BusFree' /\ busLock'[1] = m
    <3> TAKE m \in Registered'
    <3>1. busLock' # << >> /\ busLock'[1] = n
      BY <1>1
    <3>2. CASE m = n
      BY <3>1, <3>2 DEF BusFree
    <3>3. CASE m # n
      BY <1>1, <1>2, <3>3 DEF BridgeInv, BridgeTypeOK, SameReceiver, BusFree
    <3> QED BY <3>2, <3>3
  <2> QED BY <1>1, <1>2, <1>3, <1>5, <2>1, <2>2 DEF BridgeInv, BridgeTypeOK
<1>7. SleeperIsDeaf'
  BY <1>1, <1>2 DEF SleeperIsDeaf
<1>8. QueuesAreAwake'
  <2>1. Len(<< >>) = 0 /\ 1..0 = {}
    OBVIOUS
  <2>2. n \in Registered => \A i \in 1..Len(nodes'[n].inbox) : FALSE
    BY <1>2, <2>1
  <2> QED BY <1>2, <1>5, <2>2 DEF BridgeInv, QueuesAreAwake, SameReceiver, Registered
<1>9. StreamsOnlyShrink
  <2> SUFFICES ASSUME NEW m \in Live'
               PROVE  /\ m \in Live /\ Stream(m)' \in Seq(RxPacket)
                      /\ \E u \in Seq(RxPacket) : Stream(m) = Stream(m)' \o u
    BY DEF StreamsOnlyShrink
  <2>1. /\ m \in Live /\ m \in Registered /\ Stream(m) \in Seq(RxPacket)
        /\ taken[m] \in Seq(RxPacket) /\ handle[m].pending \in Seq(RxPacket)
        /\ nodes[m].inbox \in Seq(RxPacket)
    BY <1>3, BridgeFacts
  <2>2. CASE m = n
    <3> DEFINE s == taken[n] \o handle[n].pending
    <3>1. s \in Seq(RxPacket)
      BY <2>1, <2>2, ConcatProperties
    <3>2. Stream(n)' = s \o << >>
      BY <1>1, <1>2, <2>1, <2>2 DEF Stream
    <3>3. s \o << >> = s
      BY <3>1, ConcatEmptySeq
    <3>4. Stream(n) = Stream(n)' \o nodes[n].inbox
      BY <3>2, <3>3 DEF Stream
    <3> QED BY <2>1, <2>2, <3>1, <3>2, <3>3, <3>4
  <2>3. CASE m # n
    <3>1. Stream(m)' = Stream(m)
      BY <1>1, <1>2, <2>1, <2>3 DEF Stream, SameReceiver
    <3> QED BY <2>1, <3>1, SameStreamShrinks
  <2> QED BY <2>2, <2>3
<1>10. StreamsArePast' /\ StreamInOrder'
  BY <1>9, ShrinkingKeepsOrder
<1> QED BY <1>6, <1>7, <1>8, <1>10 DEF Receivers

(* Waking turns the receiver on again, with nothing in its queue. *)
LEMMA SleepEndStep ==
  ASSUME BridgeInv, BusCall, NEW n \in Nodes, SleepEnd(n)
  PROVE  Receivers'
<1>1. /\ busLock = <<n, "waking">> /\ busLock' = << >>
      /\ UNCHANGED <<nodeIds, handle, sleepRequests, simNow, gt911Now, phase, taken>>
  BY DEF SleepEnd
<1>2. /\ Registered' = Registered
      /\ n \in Registered => nodes'[n].rxEnabled /\ nodes'[n].inbox = nodes[n].inbox
      /\ \A m \in Registered \ {n} : SameReceiver(m)
  <2>1. CASE n \in Registered
    <3>1. SetReceiveEnabled(n, TRUE)
      BY <2>1 DEF SleepEnd
    <3> QED BY <3>1, ReceiveEnabledReceivers DEF BridgeInv
  <2>2. CASE n \notin Registered
    BY <2>2 DEF SleepEnd, vars, Registered, SameReceiver
  <2> QED BY <2>1, <2>2
<1>3. Live = Registered /\ nodeIds = Registered /\ Live' = Live
  BY <1>1 DEF BridgeInv, BridgeTypeOK, Live
<1>4. BridgeTypeOK'
  <2>1. TypeOK'
    BY BusGoesOn DEF IInv
  <2>2. \A m \in Registered' : nodes'[m].rxEnabled
    <3> TAKE m \in Registered'
    <3>1. CASE m = n
      BY <1>2, <3>1
    <3>2. CASE m # n
      <4>1. busLock[1] # m
        BY <1>1, <3>2
      <4>2. nodes[m].rxEnabled
        BY <1>2, <4>1 DEF BridgeInv, BridgeTypeOK
      <4> QED BY <1>2, <3>2, <4>2 DEF SameReceiver
    <3> QED BY <3>1, <3>2
  <2> QED BY <1>1, <1>2, <1>3, <2>1, <2>2 DEF BridgeInv, BridgeTypeOK
<1>5. SleeperIsDeaf'
  BY <1>1 DEF SleeperIsDeaf
<1>6. QueuesAreAwake'
  BY <1>1, <1>2 DEF BridgeInv, QueuesAreAwake, SameReceiver
<1>7. StreamsOnlyShrink
  <2> SUFFICES ASSUME NEW m \in Live'
               PROVE  /\ m \in Live /\ Stream(m)' \in Seq(RxPacket)
                      /\ \E u \in Seq(RxPacket) : Stream(m) = Stream(m)' \o u
    BY DEF StreamsOnlyShrink
  <2>1. m \in Live /\ m \in Registered /\ Stream(m) \in Seq(RxPacket)
    BY <1>3, BridgeFacts
  <2>2. Stream(m)' = Stream(m)
    BY <1>1, <1>2, <2>1 DEF Stream, SameReceiver
  <2> QED BY <2>1, <2>2, SameStreamShrinks
<1>8. StreamsArePast' /\ StreamInOrder'
  BY <1>7, ShrinkingKeepsOrder
<1> QED BY <1>4, <1>5, <1>6, <1>8 DEF Receivers

(* What a tick adds to a stream ended after everything before it. *)
LEMMA TickKeepsOrder ==
  ASSUME BridgeInv, BusCall, NEW t \in nowMs..MaxTime, Tick(t), UNCHANGED <<handle, taken>>
  PROVE  StreamsArePast' /\ StreamInOrder'
<1>1. /\ nowMs \in Nat /\ t \in Nat /\ nowMs <= t /\ nowMs' = t
      /\ air' = air /\ IInv
  BY DEF Tick, BridgeInv, IInv, TypeOK
<1>2. ASSUME NEW m \in Live'
      PROVE  /\ Ordered(Stream(m)', air')
             /\ \A i \in 1..Len(Stream(m)') : Stream(m)'[i].end <= nowMs'
  <2>1. /\ m \in Live /\ m \in Registered /\ Stream(m) \in Seq(RxPacket)
        /\ taken[m] \in Seq(RxPacket) /\ handle[m].pending \in Seq(RxPacket)
        /\ nodes[m].inbox \in Seq(RxPacket)
    BY <1>2, BridgeFacts DEF Live
  <2> DEFINE s == Stream(m)
             u == NewPackets(m, t)
  <2>2. u \in Seq(RxPacket)
    BY <1>1, <2>1, NewPacketsType
  <2>3. Stream(m)' = s \o u
    <3>1. nodes'[m].inbox = nodes[m].inbox \o u
      BY <2>1, TickReceivers DEF BridgeInv
    <3>2. Stream(m)' = (taken[m] \o handle[m].pending) \o (nodes[m].inbox \o u)
      BY <3>1 DEF Stream
    <3> DEFINE w == taken[m] \o handle[m].pending
    <3>3. w \in Seq(RxPacket)
      BY <2>1, ConcatProperties
    <3> HIDE DEF u, w
    <3>4. (w \o nodes[m].inbox) \o u = w \o (nodes[m].inbox \o u)
      <4> DEFINE v == nodes[m].inbox
      <4>1. v \in Seq(RxPacket)
        BY <2>1
      <4> HIDE DEF v, s
      <4>2. (w \o v) \o u = w \o (v \o u)
        BY <2>2, <3>3, <4>1, ConcatAssociative
      <4> QED BY <4>2 DEF v
    <3>5. s = w \o nodes[m].inbox
      BY DEF Stream, w
    <3>6. Stream(m)' = w \o (nodes[m].inbox \o u)
      BY <3>2 DEF w
    <3> QED BY <3>4, <3>5, <3>6
  <2>4. Ordered(s, air) /\ \A i \in 1..Len(s) : s[i].end <= nowMs /\ s[i].end \in Nat
    <3>1. \A i \in 1..Len(s) : s[i] \in RxPacket
      BY <2>1, ElementOfSeq
    <3> QED BY <2>1, <3>1, StreamsAreOrdered DEF BridgeInv, StreamsArePast, RxPacket
  <2>5. \A i \in 1..Len(u) : u[i].end \in Nat /\ u[i].end <= t /\ u[i].end > nowMs
    <3> TAKE i \in 1..Len(u)
    <3>1. u[i] \in RxPacket
      BY <2>2, ElementOfSeq
    <3>2. u[i].end <= t /\ \E e \in unfinished : u[i].end = TransmissionEnd(e)
      BY <1>1, <2>1, NewPacketsTimes
    <3> QED BY <3>1, <3>2 DEF RxPacket, BridgeInv, UndecidedIsAhead
  <2>6. Ordered(u, air)
    BY <1>1, <2>1, SendAssumption, NewPacketsInOrder DEF Ordered, InOrder
  <2> HIDE DEF s, u
  <2>7. \A i \in 1..Len(s), j \in 1..Len(u) : s[i].end < u[j].end
    BY <1>1, <2>4, <2>5
  <2>8. Ordered(s \o u, air)
    BY <2>1, <2>2, <2>4, <2>6, <2>7, ConcatIsOrdered DEF s
  <2>9. \A i \in 1..Len(s \o u) : (s \o u)[i].end <= t
    <3>1. /\ Len(s) \in Nat /\ Len(u) \in Nat /\ Len(s \o u) = Len(s) + Len(u)
          /\ \A i \in 1..(Len(s) + Len(u)) :
               (s \o u)[i] = IF i <= Len(s) THEN s[i] ELSE u[i - Len(s)]
      BY <2>1, <2>2, ConcatProperties, LenProperties DEF s
    <3> TAKE i \in 1..Len(s \o u)
    <3>2. CASE i <= Len(s)
      <4>1. i \in 1..Len(s) /\ (s \o u)[i] = s[i]
        BY <3>1, <3>2
      <4> QED BY <1>1, <2>4, <4>1
    <3>3. CASE ~(i <= Len(s))
      <4>1. i - Len(s) \in 1..Len(u) /\ (s \o u)[i] = u[i - Len(s)]
        BY <3>1, <3>3
      <4> QED BY <2>5, <4>1
    <3> QED BY <3>2, <3>3
  <2> QED BY <1>1, <2>3, <2>8, <2>9
<1>3. StreamsArePast'
  BY <1>2 DEF StreamsArePast
<1>4. StreamInOrder'
  BY <1>2 DEF StreamInOrder, Ordered, InOrder
<1> QED BY <1>3, <1>4

(* A receiver that is off gets nothing. *)
LEMMA DeafHearsNothing ==
  ASSUME IInv, NEW n \in Registered, NEW t, ~nodes[n].rxEnabled
  PROVE  NewPackets(n, t) = << >>
<1>1. DeliveredTo(n, t) = {}
  BY DEF DeliveredTo, Receives
<1>2. Cardinality(DeliveredTo(n, t)) = 0
  BY <1>1, FS_EmptySet
<1>3. Len(NewPackets(n, t)) = 0 /\ NewPackets(n, t) \in Seq(RxPacket)
  BY <1>2, NewPacketsOrigin, NewPacketsType
<1> QED BY <1>3, EmptySeq

(* Who may tick: the frame loop when nobody sleeps, or the sleeper. *)
TickingLock ==
  \/ BusFree /\ busLock' = busLock
  \/ \E n \in Nodes : busLock = <<n, "asleep">> /\ busLock' = <<n, "waking">>

LEMMA TickStep ==
  ASSUME BridgeInv, BusCall, NEW t \in nowMs..MaxTime, Tick(t),
         nodeIds' = nodeIds, handle' = handle, sleepRequests' = sleepRequests,
         taken' = taken, TickingLock, LoopTypeOK'
  PROVE  Receivers'
<1>1. /\ Registered' = Registered
      /\ \A m \in Registered :
           /\ nodes'[m].rxEnabled = nodes[m].rxEnabled
           /\ nodes'[m].inbox = nodes[m].inbox \o NewPackets(m, t)
  BY TickReceivers DEF BridgeInv
<1>2. Live = Registered /\ nodeIds = Registered /\ Live' = Live
  BY DEF BridgeInv, BridgeTypeOK, Live
<1>3. (busLock' = << >> <=> busLock = << >>) /\ (busLock # << >> => busLock'[1] = busLock[1])
  BY DEF TickingLock, BusFree
<1>4. busLock' \in {<< >>} \cup (Nodes \X {"asleep", "waking"})
  BY DEF TickingLock, BridgeInv, BridgeTypeOK, BusFree
<1>5. BridgeTypeOK'
  <2>1. TypeOK'
    BY BusGoesOn DEF IInv
  <2>2. \A m \in Registered' : ~nodes'[m].rxEnabled => ~BusFree' /\ busLock'[1] = m
    BY <1>1, <1>3 DEF BridgeInv, BridgeTypeOK, BusFree
  <2> QED BY <1>1, <1>2, <1>4, <2>1, <2>2 DEF BridgeInv, BridgeTypeOK, LoopTypeOK
<1>6. \A m \in Registered : busLock # << >> /\ busLock[1] = m =>
        ~nodes'[m].rxEnabled /\ nodes'[m].inbox = << >>
  <2> SUFFICES ASSUME NEW m \in Registered, busLock # << >>, busLock[1] = m
               PROVE  ~nodes'[m].rxEnabled /\ nodes'[m].inbox = << >>
    OBVIOUS
  <2>1. ~nodes[m].rxEnabled /\ nodes[m].inbox = << >>
    BY DEF BridgeInv, SleeperIsDeaf
  <2>2. NewPackets(m, t) = << >>
    BY <2>1, DeafHearsNothing DEF BridgeInv
  <2>3. << >> \o << >> = << >>
    BY EmptySeq, ConcatEmptySeq
  <2> QED BY <1>1, <2>1, <2>2, <2>3
<1>7. SleeperIsDeaf'
  BY <1>1, <1>3, <1>6 DEF SleeperIsDeaf
<1>8. QueuesAreAwake'
  <2> SUFFICES ASSUME NEW m \in Registered, NEW i \in 1..Len(nodes'[m].inbox)
               PROVE  nodes'[m].inbox[i].end > sleepRequests[m]
    BY <1>1 DEF QueuesAreAwake
  <2>1. CASE busLock # << >> /\ busLock[1] = m
    <3>1. nodes'[m].inbox = << >> /\ Len(<< >>) = 0 /\ 1..0 = {}
      BY <1>6, <2>1
    <3> QED BY <3>1
  <2>2. CASE ~(busLock # << >> /\ busLock[1] = m)
    <3> DEFINE s == nodes[m].inbox
               u == NewPackets(m, t)
    <3>1. m \in Nodes /\ s \in Seq(RxPacket) /\ u \in Seq(RxPacket)
      BY BridgeFacts, NewPacketsType DEF BridgeInv
    <3>2. sleepRequests[m] <= nowMs /\ sleepRequests[m] \in Nat /\ nowMs \in Nat
      <4>1. busLock # <<m, "asleep">>
        BY <2>2
      <4> QED BY <3>1, <4>1 DEF BridgeInv, Clocks, BridgeTypeOK, IInv, TypeOK
    <3>3. \A j \in 1..Len(s) : s[j].end > sleepRequests[m]
      BY DEF BridgeInv, QueuesAreAwake
    <3>4. \A j \in 1..Len(u) : u[j].end > sleepRequests[m]
      <4> TAKE j \in 1..Len(u)
      <4>1. u[j] \in RxPacket
        BY <3>1, ElementOfSeq
      <4>2. PICK e \in unfinished : u[j].end = TransmissionEnd(e)
        BY NewPacketsTimes DEF BridgeInv
      <4>3. u[j].end > nowMs /\ u[j].end \in Nat
        BY <4>1, <4>2 DEF RxPacket, BridgeInv, UndecidedIsAhead
      <4> QED BY <3>2, <4>3
    <3>5. nodes'[m].inbox = s \o u
      BY <1>1
    <3> HIDE DEF s, u
    <3>6. /\ Len(s) \in Nat /\ Len(u) \in Nat /\ Len(s \o u) = Len(s) + Len(u)
          /\ \A j \in 1..(Len(s) + Len(u)) :
               (s \o u)[j] = IF j <= Len(s) THEN s[j] ELSE u[j - Len(s)]
      BY <3>1, ConcatProperties, LenProperties
    <3>7. CASE i <= Len(s)
      <4>1. i \in 1..Len(s) /\ nodes'[m].inbox[i] = s[i]
        BY <3>5, <3>6, <3>7
      <4> QED BY <3>3, <4>1
    <3>8. CASE ~(i <= Len(s))
      <4>1. i - Len(s) \in 1..Len(u) /\ nodes'[m].inbox[i] = u[i - Len(s)]
        BY <3>5, <3>6, <3>8
      <4> QED BY <3>4, <4>1
    <3> QED BY <3>7, <3>8
  <2> QED BY <2>1, <2>2
<1>9. StreamsArePast' /\ StreamInOrder'
  BY TickKeepsOrder
<1> QED BY <1>5, <1>7, <1>8, <1>9 DEF Receivers

-----------------------------------------------------------------------------
(* The invariant. *)

LEMMA InitBridgeInv == BridgeInit => BridgeInv
<1> SUFFICES ASSUME BridgeInit PROVE BridgeInv
  OBVIOUS
<1>1. IInv
  BY InitIInv DEF BridgeInit
<1>2. Registered = {} /\ Live = {} /\ nowMs = 0 /\ unfinished = {}
  BY DEF BridgeInit, Init, Registered, Live
<1>3. BridgeTypeOK
  BY <1>1, <1>2, EmptySeq DEF BridgeInit, BridgeTypeOK, IInv
<1>4. Clocks
  BY <1>2, FrameAssumption DEF BridgeInit, Clocks
<1>5. SleeperIsDeaf /\ QueuesAreAwake /\ UndecidedIsAhead /\ StreamsArePast /\ StreamInOrder
  BY <1>2 DEF SleeperIsDeaf, QueuesAreAwake, UndecidedIsAhead, StreamsArePast, StreamInOrder
<1> QED BY <1>1, <1>3, <1>4, <1>5 DEF BridgeInv

LEMMA NextBridgeInv == BridgeInv /\ [BridgeNext]_allVars => BridgeInv'
<1> SUFFICES ASSUME BridgeInv, [BridgeNext]_allVars PROVE BridgeInv'
  OBVIOUS
<1>1. BusCall
  BY BridgeStepIsBusCall
<1>2. IInv' /\ UndecidedIsAhead' /\ Clocks'
  BY <1>1, BusGoesOn, UndecidedStaysAhead, ClocksStep
<1>3. LoopTypeOK
  BY DEF BridgeInv, BridgeTypeOK, LoopTypeOK
<1>4. ASSUME NEW n \in Nodes, NEW p \in Positions, NEW w \in TxPowers,
             NEW c \in Channels, RadioCreate(n, p, w, c)
      PROVE  Receivers'
  BY <1>1, <1>4, CreateStep
<1>5. ASSUME NEW n \in Nodes, RadioDestroy(n)
      PROVE  Receivers'
  BY <1>1, <1>5, DestroyStep
<1>6. ASSUME NEW n \in Nodes, SettingCall(n)
      PROVE  Receivers'
  BY <1>1, <1>6, SettingsStep
<1>7. ASSUME NEW n \in Nodes, RecvRaw(n) \/ RecvTruncated(n)
      PROVE  Receivers'
  BY <1>1, <1>7, ReadStep
<1>8. ASSUME NEW n \in Nodes, NEW d \in SleepTimes, SleepBegin(n, d)
      PROVE  Receivers'
  BY <1>1, <1>8, SleepBeginStep
<1>9. ASSUME NEW n \in Nodes, SleepTick(n)
      PROVE  Receivers'
  <2>1. /\ busLock = <<n, "asleep">> /\ busLock' = <<n, "waking">>
        /\ Tick(sleepRequests[n])
        /\ UNCHANGED <<nodeIds, handle, sleepRequests, simNow, gt911Now, phase, taken>>
    BY <1>9 DEF SleepTick
  <2>2. sleepRequests[n] \in nowMs..MaxTime
    BY <2>1, TickTimes
  <2>3. TickingLock /\ LoopTypeOK'
    BY <1>3, <2>1 DEF TickingLock, LoopTypeOK
  <2> QED BY <1>1, <2>1, <2>2, <2>3, TickStep
<1>10. ASSUME NEW n \in Nodes, SleepEnd(n)
       PROVE  Receivers'
  BY <1>1, <1>10, SleepEndStep
<1>11. ASSUME IdleCall
       PROVE  Receivers'
  BY <1>1, <1>11, IdleStep
<1>12. ASSUME BusTick
       PROVE  Receivers'
  <2> DEFINE t == IF simNow > nowMs THEN simNow ELSE nowMs
  <2>1. /\ BusFree /\ Tick(t) /\ gt911Now' = simNow /\ phase' = "idle"
        /\ UNCHANGED <<nodeIds, handle, sleepRequests, busLock, simNow, taken>>
    BY <1>12 DEF BusTick
  <2>2. t \in nowMs..MaxTime
    BY TickTimes
  <2> HIDE DEF t
  <2>3. TickingLock /\ LoopTypeOK'
    BY <1>3, <2>1 DEF TickingLock, LoopTypeOK
  <2> QED BY <1>1, <2>1, <2>2, <2>3, TickStep
<1>13. Receivers'
  BY <1>4, <1>5, <1>6, <1>7, <1>8, <1>9, <1>10, <1>11, <1>12
     DEF BridgeNext, SettingCall, IdleCall
<1> QED BY <1>2, <1>13 DEF Receivers, BridgeInv

-----------------------------------------------------------------------------
(* Theorems. *)

LEMMA AlwaysBridgeInv == BridgeSpec => []BridgeInv
BY InitBridgeInv, NextBridgeInv, PTL DEF BridgeSpec

(* A radio handle, its node on the bus and its identifier exist together,  *)
(* and a receiver is off only inside its own deep sleep.                   *)
THEOREM BridgeTypeCorrect == BridgeSpec => []BridgeTypeOK
BY AlwaysBridgeInv, PTL DEF BridgeInv

(* The bridge uses the bus as the bus allows, deep sleep and the frame     *)
(* loop included: time never goes back, and never beyond the bound.  All   *)
(* that is proved of the bus holds under the bridge.                       *)
THEOREM BridgeKeepsTheBus == BridgeSpec => UsesBusAsSpecified
<1>1. BridgeInit => Init
  BY DEF BridgeInit
<1>2. BridgeInv /\ [BridgeNext]_allVars => [Next]_vars
  BY BridgeStepIsBusCall, BusCallIsStep
<1> QED BY <1>1, <1>2, AlwaysBridgeInv, PTL DEF BridgeSpec, Spec, UsesBusAsSpecified

(* Firmware gets every packet at most once and in the order the packets    *)
(* ended, through both queues, truncated reads and deep sleeps.            *)
THEOREM FirmwareReadsInOrder == BridgeSpec => []StreamInOrder
BY AlwaysBridgeInv, PTL DEF BridgeInv

(* A deep sleep empties the queue on the bus, and nothing that ends before *)
(* the node wakes gets into it.                                            *)
THEOREM SleepersHearNothing == BridgeSpec => []SleeperHearsNothing
<1>1. BridgeInv => SleeperHearsNothing
  BY DEF BridgeInv, QueuesAreAwake, SleeperHearsNothing
<1> QED BY <1>1, AlwaysBridgeInv, PTL

(* Under the bridge, too, the bus is a network that never forgets a        *)
(* transmission, and nobody hears while sending.                           *)
THEOREM BridgeImplementsIdealRadio ==
  BridgeSpec => ImplementsIdealRadio /\ []HalfDuplexHolds
BY BridgeKeepsTheBus, BusImplementsIdealRadio, NobodyHearsWhileSending
   DEF UsesBusAsSpecified
=============================================================================
