------------------------------ MODULE RadioAir ------------------------------
(***************************************************************************)
(* The air interface of the virtual LoRa network: the pure functions that  *)
(* RadioBus (core/radio_bus/src/bus.rs) applies to scheduled transmissions *)
(* and receivers.  There is no state here.                                 *)
(*                                                                         *)
(* Signal levels are linear power in integer units instead of f64 dBm, so  *)
(* that the sum of interferers is a sum and a difference of decibels is a  *)
(* ratio: "rssi - interference <= 6 dB" becomes "rssi <= 4 * interference" *)
(* (10^0.6 is 3.98).  A gain of 0 stands for the `None` of a propagation   *)
(* model that rejects the link.  Noise only enters the reported SNR, which *)
(* decides nothing, and is left out.                                       *)
(***************************************************************************)
EXTENDS Integers, FiniteSets, FiniteSetsExt

CONSTANTS
  Nodes,          \* instance identifiers that may own a radio
  Channels,       \* RadioChannel values (frequency, bandwidth, SF, CR)
  Positions,      \* geographic positions
  TxPowers,       \* configured transmit powers, in linear units
  Airtimes,       \* packet airtimes in ms
  Gain,           \* Gain[p][q]: path gain from position p to position q
  Sensitivity,    \* Sensitivity[c]: weakest level channel c demodulates
  SameBand,       \* pairs of channels whose frequencies overlap
  CaptureRatio,   \* CAPTURE_THRESHOLD_DB, as a ratio
  Dio2TxLoss,     \* SX1262_DIO2_TX_LOSS_DB, as a ratio
  Dio2RxLoss      \* SX1262_DIO2_RX_LOSS_DB, as a ratio

ASSUME AirtimesAssumption == Airtimes \subseteq Nat

ASSUME LevelsAssumption ==
  /\ TxPowers \subseteq Nat
  /\ Gain \in [Positions -> [Positions -> Nat]]
  /\ Sensitivity \in [Channels -> Nat \ {0}]
  /\ SameBand \subseteq Channels \X Channels
  /\ \A c \in Channels : <<c, c>> \in SameBand
  /\ CaptureRatio \in Nat \ {0}
  /\ Dio2TxLoss \in Nat \ {0}
  /\ Dio2RxLoss \in Nat \ {0}

(* A transmission as the bus stores it.  `serial` numbers the accepted     *)
(* sends: it is the place of the event in the order of Vec::push, and it   *)
(* stands for the payload bytes, which no decision looks at.               *)
TxEvent == [serial   : Nat,
            node     : Nodes,
            channel  : Channels,
            power    : Nat,
            position : Positions,
            start    : Nat,
            airtime  : Airtimes]

(* A packet in a receive queue. *)
RxPacket == [serial : Nat, from : Nodes, rssi : Nat, end : Nat]

TransmissionEnd(e) == e.start + e.airtime

(* Closed on the left, open on the right: back-to-back packets are clean,  *)
(* and a packet without airtime overlaps nothing.                          *)
TransmissionsOverlap(e, f) ==
  /\ e.airtime # 0
  /\ f.airtime # 0
  /\ e.start < TransmissionEnd(f)
  /\ f.start < TransmissionEnd(e)

(* How deliver_completed tells an event from its interferers: by sender,   *)
(* start and channel, not by identity.                                     *)
SameTransmission(e, f) ==
  /\ e.node = f.node
  /\ e.start = f.start
  /\ e.channel = f.channel

FrequencyOverlaps(c, d) == <<c, d>> \in SameBand

(* The power an antenna radiates: the RF switch loses 16 dB unless DIO2    *)
(* drives it, so a driven switch is Dio2TxLoss times stronger.             *)
RadiatedPower(txPower, dio2) ==
  IF dio2 THEN txPower * Dio2TxLoss ELSE txPower

(* The level of e at a position, before the receiver's own switch loss,    *)
(* which weakens signal and interference alike.                            *)
LevelAt(e, position) == e.power * Gain[e.position][position]

(* The weakest level a receiver with this RF switch setting decodes.       *)
DecodeThreshold(channel, dio2) ==
  Sensitivity[channel] * (IF dio2 THEN 1 ELSE Dio2RxLoss)

(* The summed power of a finite set of interferers at a position. *)
InterferenceAt(events, position) ==
  MapThenSumSet(LAMBDA e : LevelAt(e, position), events)

-----------------------------------------------------------------------------
(* deliver_completed for a completed event e and one receiver: n is its    *)
(* identifier, r its node state, `events` the snapshot of the list of      *)
(* transmissions taken when the tick began.                                *)

(* SX1262 is half-duplex: n hears nothing that overlaps its own sending.   *)
HalfDuplexBlockedAtStart(e, n, events) ==  \* mutant: own later sends ignored
  \E f \in events :
    f.node = n /\ f.start <= e.start /\ e.start < TransmissionEnd(f)
HalfDuplexBlocked(e, n, events) ==
  \E f \in events : f.node = n /\ TransmissionsOverlap(e, f)

Interferers(e, r, events) ==
  {f \in events : /\ ~SameTransmission(e, f)
                  /\ TransmissionsOverlap(e, f)
                  /\ FrequencyOverlaps(f.channel, r.channel)}

(* The capture effect: e survives only if it is strictly stronger than     *)
(* CaptureRatio times the sum of what overlaps it.                         *)
CapturesTies(e, r, events) ==  \* mutant: no margin over the interference
  LevelAt(e, r.position)
    >= InterferenceAt(Interferers(e, r, events), r.position)
Captures(e, r, events) ==
  LET interference == InterferenceAt(Interferers(e, r, events), r.position)
  IN  \/ interference = 0
      \/ LevelAt(e, r.position) > CaptureRatio * interference

Receives(e, n, r, events) ==
  /\ n # e.node
  /\ r.rxEnabled
  /\ r.channel = e.channel
  /\ ~HalfDuplexBlocked(e, n, events)
  /\ LevelAt(e, r.position) >= DecodeThreshold(e.channel, r.dio2)
  /\ Captures(e, r, events)

(* What deliver_completed pushes. *)
PacketFor(e, r) ==
  [serial |-> e.serial,
   from   |-> e.node,
   rssi   |-> LevelAt(e, r.position) \div (IF r.dio2 THEN 1 ELSE Dio2RxLoss),
   end    |-> TransmissionEnd(e)]
=============================================================================
