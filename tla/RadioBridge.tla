----------------------------- MODULE RadioBridge -----------------------------
(***************************************************************************)
(* The radio side of the C bridge (core/bridge/src/ffi.rs) on top of       *)
(* RadioBus: opaque radio handles with their own receive queue, the shared *)
(* clock of BusState, deep sleep, and the runtime loop of core/src/main.rs *)
(* that advances simulation time, runs the firmware loops and then ticks   *)
(* the bus.                                                                *)
(*                                                                         *)
(* Firmware and host threads may call a handle at any moment.  Each call   *)
(* holds the BUS mutex while it touches the bus, so it is one step here;   *)
(* deep sleep makes three calls of the bus under one lock and is three     *)
(* steps, during which `busLock` keeps every other call out.               *)
(*                                                                         *)
(* Left out, because nothing here reads them back: last_rx (the RSSI and   *)
(* SNR of the packet last returned), the reset reason and wake cause that  *)
(* deep sleep reports; of sleep_requests only the wake-up time is kept.   *)
(***************************************************************************)
EXTENDS RadioBus

CONSTANTS
  NoHandle,       \* an instance without a live radio handle
  FrameMs,        \* FRAME_INTERVAL_MS
  SleepTimes      \* sleep durations in ms, sleep_secs * 1000 in the code

ASSUME FrameAssumption ==
  /\ FrameMs \in Nat \ {0} /\ SleepTimes \subseteq Nat /\ MaxTime \in Nat
  /\ NoHandle \notin [pending : Seq(RxPacket)]

(* A handle exists only for settings that RadioChannel::new accepts, and   *)
(* with those airtime_ms is at least one.                                  *)
ASSUME SendAssumption == 0 \notin Airtimes

VARIABLES
  nodeIds,        \* BusState.node_ids
  handle,         \* handle[n].pending: RadioHandle of instance n, or none
  sleepRequests,  \* BusState.sleep_requests: when the last sleep ended
  busLock,        \* << >>, or <<n, step>> while n's deep sleep holds BUS
  simNow,         \* SimulationClock.now_ms
  gt911Now,       \* the time last given to the touch controllers
  phase,          \* where main.rs is in its frame: "idle" or "loops"
  taken           \* history: taken[n], packets recv_raw returned, in order

bridgeVars == <<nodeIds, handle, sleepRequests, busLock, simNow, gt911Now,
                phase, taken>>
allVars == <<vars, bridgeVars>>

(* Whatever the lock and the loop do not touch in a firmware call. *)
loopVars == <<sleepRequests, busLock, simNow, gt911Now, phase>>

Live == {n \in Nodes : handle[n] # NoHandle}
BusFree == busLock = << >>

BridgeInit ==
  /\ Init
  /\ nodeIds = {}
  /\ handle = [n \in Nodes |-> NoHandle]
  /\ sleepRequests = [n \in Nodes |-> 0]
  /\ busLock = << >>
  /\ simNow = 0
  /\ gt911Now = 0
  /\ phase = "idle"
  /\ taken = [n \in Nodes |-> << >>]

-----------------------------------------------------------------------------
(* Radio handles. *)

(* meshemu_radio_create: one live radio per instance. *)
RadioCreate(n, position, power, channel) ==
  /\ BusFree
  /\ n \notin nodeIds
  /\ RegisterNode(n, position, power, channel)
  /\ nodeIds' = nodeIds \cup {n}
  /\ handle' = [handle EXCEPT ![n] = [pending |-> << >>]]
  /\ taken' = [taken EXCEPT ![n] = << >>]
  /\ UNCHANGED loopVars

RadioDestroy(n) ==
  /\ BusFree
  /\ n \in Live
  /\ UnregisterNode(n)
  /\ nodeIds' = nodeIds \ {n}
  /\ handle' = [handle EXCEPT ![n] = NoHandle]
  /\ UNCHANGED <<taken, loopVars>>

(* meshemu_radio_start_send: the airtime follows from the payload length,  *)
(* the timestamp is the time of the bus.                                   *)
StartSend(n, airtime) ==
  /\ BusFree
  /\ n \in Live
  /\ Broadcast(n, airtime)
  /\ UNCHANGED bridgeVars

SetPosition(n, position) ==
  /\ BusFree
  /\ n \in Live
  /\ UpdatePosition(n, position)
  /\ UNCHANGED bridgeVars

SetDio2Config(n, on) ==
  /\ BusFree
  /\ n \in Live
  /\ SetDio2(n, on)
  /\ UNCHANGED bridgeVars

(* What meshemu_radio_recv_raw finds pending: it polls the bus only when   *)
(* the handle's own queue is empty.                                        *)
Polled(n) ==
  IF handle[n].pending = << >> THEN nodes[n].inbox ELSE handle[n].pending

PollCopies(n) == UNCHANGED vars  \* mutant: polling leaves the packets there
PollIfEmpty(n) ==
  IF handle[n].pending = << >> THEN Poll(n) ELSE UNCHANGED vars

(* recv_raw with a buffer that holds the front packet: it is popped. *)
RecvRaw(n) ==
  /\ BusFree
  /\ n \in Live
  /\ Polled(n) # << >>
  /\ PollIfEmpty(n)
  /\ handle' = [handle EXCEPT ![n].pending = Tail(Polled(n))]
  /\ taken' = [taken EXCEPT ![n] = Append(@, Head(Polled(n)))]
  /\ UNCHANGED <<nodeIds, loopVars>>

(* recv_raw with a buffer that is too small: the packet stays in front. *)
RecvTruncated(n) ==
  /\ BusFree
  /\ n \in Live
  /\ Polled(n) # << >>
  /\ PollIfEmpty(n)
  /\ handle' = [handle EXCEPT ![n].pending = Polled(n)]
  /\ UNCHANGED <<nodeIds, taken, loopVars>>

-----------------------------------------------------------------------------
(* meshemu_board_deep_sleep: three calls of the bus under one lock. *)

(* Notes the request and turns the instance's receiver off, if it has one. *)
SleepBegin(n, duration) ==
  /\ BusFree
  /\ nowMs + duration <= MaxTime
  /\ busLock' = <<n, "asleep">>
  /\ sleepRequests' = [sleepRequests EXCEPT ![n] = nowMs + duration]
  /\ IF n \in Registered THEN SetReceiveEnabled(n, FALSE) ELSE UNCHANGED vars
  /\ UNCHANGED <<nodeIds, handle, simNow, gt911Now, phase, taken>>

(* Moves the network, for every instance, to the moment of waking. *)
SleepTick(n) ==
  /\ busLock = <<n, "asleep">>
  /\ busLock' = <<n, "waking">>
  /\ Tick(sleepRequests[n])
  /\ UNCHANGED <<nodeIds, handle, sleepRequests, simNow, gt911Now, phase, taken>>

SleepEnd(n) ==
  /\ busLock = <<n, "waking">>
  /\ busLock' = << >>
  /\ IF n \in Registered THEN SetReceiveEnabled(n, TRUE) ELSE UNCHANGED vars
  /\ UNCHANGED <<nodeIds, handle, sleepRequests, simNow, gt911Now, phase, taken>>

-----------------------------------------------------------------------------
(* One frame of main.rs. *)

(* tick_all_with_delta advances the simulation clock and runs every        *)
(* firmware loop; what those call are the steps above.                     *)
RunLoops ==
  /\ phase = "idle"
  /\ simNow + FrameMs <= MaxTime
  /\ simNow' = simNow + FrameMs
  /\ phase' = "loops"
  /\ UNCHANGED <<vars, nodeIds, handle, sleepRequests, busLock, gt911Now, taken>>

(* meshemu_bus_tick: the touch controllers get the time it is called with, *)
(* the bus never goes back.                                                *)
BusTickDelta ==  \* mutant: called with the length of the frame
  /\ BusFree
  /\ phase = "loops"
  /\ gt911Now' = FrameMs
  /\ Tick(IF FrameMs > nowMs THEN FrameMs ELSE nowMs)
  /\ phase' = "idle"
  /\ UNCHANGED <<nodeIds, handle, sleepRequests, busLock, simNow, taken>>
BusTick ==
  /\ BusFree
  /\ phase = "loops"
  /\ gt911Now' = simNow
  /\ Tick(IF simNow > nowMs THEN simNow ELSE nowMs)
  /\ phase' = "idle"
  /\ UNCHANGED <<nodeIds, handle, sleepRequests, busLock, simNow, taken>>

-----------------------------------------------------------------------------
BridgeNext ==
  \/ \E n \in Nodes, p \in Positions, w \in TxPowers, c \in Channels :
       RadioCreate(n, p, w, c)
  \/ \E n \in Nodes : RadioDestroy(n)
  \/ \E n \in Nodes, a \in Airtimes : StartSend(n, a)
  \/ \E n \in Nodes, p \in Positions : SetPosition(n, p)
  \/ \E n \in Nodes, on \in BOOLEAN : SetDio2Config(n, on)
  \/ \E n \in Nodes : RecvRaw(n)
  \/ \E n \in Nodes : RecvTruncated(n)
  \/ \E n \in Nodes, d \in SleepTimes : SleepBegin(n, d)
  \/ \E n \in Nodes : SleepTick(n)
  \/ \E n \in Nodes : SleepEnd(n)
  \/ RunLoops
  \/ BusTick

BridgeSpec == BridgeInit /\ [][BridgeNext]_allVars

(* main.rs keeps running frames, and a deep sleep is one call that         *)
(* returns.  Nothing is assumed of firmware.                               *)
Fairness ==
  /\ WF_allVars(RunLoops)
  /\ WF_allVars(BusTick)
  /\ \A n \in Nodes : WF_allVars(SleepTick(n)) /\ WF_allVars(SleepEnd(n))

FairSpec == BridgeSpec /\ Fairness

-----------------------------------------------------------------------------
(* Properties. *)

(* Types; a node is on the bus exactly while its handle lives and its id   *)
(* is taken, and its receiver is off only inside its own deep sleep.       *)
BridgeTypeOK ==
  /\ TypeOK
  /\ nodeIds = Registered
  /\ nodeIds = Live
  /\ handle \in [Nodes -> [pending : Seq(RxPacket)] \cup {NoHandle}]
  /\ taken \in [Nodes -> Seq(RxPacket)]
  /\ sleepRequests \in [Nodes -> Nat]
  /\ busLock \in {<< >>} \cup (Nodes \X {"asleep", "waking"})
  /\ \A n \in Registered : ~nodes[n].rxEnabled => ~BusFree /\ busLock[1] = n
  /\ phase \in {"idle", "loops"}
  /\ simNow \in Nat /\ gt911Now \in Nat

(* Everything a radio received since it was created, in the order firmware *)
(* gets it: returned, queued in the handle, queued in the bus.             *)
Stream(n) == taken[n] \o handle[n].pending \o nodes[n].inbox

(* Firmware gets every packet at most once and in the order the packets    *)
(* ended, through both queues, truncated reads and deep sleeps.            *)
StreamInOrder ==
  \A n \in Live : \A i, j \in 1..Len(Stream(n)) : i < j =>
    \/ Stream(n)[i].end < Stream(n)[j].end
    \/ \E e, f \in air : /\ e # f
                         /\ e.serial = Stream(n)[i].serial
                         /\ f.serial = Stream(n)[j].serial
                         /\ SameTransmission(e, f)

(* A deep sleep empties the radio's FIFO and nothing that ends before the  *)
(* wake-up gets into it ("the instance radio drops packets that finish     *)
(* during that interval", ffi.rs:1556).                                    *)
SleeperHearsNothing ==
  BusFree => \A n \in Registered : \A i \in 1..Len(nodes[n].inbox) :
    nodes[n].inbox[i].end > sleepRequests[n]

(* The same of all that firmware can still read: deep sleep is a reset of  *)
(* the radio, and its receive FIFO does not survive it (bus.rs:146).       *)
SleepClearsReceiveQueue ==
  BusFree => \A n \in Live :
    LET queue == handle[n].pending \o nodes[n].inbox
    IN  \A i \in 1..Len(queue) : queue[i].end > sleepRequests[n]

(* "The one monotonic clock": when main.rs has ticked, the bus and the     *)
(* touch controllers have the same time (instance.rs:82, main.rs:210).     *)
OneClock ==
  [][phase = "loops" /\ phase' = "idle" => nowMs' = gt911Now']_allVars

(* A radio that sends is idle again, and its packet is decided, as long as *)
(* frames run: neither deep sleeps nor re-created radios block a send.     *)
SendsComplete ==
  \A n \in Nodes :
    (n \in Live /\ ~IsSendComplete(n)) ~> (n \in Live => IsSendComplete(n))

EverySendIsDecided ==
  \A k \in 1..MaxSends :
    (\E e \in unfinished : e.serial = k) ~> (\A e \in unfinished : e.serial # k)

(* The bridge uses the bus as RadioBus allows, deep sleep included. *)
UsesBusAsSpecified == Spec
=============================================================================
