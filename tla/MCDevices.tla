------------------------------ MODULE MCDevices ------------------------------
(***************************************************************************)
(* Instances of Board, Gps and Spiffs for TLC: the devices of one instance *)
(* whose calls are one critical section each.  A behaviour is about the    *)
(* rail, the battery, the memory, the watchdog, what is retained, the      *)
(* SPIFFS partition, or the receiver, whose boards only switch the rail.   *)
(***************************************************************************)
EXTENDS Gps, Spiffs, TLC

CONSTANTS a, b, rail, other, here, there, legacy, log, map, dots, MaxReceiverBoardCalls

VARIABLE focus

HandleSymmetry == Permutations(Handles)

BoardCurve == <<0, 3, 8, 10, 17, 20>>
AllowanceOf == [slow |-> 9, fast |-> 20]

At(place, time) == [at |-> place, time |-> time]
GpxTracks == {
  <<At(0, 0), At(2, 3), At(2, 3), At(-1, 5)>>,   \* one time twice
  <<At(1, None), At(-2, None)>>,
  <<At(1, 4), At(5, 9)>>,                        \* not on the earth
  << >>}
Places == -2 .. 2

HashOf == log :> 0 @@ map :> 2

Foci == {"rail", "battery", "memory", "watchdog", "retained", "partition", "output", "movement"}

HandlesNext ==
  \/ \E h \in Handles, mv \in {0, FullMv}, psram \in {0, MaxBytes} : Create(h, mv, psram)
  \/ \E h \in Handles : Destroy(h)

ReceiverRail ==
  /\ calls < MaxReceiverBoardCalls
  /\ \E h \in Handles :
       /\ Live \subseteq {h}
       /\ \/ Create(h, FullMv, 0) \/ Quiesce(h) \/ Destroy(h)
          \/ \E high \in BOOLEAN : DigitalWrite(h, Rail, high)

OutputNext ==
  \/ GpsCreate(0) \/ GpsDestroy
  \/ \E satellites \in Satellites : SetSatellites(satellites)
  \/ \E enabled \in BOOLEAN : SetEnabled(enabled) \/ ManagerSetEnabled(enabled)
  \/ \E baud \in Bauds : SetBaudRate(baud)
  \/ \E dt \in Deltas : Tick(dt)
  \/ \E size \in {1, 2 * SentenceBytes, 20 * SentenceBytes} : Read(size)

MovementNext ==
  \/ GpsCreate(1) \/ SetStatic
  \/ \E at \in {-1, 2} : SetPosition(at)
  \/ \E speed \in {-1, 1} : SetLinear(speed)
  \/ \E track \in Tracks, speed \in {1, 2} :
       SetWaypoints(track, speed) \/ SetGpxReplayXml(track, speed) \/ SetSamples(track, speed)
  \/ \E enabled \in BOOLEAN : SetEnabled(enabled)
  \/ \E dt \in Deltas : Tick(dt)

OnBoards(next) == next /\ UNCHANGED gpsVars /\ UNCHANGED spiffsVars
OnReceiver(next) == next /\ UNCHANGED spiffsVars

MCInit == focus \in Foci /\ BoardInit /\ GpsInit /\ SpiffsOff

MCNext ==
  /\ UNCHANGED focus
  /\ \/ focus \notin {"output", "movement", "partition"} /\ OnBoards(HandlesNext)
     \/ focus = "rail" /\ \E h \in Handles : OnBoards(PowerNext(h))
     \/ focus = "battery" /\ \E h \in Handles : OnBoards(BatteryNext(h))
     \/ focus = "memory" /\ \E h \in Handles : OnBoards(MemoryNext(h))
     \/ focus = "watchdog" /\ \E h \in Handles : OnBoards(WatchdogNext(h))
     \/ focus = "retained" /\ OnBoards(RetainedNext)
     \/ focus \in {"output", "movement"} /\ OnBoards(ReceiverRail)
     \/ focus = "output" /\ OnReceiver(OutputNext)
     \/ focus = "movement" /\ OnReceiver(MovementNext)
     \/ focus = "partition" /\ SpiffsNext /\ UNCHANGED <<boardVars, gpsVars>>

MCSpec == MCInit /\ [][MCNext]_<<boardVars, gpsVars, spiffsVars, focus>>
=============================================================================
