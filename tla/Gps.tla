--------------------------------- MODULE Gps ---------------------------------
(***************************************************************************)
(* The GPS receiver of one instance (core/gps/src/manager.rs, nmea.rs) on  *)
(* the peripheral rail of its boards (module Board): the movement models,  *)
(* the NMEA epoch of every second, and the UART that firmware reads it     *)
(* from in pieces.  An action is a meshemu_gps_* call, which holds the     *)
(* lock of the receivers; the calls of the boards come in between.         *)
(*                                                                         *)
(* The earth is a line: a position is an integer, a heading a sign, and    *)
(* distances and times are whole numbers (the code's are floating point).  *)
(* A byte of the output is known by its epoch and its place in it.         *)
(***************************************************************************)
EXTENDS Board

CONSTANTS
  Epoch,               \* EPOCH_MS
  SentenceBytes,
  Bauds, SlowBaud,     \* SUPPORTED_GPS_BAUD_RATES
  Allowance,           \* uart_bytes_per_second of a baud rate
  Satellites,          \* satellites in view that are tried
  Tracks,              \* GPX documents and waypoint lists: sequences of points
  Positions, Deltas,   \* tried as arguments
  MaxGpsCalls          \* bound

(* A point of a track; the points of a GPX document may have their time.   *)
Point == [at : Int, time : Nat \cup {None}]

ASSUME GpsAssumption ==
  /\ Positions \subseteq Int /\ Tracks \subseteq Seq(Point)
  /\ Epoch \in Nat \ {0} /\ SentenceBytes \in Nat \ {0}
  /\ SlowBaud \in Bauds /\ Allowance \in [Bauds -> Nat \ {0}]
  /\ Deltas \subseteq Nat /\ Satellites \subseteq Nat

VARIABLES
  gps,                 \* the handle's GpsManager, or None
  epochs,              \* history: epochs generated so far
  discarded,           \* history: epochs up to this one were thrown away
  uptime,              \* history: time the receiver ran since it was restarted
  got,                 \* history: the bytes that firmware read
  origin,              \* history: where the movement was set off, and the time since
  gpsCalls

gpsVars == <<gps, epochs, discarded, uptime, got, origin, gpsCalls>>

GpsCall == gps # None /\ gpsCalls < MaxGpsCalls /\ gpsCalls' = gpsCalls + 1 /\ UNCHANGED boardVars

-----------------------------------------------------------------------------
(* NMEA: an epoch has GGA, RMC, GSA and the GSV fragments of the view.     *)

Gsv(satellites) == (Max({satellites, 1}) + 3) \div 4
EpochBytes(satellites) == SentenceBytes * (3 + Gsv(satellites))
Byte(epoch, n) == [epoch |-> epoch, n |-> n]

-----------------------------------------------------------------------------
(* Movement models. *)

Static == [kind |-> "static", points |-> << >>, speed |-> 0, next |-> 1]
Movement(kind, points, speed) == [kind |-> kind, points |-> points, speed |-> speed, next |-> 1]

OnEarth(point) == point.at \in Positions

(* A document is taken as a whole or refused: every point is well formed   *)
(* and on the earth, and there is one.                                     *)
ParseGpx(track) == IF track # << >> /\ \A n \in DOMAIN track : OnEarth(track[n]) THEN track ELSE None

(* timestamp_interval_ms: points that are not timed are a second apart.    *)
Interval(from, to) ==
  IF from.time # None /\ to.time # None /\ to.time > from.time THEN to.time - from.time ELSE Epoch

Toward(at, target, distance) == IF at < target THEN at + distance ELSE at - distance

(* advance_waypoints: leg after leg while the distance lasts. *)
AdvanceWaypoints(at, m, distance) ==
  LET last == Len(m.points)
      \* s: the position, the point ahead, and the distance left
      walk[s \in Int \X (1 .. last) \X Nat] ==
        LET target == m.points[s[2]].at IN
        IF Distance(s[1], target) > s[3] THEN [at |-> Toward(s[1], target, s[3]), next |-> s[2]]
        ELSE IF s[2] < last THEN walk[<<target, s[2] + 1, s[3] - Distance(s[1], target)>>]
        ELSE [at |-> target, next |-> s[2]]
  IN  walk[<<at, m.next, distance>>]

(* advance_timestamped_replay: interval after interval. *)
AdvanceReplayOnce(m, progress) ==  \* mutant: one point a tick
  LET n == m.next IN
  IF n < Len(m.points) /\ progress >= Interval(m.points[n], m.points[n + 1])
  THEN [next |-> n + 1, progress |-> progress - Interval(m.points[n], m.points[n + 1])]
  ELSE [next |-> n, progress |-> progress]
AdvanceReplay(m, progress) ==
  LET last == Len(m.points)
      \* s: the point reached, and the time left
      step[s \in (1 .. last) \X Nat] ==
        IF s[1] < last /\ s[2] >= Interval(m.points[s[1]], m.points[s[1] + 1])
        THEN step[<<s[1] + 1, s[2] - Interval(m.points[s[1]], m.points[s[1] + 1])>>]
        ELSE [next |-> s[1], progress |-> s[2]]
  IN  step[<<m.next, progress>>]

(* The receiver g after its movement model has run for dt. *)
Moved(g, dt) ==
  LET m == g.movement IN
  CASE m.kind = "static" -> g
    [] m.kind = "linear" -> [g EXCEPT !.at = @ + m.speed * dt]
    [] m.kind = "waypoint" ->
         LET moved == AdvanceWaypoints(g.at, m, m.speed * dt) IN
         [g EXCEPT !.at = moved.at, !.movement.next = moved.next]
    [] m.kind = "samples" ->   \* GpxReplay, one point a second
         LET progress == g.progress + m.speed * dt
             steps == progress \div Epoch
             next == Min({m.next + steps, Len(m.points)})
         IN  [g EXCEPT !.progress = progress % Epoch, !.movement.next = next,
                       !.at = IF steps > 0 THEN m.points[next].at ELSE @]
    [] m.kind = "timed" ->     \* GpxReplayWithTimestamps
         LET moved == AdvanceReplay(m, g.progress + m.speed * dt) IN
         [g EXCEPT !.progress = moved.progress, !.movement.next = moved.next,
                   !.at = IF moved.next > m.next THEN m.points[moved.next].at ELSE @]

-----------------------------------------------------------------------------
(* Output. *)

NewGps(at) ==
  [at |-> at, movement |-> Static, progress |-> 0, satellites |-> 8,
   enabled |-> TRUE, output |-> TRUE, baud |-> SlowBaud,
   buffer |-> << >>, elapsed |-> 0, allowance |-> 0]

ResetOutputKeepsBuffer(g) == [g EXCEPT !.elapsed = 0]  \* mutant: what is buffered stays
ResetOutput(g) == [g EXCEPT !.buffer = << >>, !.elapsed = 0, !.allowance = 0]

(* sync_enabled_state: the bridge writes `enabled' behind the manager.     *)
Synced(g) == IF g.output = g.enabled THEN g ELSE ResetOutput([g EXCEPT !.output = g.enabled])

EnqueueLatestEpoch(g, epoch) ==
  LET bytes == EpochBytes(g.satellites) IN
  [g EXCEPT !.buffer = [n \in 1 .. bytes |-> Byte(epoch, n)],
            !.allowance = Min({bytes, Allowance[g.baud]})]

(* The restart of a receiver, for the history. *)
Restarts(new) == new.output # gps.output \/ new.baud # gps.baud
Record(new) ==
  /\ gps' = new
  /\ discarded' = IF Restarts(new) THEN epochs ELSE discarded
  /\ uptime' = IF Restarts(new) THEN 0 ELSE uptime

-----------------------------------------------------------------------------
(* Calls. *)

GpsInit ==
  /\ gps = None
  /\ epochs = 0 /\ discarded = 0 /\ uptime = 0
  /\ got = << >>
  /\ origin = [at |-> 0, next |-> 1, progress |-> 0, time |-> 0]
  /\ gpsCalls = 0

SetOff(g) == origin' = [at |-> g.at, next |-> g.movement.next, progress |-> g.progress, time |-> 0]

GpsCreate(at) ==
  /\ gps = None /\ gpsCalls < MaxGpsCalls
  /\ gpsCalls' = gpsCalls + 1
  /\ gps' = NewGps(at) /\ SetOff(NewGps(at))
  /\ discarded' = epochs /\ uptime' = 0
  /\ UNCHANGED <<boardVars, epochs, got>>

GpsDestroy == GpsCall /\ gps' = None /\ UNCHANGED <<epochs, discarded, uptime, got, origin>>

(* set_position moves the receiver, not its movement model. *)
SetPosition(at) ==
  /\ GpsCall
  /\ gps' = [gps EXCEPT !.at = at] /\ SetOff([gps EXCEPT !.at = at])
  /\ UNCHANGED <<epochs, discarded, uptime, got>>

(* set_movement: a replay starts at its first point.                       *)
SetMovement(movement) ==
  LET at == IF movement.kind \in {"samples", "timed"} THEN movement.points[1].at ELSE gps.at
      new == [gps EXCEPT !.movement = movement, !.progress = 0, !.at = at]
  IN  /\ gps' = new /\ SetOff(new)
      /\ UNCHANGED <<epochs, discarded, uptime, got>>

SetStatic == GpsCall /\ SetMovement(Static)
SetLinear(speed) == GpsCall /\ SetMovement(Movement("linear", << >>, speed))
SetWaypoints(points, speed) ==
  /\ GpsCall /\ points # << >> /\ speed >= 0
  /\ \A n \in DOMAIN points : OnEarth(points[n])
  /\ SetMovement(Movement("waypoint", points, speed))
SetGpxReplayXml(document, multiplier) ==
  /\ GpsCall /\ ParseGpx(document) # None /\ multiplier > 0
  /\ SetMovement(Movement("timed", ParseGpx(document), multiplier))

(* The manager's own interface has two things that the bridge has not:     *)
(* untimed samples, and the number of satellites.                          *)
SetSamples(points, rate) == GpsCall /\ points # << >> /\ SetMovement(Movement("samples", points, rate))
SetSatellites(satellites) ==
  GpsCall /\ gps' = [gps EXCEPT !.satellites = satellites] /\ UNCHANGED <<epochs, discarded, uptime, got, origin>>

(* meshemu_gps_set_enabled, which the receiver notices when it is ticked   *)
(* or read next; and GpsManager::set_enabled, which it notices at once.    *)
SetEnabled(enabled) ==
  /\ GpsCall
  /\ gps' = [gps EXCEPT !.enabled = enabled]
  /\ UNCHANGED <<epochs, discarded, uptime, got, origin>>

ManagerSetEnabled(enabled) ==
  /\ GpsCall /\ gps.enabled # enabled
  /\ gps' = ResetOutput([gps EXCEPT !.enabled = enabled, !.output = enabled])
  /\ discarded' = epochs /\ uptime' = 0
  /\ UNCHANGED <<epochs, got, origin>>

AtBaud(g, baud) ==
  IF baud \in Bauds \ {g.baud} THEN ResetOutput([g EXCEPT !.baud = baud]) ELSE g

SetBaudRate(baud) ==
  /\ GpsCall /\ baud # gps.baud
  /\ Record(AtBaud(gps, baud))
  /\ UNCHANGED <<epochs, got, origin>>

(* tick: the movement takes the whole step, the output the latest epoch.   *)
Tick(dt) ==
  /\ GpsCall /\ power
  /\ origin' = [origin EXCEPT !.time = @ + dt]
  /\ LET g == Synced(Moved(gps, dt))
         elapsed == g.elapsed + dt
         aged == [g EXCEPT !.elapsed = elapsed % Epoch]
         due == g.output /\ elapsed >= Epoch
     IN  /\ gps' = IF ~g.output THEN g
                   ELSE IF due THEN EnqueueLatestEpoch(aged, epochs + 1) ELSE aged
         /\ epochs' = IF due THEN epochs + 1 ELSE epochs
         /\ discarded' = IF Restarts(g) THEN epochs ELSE discarded
         /\ uptime' = IF ~g.output THEN 0 ELSE IF Restarts(g) THEN dt ELSE uptime + dt
  /\ UNCHANGED got

(* read, into a buffer of the given size. *)
Readable(g, size) == IF g.output THEN Min({Len(g.buffer), size, g.allowance}) ELSE 0
Drained(g, len) == [g EXCEPT !.buffer = SubSeq(@, len + 1, Len(@)), !.allowance = @ - len]

Read(size) ==
  /\ GpsCall /\ power
  /\ LET g == Synced(gps)
         len == Readable(g, size)
     IN  /\ Record(Drained(g, len))
         /\ got' = got \o SubSeq(g.buffer, 1, len)
  /\ UNCHANGED <<epochs, origin>>

GpsNext ==
  \/ \E at \in Positions : GpsCreate(at) \/ SetPosition(at)
  \/ GpsDestroy \/ SetStatic
  \/ \E speed \in {-1, 1} : SetLinear(speed)
  \/ \E track \in Tracks, speed \in {1, 2} :
       SetWaypoints(track, speed) \/ SetGpxReplayXml(track, speed) \/ SetSamples(track, speed)
  \/ \E satellites \in Satellites : SetSatellites(satellites)
  \/ \E enabled \in BOOLEAN : SetEnabled(enabled) \/ ManagerSetEnabled(enabled)
  \/ \E baud \in Bauds : SetBaudRate(baud)
  \/ \E dt \in Deltas : Tick(dt)
  \/ \E size \in {1, 2 * SentenceBytes, 20 * SentenceBytes} : Read(size)

GpsSpec ==
  /\ BoardInit /\ GpsInit
  /\ [][GpsNext \/ (BoardNext /\ UNCHANGED gpsVars)]_<<boardVars, gpsVars>>

-----------------------------------------------------------------------------
(* Properties. *)

(* Part of the next: after a change of the baud rate, and once a           *)
(* switched-off receiver was ticked or read, nothing of an earlier epoch   *)
(* comes out, and the seconds are counted from there.                      *)
RestartIsFresh ==
  /\ gps # None => /\ \A k \in DOMAIN gps.buffer : gps.buffer[k].epoch > discarded
                   /\ gps.output => gps.elapsed = uptime % Epoch
  /\ gps # None /\ uptime < Epoch => gps.buffer = << >>

(* "fresh one-second epoch, matching a receiver restart at a sentence      *)
(* boundary" (manager.rs:237): however firmware reads, what it has of an   *)
(* epoch is its beginning, without a gap and without a byte twice, the     *)
(* epochs follow each other, the last one is all there is to read, and its *)
(* bytes stay within what the UART carries in a second.                    *)
EpochsArePrefixes ==
  /\ \A k \in DOMAIN got : got[k].n > 1 => k > 1 /\ got[k - 1] = Byte(got[k].epoch, got[k].n - 1)
  /\ \A j, k \in DOMAIN got : j < k => got[j].epoch <= got[k].epoch /\ got[j] # got[k]
  /\ gps # None =>
       /\ \A k \in DOMAIN gps.buffer : gps.buffer[k].epoch = epochs
       /\ epochs > discarded =>
            Cardinality({k \in DOMAIN got : got[k].epoch = epochs}) + gps.allowance <= Allowance[gps.baud]
  /\ RestartIsFresh

(* Where a track has led by now, said without the ticks: by the ways to    *)
(* its points, and the times they take.                                    *)
Sums(steps, last) ==
  LET sum[n \in 1 .. last] == IF n = 1 THEN 0 ELSE sum[n - 1] + steps[n]
  IN  sum
Lengths(points) ==
  Sums([n \in 2 .. Len(points) |-> Distance(points[n - 1].at, points[n].at)], Len(points))
Times(points) ==
  Sums([n \in 2 .. Len(points) |-> Interval(points[n - 1], points[n])], Len(points))

Way(from, points, first, n) ==
  Distance(from, points[first].at) + (Lengths(points)[n] - Lengths(points)[first])
Arrival(points, first, n) == Times(points)[n] - Times(points)[first]

OnTheWay(from, m, first, distance) ==
  LET last == Len(m.points)
      ahead == {n \in first .. last : Way(from, m.points, first, n) > distance}
  IN  IF ahead = {} THEN m.points[last].at
      ELSE LET n == Min(ahead)
               start == IF n = first THEN from ELSE m.points[n - 1].at
               gone == IF n = first THEN distance ELSE distance - Way(from, m.points, first, n - 1)
           IN  Toward(start, m.points[n].at, gone)

ReplayedTo(from, m, first, time) ==
  LET n == Max({k \in first .. Len(m.points) : Arrival(m.points, first, k) <= time})
  IN  IF n = first THEN from ELSE m.points[n].at

SampledAt(from, m, first, time) ==
  IF time < Epoch THEN from
  ELSE m.points[Min({first + time \div Epoch, Len(m.points)})].at

(* "Movement is advanced by the complete delta" (manager.rs:334): where    *)
(* the receiver is depends on the time it was ticked with power and on     *)
(* nothing else: not on how the time was cut into ticks, on the output     *)
(* being off, on reads or on restarts.                                     *)
MovementFollowsTime ==
  gps # None =>
    LET m == gps.movement
        time == origin.time * m.speed
    IN  gps.at = CASE m.kind = "static" -> origin.at
                   [] m.kind = "linear" -> origin.at + time
                   [] m.kind = "waypoint" -> OnTheWay(origin.at, m, origin.next, time)
                   [] m.kind = "samples" -> SampledAt(origin.at, m, origin.next, origin.progress + time)
                   [] m.kind = "timed" -> ReplayedTo(origin.at, m, origin.next, origin.progress + time)
=============================================================================
