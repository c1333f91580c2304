---------------------------- MODULE DevicesProofs ----------------------------
(***************************************************************************)
(* Proofs about Board, Gps and Buzzer for every number of handles and      *)
(* threads, every battery curve, every table of baud rates and every       *)
(* length of a behaviour.                                                  *)
(* Boards: a rail latched dark is held dark, and a watchdog that runs was  *)
(* fed in time.  Receiver: what is buffered is the rest of the latest      *)
(* epoch, and goes on where the bytes that were read end; so a read        *)
(* divides the buffer and keeps both halves in order; a leg or an interval *)
(* of a track at a time, the ticks add up to the place of their sum.       *)
(* Buzzer: what the worker has still to do ends with what the last call    *)
(* asked for.                                                              *)
(***************************************************************************)
EXTENDS Gps, Buzzer, FiniteSetTheorems, SequenceTheorems, WellFoundedInduction, TLAPS

-----------------------------------------------------------------------------
(* The invariant of the boards. *)

BoardTypeOK ==
  /\ boards \in [Handles -> VirtualBoard \cup {None}]
  /\ power \in BOOLEAN /\ latched \in BOOLEAN /\ now \in Nat
  /\ holds \in [Pins -> BOOLEAN \cup {None}]

(* A watchdog that was fed was fed in time, and one that was found         *)
(* expired has left its reason.                                            *)
Watched(w) ==
  w # None =>
    /\ w.fed <= now /\ (w.gap > 0 => w.gap < w.timeout)
    /\ w.timedOut /\ w.panic => reason # "unknown"

BoardInv ==
  /\ BoardTypeOK
  /\ latched => holds[Rail] = FALSE
  /\ \A h \in Live : Watched(boards[h].watchdog)

-----------------------------------------------------------------------------
(* The invariant of the receiver. *)

(* What the fields of a receiver are that matter here; the position, the   *)
(* movement's place and its progress may be anything.                      *)
OutByte == [epoch : Nat, n : Nat \ {0}]
MovementKinds == {"static", "linear", "waypoint", "samples", "timed"}
MovementOK(m) ==
  m \in [kind : MovementKinds, points : {m.points}, speed : {m.speed}, next : {m.next}]
ReceiverOK(g) ==
  /\ g \in [at : {g.at}, movement : {g.movement}, progress : {g.progress},
            satellites : Nat, enabled : BOOLEAN, output : BOOLEAN, baud : Bauds,
            buffer : Seq(OutByte), elapsed : Nat, allowance : Nat]
  /\ MovementOK(g.movement)

(* Bytes in the order of their epochs and places.                          *)
InOrder(s) ==
  \A j, k \in DOMAIN s :
    j < k => s[j].epoch < s[k].epoch \/ (s[j].epoch = s[k].epoch /\ s[j].n < s[k].n)
Gapless(s) ==
  \A k \in DOMAIN s : s[k].n > 1 => k > 1 /\ s[k - 1] = Byte(s[k].epoch, s[k].n - 1)
UpTo(s, e) == \A k \in DOMAIN s : s[k].epoch <= e

(* What is left of the epoch e goes on where s ends.                       *)
Run(rest, e) == \A k \in DOMAIN rest : rest[k] = Byte(e, rest[1].n + k - 1)
Continues(s, rest, e) ==
  /\ rest # << >> /\ rest[1].n = 1 => \A k \in DOMAIN s : s[k].epoch < e
  /\ rest # << >> /\ rest[1].n > 1 => s # << >> /\ s[Len(s)] = Byte(e, rest[1].n - 1)
Ordered(s, rest, e) ==
  InOrder(s) /\ Gapless(s) /\ UpTo(s, e) /\ Run(rest, e) /\ Continues(s, rest, e)
OfEpoch(s, e) == {k \in DOMAIN s : s[k].epoch = e}

OutputInv(g) ==
  /\ ReceiverOK(g)
  /\ Run(g.buffer, epochs) /\ Continues(got, g.buffer, epochs)
  /\ ~g.output => g.buffer = << >>
  /\ g.buffer # << >> => epochs > discarded
  /\ epochs > discarded =>
       Cardinality(OfEpoch(got, epochs)) + g.allowance <= Allowance[g.baud]
  /\ g.output => g.elapsed = uptime % Epoch
  /\ uptime < Epoch => g.buffer = << >>

GpsInv ==
  /\ epochs \in Nat /\ discarded \in 0 .. epochs /\ uptime \in Nat
  /\ got \in Seq(OutByte) /\ InOrder(got) /\ Gapless(got) /\ UpTo(got, epochs)
  /\ gps # None => OutputInv(gps)

-----------------------------------------------------------------------------
(* The smaller of two numbers. *)
LEMMA MinOfTwo ==
  ASSUME NEW x \in Int, NEW y \in Int
  PROVE  Min({x, y}) = IF x <= y THEN x ELSE y
BY DEF Min

(* The larger of two numbers. *)
LEMMA MaxOfTwo ==
  ASSUME NEW x \in Int, NEW y \in Int
  PROVE  Max({x, y}) = IF x >= y THEN x ELSE y
BY DEF Max

(* A call that gives its handle another board of the same or a good        *)
(* watchdog.                                                               *)
LEMMA OnBoardKeeps ==
  ASSUME BoardInv, NEW h \in Handles, NEW board, OnBoard(h, board),
         board \in VirtualBoard \cup {None},
         board # None => Watched(board.watchdog)
  PROVE  BoardInv'
BY DEF BoardInv, BoardTypeOK, OnBoard, Live, Watched, keptVars, Call

(* What the invariant says of one live board. *)
LEMMA BoardOf ==
  ASSUME BoardInv, NEW h \in Live
  PROVE  h \in Handles /\ boards[h] \in VirtualBoard /\ Watched(boards[h].watchdog)
BY DEF BoardInv, BoardTypeOK, Live

(* At first there are no boards and no hold. *)
LEMMA BoardInitInv == BoardInit => BoardInv
<1> SUFFICES ASSUME BoardInit
             PROVE  BoardInv
  OBVIOUS
<1>1. BoardTypeOK
  BY DEF BoardInit, BoardTypeOK, Pins
<1>2. Live = {} /\ ~latched
  BY DEF BoardInit, Live
<1> QED
  BY <1>1, <1>2 DEF BoardInv

(* A board that is created takes the held level over. *)
LEMMA CreateKeeps ==
  ASSUME BoardInv, NEW h \in Handles, NEW mv \in {0, FullMv}, NEW psram \in {0, MaxBytes},
         Create(h, mv, psram)
  PROVE  BoardInv'
<1>1. NewBoard(mv, psram) \in VirtualBoard
  BY BoardAssumption DEF NewBoard, VirtualBoard, BoardInv, BoardTypeOK, Pins
<1>2. NewBoard(mv, psram).watchdog = None
  BY DEF NewBoard
<1>3. NewBoard(mv, psram).rail \in BOOLEAN
  BY DEF NewBoard
<1> QED
  BY <1>1, <1>2, <1>3 DEF BoardInv, BoardTypeOK, Create, Live, Watched, Call

(* The rail, the holds and what hangs on the rail.                         *)
LEMMA PowerKeeps ==
  ASSUME BoardInv, NEW h \in Handles, PowerNext(h)
  PROVE  BoardInv'
<1>1. CASE Quiesce(h)
  <2>1. h \in Live /\ boards[h] \in VirtualBoard /\ Watched(boards[h].watchdog)
    BY <1>1, BoardOf DEF Quiesce
  <2>2. /\ Quiesced(boards[h]) \in VirtualBoard
        /\ Quiesced(boards[h]).watchdog = boards[h].watchdog
    BY <2>1 DEF Quiesced, VirtualBoard, Pins
  <2> QED
    BY <1>1, <2>1, <2>2 DEF BoardInv, BoardTypeOK, Quiesce, Live, Watched, keptVars, Call, Pins
<1>2. ASSUME NEW pin \in Pins, NEW level \in BOOLEAN, DigitalWrite(h, pin, level)
      PROVE  BoardInv'
  <2>1. h \in Live /\ boards[h] \in VirtualBoard /\ Watched(boards[h].watchdog)
    BY <1>2, BoardOf DEF DigitalWrite
  <2>2. /\ [boards[h] EXCEPT !.rail = level] \in VirtualBoard
        /\ [boards[h] EXCEPT !.rail = level].watchdog = boards[h].watchdog
    BY <2>1 DEF VirtualBoard
  <2> QED
    BY <1>2, <2>1, <2>2 DEF BoardInv, BoardTypeOK, DigitalWrite, Live, Watched, keptVars, Call
<1>3. ASSUME NEW pin \in Pins, NEW level \in BOOLEAN, RtcGpioHold(h, pin, level)
      PROVE  BoardInv'
  <2>1. h \in Live /\ boards[h] \in VirtualBoard /\ Watched(boards[h].watchdog)
    BY <1>3, BoardOf DEF RtcGpioHold
  <2>2. /\ [boards[h] EXCEPT !.holds[pin] = level] \in VirtualBoard
        /\ [boards[h] EXCEPT !.holds[pin] = level].watchdog = boards[h].watchdog
    BY <2>1, <1>3 DEF VirtualBoard
  <2> QED
    BY <1>3, <2>1, <2>2 DEF BoardInv, BoardTypeOK, RtcGpioHold, Live, Watched, keptVars, Call, Pins
<1>4. ASSUME NEW pin \in Pins, LedcAttach(h, pin)
      PROVE  BoardInv'
  <2>1. h \in Live /\ boards[h] \in VirtualBoard /\ Watched(boards[h].watchdog)
    BY <1>4, BoardOf DEF LedcAttach
  <2> DEFINE board == [boards[h] EXCEPT !.channel = [pin |-> pin, tone |-> FALSE]]
  <2>2. board \in VirtualBoard /\ board.watchdog = boards[h].watchdog
    BY <2>1, <1>4 DEF VirtualBoard
  <2>3. OnBoard(h, board)
    BY <1>4 DEF LedcAttach
  <2> QED
    BY <2>1, <2>2, <2>3, OnBoardKeeps
<1>5. ASSUME NEW tone \in BOOLEAN, LedcWrite(h, tone)
      PROVE  BoardInv'
  <2>1. h \in Live /\ boards[h] \in VirtualBoard /\ Watched(boards[h].watchdog)
    BY <1>5, BoardOf DEF LedcWrite
  <2>2. /\ [boards[h] EXCEPT !.channel.tone = tone] \in VirtualBoard
        /\ [boards[h] EXCEPT !.channel.tone = tone].watchdog = boards[h].watchdog
    BY <2>1, <1>5 DEF VirtualBoard, LedcWrite
  <2> QED
    BY <1>5, <2>1, <2>2 DEF BoardInv, BoardTypeOK, LedcWrite, Live, Watched, keptVars, Call
<1> QED
  BY <1>1, <1>2, <1>3, <1>4, <1>5 DEF PowerNext

(* The battery, the charger and the ADC. *)
LEMMA BatteryKeeps ==
  ASSUME BoardInv, NEW h \in Handles, BatteryNext(h)
  PROVE  BoardInv'
<1>1. h \in Live /\ boards[h] \in VirtualBoard /\ Watched(boards[h].watchdog)
  BY BoardOf DEF BatteryNext, SetBattery, SimulateCharge, SimulateDischarge,
                 SetAdcCalibration, SetExternalPower
<1>2. ASSUME NEW mv \in 0 .. MaxMv, SetBattery(h, mv)
      PROVE  BoardInv'
  <2> DEFINE board == [boards[h] EXCEPT !.battery = mv]
  <2>3. mv \in Nat
    OBVIOUS
  <2>1. board \in VirtualBoard /\ board.watchdog = boards[h].watchdog
    BY <1>1, <2>3 DEF VirtualBoard
  <2>2. OnBoard(h, board)
    BY <1>2 DEF SetBattery
  <2> QED
    BY <1>1, <2>1, <2>2, OnBoardKeeps
<1>3. ASSUME NEW mv \in 0 .. MaxMv, SimulateCharge(h, mv)
      PROVE  BoardInv'
  <2> DEFINE board == [boards[h] EXCEPT !.battery = Min({@ + mv, FullMv})]
  <2>1. boards[h].battery \in Nat /\ mv \in Nat /\ FullMv \in Nat
    BY <1>1, <1>3, BoardAssumption DEF VirtualBoard
  <2>2. Min({boards[h].battery + mv, FullMv}) \in Nat
    BY <2>1, MinOfTwo
  <2>3. board \in VirtualBoard /\ board.watchdog = boards[h].watchdog
    BY <1>1, <2>2 DEF VirtualBoard
  <2>4. OnBoard(h, board)
    BY <1>3 DEF SimulateCharge
  <2> QED
    BY <1>1, <2>3, <2>4, OnBoardKeeps
<1>4. ASSUME NEW mv \in 0 .. MaxMv, SimulateDischarge(h, mv)
      PROVE  BoardInv'
  <2> DEFINE board == [boards[h] EXCEPT !.battery = Max({@ - mv, 0})]
  <2>1. boards[h].battery \in Nat /\ mv \in Nat
    BY <1>1, <1>4, BoardAssumption DEF VirtualBoard
  <2>2. Max({boards[h].battery - mv, 0}) \in Nat
    BY <2>1, MaxOfTwo
  <2>3. board \in VirtualBoard /\ board.watchdog = boards[h].watchdog
    BY <1>1, <2>2 DEF VirtualBoard
  <2>4. OnBoard(h, board)
    BY <1>4 DEF SimulateDischarge
  <2> QED
    BY <1>1, <2>3, <2>4, OnBoardKeeps
<1>5. ASSUME NEW on \in BOOLEAN, SetAdcCalibration(h, on)
      PROVE  BoardInv'
  <2> DEFINE board == [boards[h] EXCEPT !.calibrated = on]
  <2>1. board \in VirtualBoard /\ board.watchdog = boards[h].watchdog
    BY <1>1, <1>5 DEF VirtualBoard
  <2>2. OnBoard(h, board)
    BY <1>5 DEF SetAdcCalibration
  <2> QED
    BY <1>1, <2>1, <2>2, OnBoardKeeps
<1>6. ASSUME NEW on \in BOOLEAN, SetExternalPower(h, on)
      PROVE  BoardInv'
  <2> DEFINE board == [boards[h] EXCEPT !.external = on]
  <2>1. board \in VirtualBoard /\ board.watchdog = boards[h].watchdog
    BY <1>1, <1>6 DEF VirtualBoard
  <2>2. OnBoard(h, board)
    BY <1>6 DEF SetExternalPower
  <2> QED
    BY <1>1, <2>1, <2>2, OnBoardKeeps
<1> QED
  BY <1>2, <1>3, <1>4, <1>5, <1>6 DEF BatteryNext

(* What is reserved and given back stays within the width of the sizes.    *)
LEMMA PsramTypes ==
  ASSUME NEW board \in VirtualBoard, NEW bytes \in Nat
  PROVE  /\ Free(board) \in Nat
         /\ Reserved(board, bytes) \in VirtualBoard
         /\ Reserved(board, bytes).watchdog = board.watchdog
         /\ Released(board, bytes) \in VirtualBoard
         /\ Released(board, bytes).watchdog = board.watchdog
<1>1. board.used \in Nat /\ board.size \in Nat /\ MaxBytes \in Nat
  BY BoardAssumption DEF VirtualBoard
<1>2. Used(board) \in Nat
  BY <1>1, MinOfTwo DEF Used
<1>3. Free(board) \in Nat
  BY <1>1, <1>2, MaxOfTwo DEF Free
<1>4. Min({board.used + bytes, MaxBytes}) \in Nat
  BY <1>1, MinOfTwo
<1>5. Max({board.used - bytes, 0}) \in Nat
  BY <1>1, MaxOfTwo
<1>6. /\ Reserved(board, bytes) \in VirtualBoard
      /\ Reserved(board, bytes).watchdog = board.watchdog
  BY <1>4 DEF Reserved, VirtualBoard
<1>7. /\ Released(board, bytes) \in VirtualBoard
      /\ Released(board, bytes).watchdog = board.watchdog
  BY <1>5 DEF Released, VirtualBoard
<1> QED
  BY <1>3, <1>6, <1>7

(* The sizes and reservations of the PSRAM. *)
LEMMA MemoryKeeps ==
  ASSUME BoardInv, NEW h \in Handles, MemoryNext(h)
  PROVE  BoardInv'
<1>1. h \in Live /\ boards[h] \in VirtualBoard /\ Watched(boards[h].watchdog)
  BY BoardOf DEF MemoryNext, SetPsramSize, ReservePsram, ReleasePsram, PsramReadbackTest
<1>2. ASSUME NEW bytes \in 0 .. MaxBytes, SetPsramSize(h, bytes)
      PROVE  BoardInv'
  <2> DEFINE board == [boards[h] EXCEPT !.size = bytes]
  <2>3. bytes \in Nat
    OBVIOUS
  <2>1. board \in VirtualBoard /\ board.watchdog = boards[h].watchdog
    BY <1>1, <2>3 DEF VirtualBoard
  <2>2. OnBoard(h, board)
    BY <1>2 DEF SetPsramSize
  <2> QED
    BY <1>1, <2>1, <2>2, OnBoardKeeps
<1>3. ASSUME NEW bytes \in 0 .. MaxBytes, ReservePsram(h, bytes) \/ ReleasePsram(h, bytes)
      PROVE  BoardInv'
  <2>1. bytes \in Nat
    BY <1>3, BoardAssumption
  <2>2. OnBoard(h, Reserved(boards[h], bytes)) \/ OnBoard(h, Released(boards[h], bytes))
    BY <1>3 DEF ReservePsram, ReleasePsram
  <2> QED
    BY <1>1, <2>1, <2>2, PsramTypes, OnBoardKeeps
<1>4. CASE PsramReadbackTest(h)
  <2> DEFINE bytes == Min({Free(boards[h]), ReadbackBytes})
  <2>1. Free(boards[h]) \in Nat
    BY <1>1, PsramTypes
  <2>2. bytes \in Nat
    BY <2>1, MinOfTwo, BoardAssumption
  <2>3. OnBoard(h, Released(Reserved(boards[h], bytes), bytes))
    BY <1>4 DEF PsramReadbackTest
  <2> HIDE DEF bytes
  <2>4. /\ Reserved(boards[h], bytes) \in VirtualBoard
        /\ Reserved(boards[h], bytes).watchdog = boards[h].watchdog
    BY <1>1, <2>2, PsramTypes
  <2>5. /\ Released(Reserved(boards[h], bytes), bytes) \in VirtualBoard
        /\ Released(Reserved(boards[h], bytes), bytes).watchdog = boards[h].watchdog
    BY <2>2, <2>4, PsramTypes
  <2> QED
    BY <1>1, <2>3, <2>5, OnBoardKeeps
<1> QED
  BY <1>2, <1>3, <1>4 DEF MemoryNext

(* The watchdog: armed, looked at, fed or left alone while time passes. *)
LEMMA WatchdogKeeps ==
  ASSUME BoardInv, NEW h \in Handles, WatchdogNext(h)
  PROVE  BoardInv'
<1>1. ASSUME NEW panic \in BOOLEAN, NEW timeout \in 0 .. MaxTime, WdtInit(h, timeout, panic)
      PROVE  BoardInv'
  <2> DEFINE board == [boards[h] EXCEPT !.watchdog = Watchdog(timeout, panic)]
  <2>1. h \in Live /\ boards[h] \in VirtualBoard
    BY <1>1, BoardOf DEF WdtInit
  <2>2. now \in Nat /\ timeout \in Nat
    BY <1>1 DEF BoardInv, BoardTypeOK
  <2>3. Watchdog(timeout, panic) \in TaskWatchdog /\ Watched(Watchdog(timeout, panic))
    BY <1>1, <2>2 DEF Watchdog, TaskWatchdog, Watched
  <2>4. board \in VirtualBoard /\ board.watchdog = Watchdog(timeout, panic)
    BY <2>1, <2>3 DEF VirtualBoard
  <2>5. OnBoard(h, board)
    BY <1>1 DEF WdtInit
  <2> QED
    BY <2>3, <2>4, <2>5, OnBoardKeeps
<1>2. CASE WdtLook(h)
  <2> DEFINE w == boards[h].watchdog
  <2>1. h \in Live /\ boards[h] \in VirtualBoard /\ Watched(w) /\ w # None
    BY <1>2, BoardOf DEF WdtLook
  <2>2. w \in TaskWatchdog
    BY <2>1 DEF VirtualBoard
  <2>3. Expired(w) \in BOOLEAN
    BY <2>2 DEF Expired, TaskWatchdog
  <2>4. /\ Refreshed(w) \in TaskWatchdog
        /\ Refreshed(w).fed = w.fed /\ Refreshed(w).gap = w.gap
        /\ Refreshed(w).timeout = w.timeout /\ Refreshed(w).panic = w.panic
        /\ Refreshed(w).timedOut = Expired(w)
    BY <2>2, <2>3 DEF Refreshed, TaskWatchdog
  <2>5. boards' = [boards EXCEPT ![h].watchdog = Refreshed(w)] /\ reason' = ReasonAfter(w)
    BY <1>2 DEF WdtLook
  <2>6. /\ [boards[h] EXCEPT !.watchdog = Refreshed(w)] \in VirtualBoard
        /\ [boards[h] EXCEPT !.watchdog = Refreshed(w)].watchdog = Refreshed(w)
    BY <2>1, <2>4 DEF VirtualBoard
  <2>7. reason # "unknown" => reason' # "unknown"
    BY <2>5 DEF ReasonAfter
  <2>8. Expired(w) /\ w.panic => reason' # "unknown"
    BY <2>1, <2>2, <2>5 DEF ReasonAfter, Watched
  <2>9. UNCHANGED <<power, holds, now, latched>>
    BY <1>2 DEF WdtLook
  <2>10. boards'[h] = [boards[h] EXCEPT !.watchdog = Refreshed(w)]
    BY <2>1, <2>5 DEF BoardInv, BoardTypeOK, Live
  <2>11. \A g \in Handles \ {h} : boards'[g] = boards[g]
    BY <2>5 DEF BoardInv, BoardTypeOK
  <2>12. boards' \in [Handles -> VirtualBoard \cup {None}]
    BY <2>5, <2>6 DEF BoardInv, BoardTypeOK
  <2>13. BoardTypeOK'
    BY <2>9, <2>12 DEF BoardInv, BoardTypeOK
  <2>14. (latched => holds[Rail] = FALSE)'
    BY <2>9 DEF BoardInv
  <2>15. ASSUME NEW g \in Live'
         PROVE  Watched(boards[g].watchdog)'
    <3>1. CASE g = h
      BY <3>1, <2>1, <2>4, <2>6, <2>8, <2>9, <2>10 DEF Watched
    <3>2. CASE g # h
      <4>1. g \in Live /\ boards'[g] = boards[g]
        BY <3>2, <2>11, <2>15, <2>12 DEF Live
      <4> QED
        BY <4>1, <2>7, <2>9 DEF BoardInv, Watched
    <3> QED
      BY <3>1, <3>2
  <2> QED
    BY <2>13, <2>14, <2>15 DEF BoardInv
<1>3. CASE WdtFeed(h)
  <2> DEFINE w == boards[h].watchdog
             board == [boards[h] EXCEPT !.watchdog = Fed(@)]
  <2>1. /\ h \in Live /\ boards[h] \in VirtualBoard /\ Watched(w)
        /\ w # None /\ ~Expired(w)
    BY <1>3, BoardOf DEF WdtFeed
  <2>2. w \in TaskWatchdog /\ now \in Nat
    BY <2>1 DEF VirtualBoard, BoardInv, BoardTypeOK
  <2>3. Expired(w) = FALSE
    BY <2>1, <2>2 DEF Expired, TaskWatchdog
  <2>3a. Refreshed(w) \in TaskWatchdog /\ Refreshed(w).gap = w.gap
         /\ Refreshed(w).timeout = w.timeout /\ Refreshed(w).timedOut = FALSE
    BY <2>2, <2>3 DEF Refreshed, TaskWatchdog
  <2>4. w.gap \in Nat /\ w.fed \in Nat /\ w.timeout \in Nat /\ w.fed <= now
    BY <2>1, <2>2 DEF TaskWatchdog, Watched
  <2>5. now - w.fed < w.timeout
    BY <2>1, <2>2, <2>4 DEF Expired
  <2>6. Max({w.gap, now - w.fed}) = IF w.gap >= now - w.fed THEN w.gap ELSE now - w.fed
    BY <2>2, <2>4, MaxOfTwo
  <2>7. Max({w.gap, now - w.fed}) \in Nat
        /\ (Max({w.gap, now - w.fed}) > 0 => Max({w.gap, now - w.fed}) < w.timeout)
    BY <2>1, <2>2, <2>4, <2>5, <2>6 DEF Watched
  <2>8. /\ Fed(w) \in TaskWatchdog
        /\ Fed(w).fed = now /\ Fed(w).gap = Max({w.gap, now - w.fed})
        /\ Fed(w).timeout = w.timeout /\ Fed(w).timedOut = FALSE
    BY <2>2, <2>3a, <2>7 DEF Fed, TaskWatchdog
  <2>9. Watched(Fed(w))
    BY <2>2, <2>7, <2>8 DEF Watched
  <2>10. board \in VirtualBoard /\ board.watchdog = Fed(w)
    BY <2>1, <2>8 DEF VirtualBoard
  <2>11. OnBoard(h, board)
    BY <1>3 DEF WdtFeed
  <2> QED
    BY <2>9, <2>10, <2>11, OnBoardKeeps
<1>4. CASE WdtDisable(h)
  <2> DEFINE board == [boards[h] EXCEPT !.watchdog = None]
  <2>1. h \in Live /\ boards[h] \in VirtualBoard
    BY <1>4, BoardOf DEF WdtDisable
  <2>2. board \in VirtualBoard /\ board.watchdog = None
    BY <2>1 DEF VirtualBoard
  <2>3. OnBoard(h, board)
    BY <1>4 DEF WdtDisable
  <2> QED
    BY <2>2, <2>3, OnBoardKeeps DEF Watched
<1>5. CASE TimePasses
  <2>1. \A g \in Live : boards[g].watchdog # None => boards[g].watchdog.fed \in Nat
    BY DEF BoardInv, BoardTypeOK, Live, VirtualBoard, TaskWatchdog
  <2> QED
    BY <1>5, <2>1 DEF TimePasses, BoardInv, BoardTypeOK, Live, Watched, keptVars
<1>6. ASSUME NEW to \in {"sw", "deepsleep"}, SetResetReason(h, to)
      PROVE  BoardInv'
  BY <1>6 DEF SetResetReason, BoardInv, BoardTypeOK, Live, Watched
<1> QED
  BY <1>1, <1>2, <1>3, <1>4, <1>5, <1>6 DEF WatchdogNext

(* What outlives the handles is of no concern to them. *)
LEMMA RetainedKeeps ==
  ASSUME BoardInv, RetainedNext
  PROVE  BoardInv'
BY DEF RetainedNext, SetRtcNoinit, ClearRtcNoinit, SetBootPhaseForInstance, SetBootPhase,
       BoardInv, BoardTypeOK, Live, Watched

(* Every call on the boards keeps the invariant. *)
LEMMA BoardStep ==
  ASSUME BoardInv, BoardNext
  PROVE  BoardInv'
<1>1. ASSUME NEW h \in Handles, Destroy(h)
      PROVE  BoardInv'
  BY <1>1, OnBoardKeeps DEF Destroy
<1> QED
  BY <1>1, CreateKeeps, PowerKeeps, BatteryKeeps, MemoryKeeps, WatchdogKeeps, RetainedKeeps
  DEF BoardNext

(* The invariant of the boards. *)
THEOREM BoardInvariant == BoardSpec => []BoardInv
<1>1. BoardInv /\ UNCHANGED boardVars => BoardInv'
  BY DEF BoardInv, BoardTypeOK, Live, Watched, boardVars
<1>2. BoardInv /\ [BoardNext]_boardVars => BoardInv'
  BY <1>1, BoardStep
<1> QED
  BY <1>2, BoardInitInv, PTL DEF BoardSpec

(* A watchdog that still runs was always fed in time, however the calls    *)
(* of all handles, the looks and the clock interleave, and one that        *)
(* expired with panic has left its reset reason.                           *)
THEOREM ExpiredWatchdogsStay == BoardSpec => []ExpiryIsFinal
<1>1. BoardInv => ExpiryIsFinal
  BY DEF BoardInv, Watched, ExpiryIsFinal
<1> QED
  BY <1>1, BoardInvariant, PTL

(* The only step that powers a rail latched dark is a write to its pin. *)
LEMMA DarkStep ==
  ASSUME BoardInv, BoardNext, latched, ~power, power'
  PROVE  Live' = Live /\ \E h \in Live : boards[h].buses /\ boards'[h].rail
<1>1. power' # power
  OBVIOUS
<1>2. PICK h \in Handles :
        \/ \E mv \in {0, FullMv}, psram \in {0, MaxBytes} : Create(h, mv, psram)
        \/ Quiesce(h)
        \/ \E pin \in Pins, level \in BOOLEAN : DigitalWrite(h, pin, level)
  BY ZenonT(40), <1>1 DEF BoardNext, PowerNext, BatteryNext, MemoryNext, WatchdogNext, RetainedNext, Destroy,
     OnBoard, RtcGpioHold, LedcAttach, LedcWrite, SetBattery, SetAdcCalibration, SetExternalPower,
     SimulateCharge, SimulateDischarge, SetPsramSize, ReservePsram, ReleasePsram,
     PsramReadbackTest, WdtInit, WdtDisable, WdtLook, WdtFeed, TimePasses, SetResetReason,
     SetRtcNoinit, ClearRtcNoinit, SetBootPhaseForInstance, SetBootPhase
<1>3. \A mv, psram : ~Create(h, mv, psram)
  BY DEF Create, NewBoard, BoardInv
<1>4. ~Quiesce(h)
  BY DEF Quiesce
<1>5. PICK pin \in Pins, level \in BOOLEAN : DigitalWrite(h, pin, level)
  BY <1>2, <1>3, <1>4
<1>6. h \in Live /\ boards[h] \in VirtualBoard
  BY <1>5, BoardOf DEF DigitalWrite
<1>7. level /\ boards[h].buses /\ boards' = [boards EXCEPT ![h].rail = TRUE]
  BY <1>5 DEF DigitalWrite
<1>8. [boards[h] EXCEPT !.rail = TRUE] \in VirtualBoard /\ [boards[h] EXCEPT !.rail = TRUE].rail
  BY <1>6 DEF VirtualBoard
<1>9. /\ boards'[h] = [boards[h] EXCEPT !.rail = TRUE]
      /\ \A g \in Handles \ {h} : boards'[g] = boards[g]
  BY <1>7 DEF BoardInv, BoardTypeOK
<1>10. Live' = Live
  BY <1>6, <1>8, <1>9, NoneIsNoBoard DEF Live
<1> QED
  BY <1>6, <1>7, <1>8, <1>9, <1>10

(* After a shutdown nothing powers the rail but a write to its pin on a    *)
(* board that was not shut down: not a board that is created later,        *)
(* whatever its configuration, and not the end of one.                     *)
THEOREM ShutdownStaysDark == BoardSpec => DarkUntilDriven
<1>1. BoardInv /\ [BoardNext]_boardVars =>
        [latched /\ ~power /\ power' =>
           Live' = Live /\ \E h \in Live : boards[h].buses /\ boards'[h].rail]_boardVars
  BY DarkStep
<1> QED
  BY <1>1, BoardInvariant, PTL DEF BoardSpec, DarkUntilDriven

-----------------------------------------------------------------------------
(* An epoch is never empty. *)
LEMMA EpochBytesType ==
  ASSUME NEW satellites \in Nat
  PROVE  EpochBytes(satellites) \in Nat \ {0}
<1>1. Max({satellites, 1}) \in Nat
  BY MaxOfTwo
<1>2. Gsv(satellites) \in Nat
  BY <1>1 DEF Gsv
<1> QED
  BY <1>2, GpsAssumption DEF EpochBytes

(* Division by an epoch: quotient and remainder are the only ones.         *)
LEMMA Remainder ==
  ASSUME NEW time \in Nat, NEW q \in Nat, NEW r \in 0 .. Epoch - 1, time = Epoch * q + r
  PROVE  time % Epoch = r
<1> DEFINE k == time \div Epoch
           t == time % Epoch
<1>1. Epoch \in Nat /\ Epoch > 0
  BY GpsAssumption
<1>2. k \in Int /\ t \in 0 .. Epoch - 1 /\ time = Epoch * k + t
  BY <1>1
<1> HIDE DEF k, t
<1>3. Epoch * (k - q) = r - t
  BY <1>1, <1>2
<1>4. r - t < Epoch /\ r - t > -Epoch
  BY <1>1, <1>2
<1>5. ASSUME k - q >= 1
      PROVE  FALSE
  <2>1. Epoch * (k - q) >= Epoch
    BY <1>1, <1>2, <1>5
  <2> QED
    BY <2>1, <1>1, <1>2, <1>3, <1>4
<1>6. ASSUME k - q <= -1
      PROVE  FALSE
  <2>1. Epoch * (k - q) <= -Epoch
    BY <1>1, <1>2, <1>6
  <2> QED
    BY <2>1, <1>1, <1>2, <1>3, <1>4
<1>7. k = q
  BY <1>2, <1>5, <1>6
<1>8. t = r
  BY <1>1, <1>2, <1>7
<1> QED
  BY <1>8 DEF t

(* Counting seconds: the remainder of the sum is that of the remainder.    *)
LEMMA ElapsedAdds ==
  ASSUME NEW time \in Nat, NEW dt \in Nat
  PROVE  ((time % Epoch) + dt) % Epoch = (time + dt) % Epoch
<1> DEFINE r == time % Epoch
           s == (r + dt) % Epoch
           q == time \div Epoch
           p == (r + dt) \div Epoch
<1>1. Epoch \in Nat /\ Epoch > 0
  BY GpsAssumption
<1>2. q \in Nat /\ r \in 0 .. Epoch - 1 /\ time = Epoch * q + r
  BY <1>1
<1> HIDE DEF q, r
<1>3. p \in Nat /\ s \in 0 .. Epoch - 1 /\ r + dt = Epoch * p + s
  BY <1>1, <1>2
<1> HIDE DEF p, s
<1>4. q + p \in Nat /\ time + dt \in Nat /\ time + dt = Epoch * (q + p) + s
  BY <1>1, <1>2, <1>3
<1>5. (time + dt) % Epoch = s
  BY <1>3, <1>4, Remainder
<1> QED
  BY <1>5 DEF r, s

(* The seconds since the last epoch are no more than all of them. *)
LEMMA ElapsedWithin ==
  ASSUME NEW time \in Nat
  PROVE  time % Epoch \in 0 .. time /\ time % Epoch < Epoch
<1>1. Epoch \in Nat /\ Epoch > 0
  BY GpsAssumption
<1> QED
  BY <1>1

(* A movement changes where the receiver is and nothing of its output. *)
LEMMA MovedKeeps ==
  ASSUME NEW g, NEW dt, ReceiverOK(g)
  PROVE  /\ ReceiverOK(Moved(g, dt))
         /\ Moved(g, dt).satellites = g.satellites /\ Moved(g, dt).enabled = g.enabled
         /\ Moved(g, dt).output = g.output /\ Moved(g, dt).baud = g.baud
         /\ Moved(g, dt).buffer = g.buffer /\ Moved(g, dt).elapsed = g.elapsed
         /\ Moved(g, dt).allowance = g.allowance
<1> DEFINE Keeps(new) ==
      /\ ReceiverOK(new)
      /\ new.satellites = g.satellites /\ new.enabled = g.enabled
      /\ new.output = g.output /\ new.baud = g.baud
      /\ new.buffer = g.buffer /\ new.elapsed = g.elapsed
      /\ new.allowance = g.allowance
<1>1. ASSUME NEW x
      PROVE  Keeps([g EXCEPT !.at = x])
  BY DEF ReceiverOK
<1>2. ASSUME NEW x, NEW y
      PROVE  Keeps([g EXCEPT !.at = x, !.movement.next = y])
  BY DEF ReceiverOK, MovementOK
<1>3. ASSUME NEW x, NEW y, NEW z
      PROVE  Keeps([g EXCEPT !.progress = z, !.movement.next = y, !.at = x])
  BY DEF ReceiverOK, MovementOK
<1>4. Keeps(g)
  OBVIOUS
<1>5. Keeps(Moved(g, dt))
  <2> HIDE DEF Keeps
  <2>1. g.movement.kind \in MovementKinds
    BY DEF ReceiverOK, MovementOK
  <2>2. CASE g.movement.kind = "static"
    BY <2>2, <1>4 DEF Moved
  <2>3. CASE g.movement.kind = "linear"
    BY <2>3, <1>1 DEF Moved
  <2>4. CASE g.movement.kind = "waypoint"
    BY <2>4, <1>2 DEF Moved
  <2>5. CASE g.movement.kind = "samples"
    BY <2>5, <1>3 DEF Moved
  <2>6. CASE g.movement.kind = "timed"
    BY <2>6, <1>3 DEF Moved
  <2> QED
    BY <2>1, <2>2, <2>3, <2>4, <2>5, <2>6 DEF MovementKinds
<1> QED
  BY <1>5

(* A receiver that notices its switch starts its output over. *)
LEMMA SyncedKeeps ==
  ASSUME NEW g, ReceiverOK(g)
  PROVE  /\ ReceiverOK(Synced(g))
         /\ Synced(g).output = g.enabled /\ Synced(g).baud = g.baud
         /\ Synced(g).satellites = g.satellites
         /\ g.output = g.enabled => Synced(g) = g
         /\ g.output # g.enabled =>
              Synced(g).buffer = << >> /\ Synced(g).elapsed = 0 /\ Synced(g).allowance = 0
<1>1. << >> \in Seq(OutByte)
  OBVIOUS
<1> QED
  BY <1>1 DEF Synced, ResetOutput, ReceiverOK, MovementOK

-----------------------------------------------------------------------------
(* t is s followed by the first len of rest, and r is what is left.        *)
Divided(s, rest, len, t, r) ==
  /\ s \in Seq(OutByte) /\ rest \in Seq(OutByte)
  /\ t \in Seq(OutByte) /\ r \in Seq(OutByte)
  /\ len \in Nat /\ len <= Len(rest)
  /\ Len(t) = Len(s) + len /\ Len(r) = Len(rest) - len
  /\ \A k \in 1 .. Len(s) : t[k] = s[k]
  /\ \A k \in 1 .. len : t[Len(s) + k] = rest[k]
  /\ \A k \in 1 .. Len(rest) - len : r[k] = rest[len + k]

(* Where the bytes of s and the first len bytes of rest are after a read.  *)
LEMMA ReadPlaces ==
  ASSUME NEW s \in Seq(OutByte), NEW rest \in Seq(OutByte), NEW len \in 0 .. Len(rest),
         NEW t, t = s \o SubSeq(rest, 1, len),
         NEW r, r = SubSeq(rest, len + 1, Len(rest))
  PROVE  Divided(s, rest, len, t, r)
<1> DEFINE f == SubSeq(rest, 1, len)
<1>1. Len(s) \in Nat /\ Len(rest) \in Nat /\ len \in Nat /\ len <= Len(rest)
  OBVIOUS
<1>2. /\ f \in Seq(OutByte) /\ Len(f) = len
      /\ \A k \in 1 .. len : f[k] = rest[k]
  BY <1>1, SubSeqProperties
<1>3. /\ r \in Seq(OutByte) /\ Len(r) = Len(rest) - len
      /\ \A k \in 1 .. Len(rest) - len : r[k] = rest[len + k]
  BY <1>1, SubSeqProperties
<1> HIDE DEF f
<1>4. /\ t \in Seq(OutByte) /\ Len(t) = Len(s) + len
      /\ \A k \in 1 .. Len(s) : t[k] = s[k]
      /\ \A k \in 1 .. len : t[Len(s) + k] = f[k]
  BY <1>1, <1>2, ConcatProperties DEF f
<1>5. \A k \in 1 .. len : t[Len(s) + k] = rest[k]
  BY <1>2, <1>4
<1> QED
  BY <1>1, <1>3, <1>4, <1>5 DEF Divided

(* The fields of a byte of the output. *)
LEMMA OutByteFields ==
  ASSUME NEW x \in OutByte
  PROVE  x.epoch \in Nat /\ x.n \in Nat /\ x.n > 0
BY DEF OutByte

(* A read goes on with the epoch where the reads before it ended.          *)
LEMMA ReadContinues ==
  ASSUME NEW e \in Nat, NEW s, NEW rest, NEW len, NEW t, NEW r,
         Divided(s, rest, len, t, r), Ordered(s, rest, e)
  PROVE  /\ Ordered(t, r, e)
         /\ Cardinality(OfEpoch(t, e)) <= Cardinality(OfEpoch(s, e)) + len
         /\ Cardinality(OfEpoch(t, e)) \in Nat /\ Cardinality(OfEpoch(s, e)) \in Nat
<1>0. /\ InOrder(s) /\ Gapless(s) /\ UpTo(s, e) /\ Run(rest, e) /\ Continues(s, rest, e)
      /\ s \in Seq(OutByte) /\ rest \in Seq(OutByte)
      /\ t \in Seq(OutByte) /\ r \in Seq(OutByte)
      /\ len \in Nat /\ len <= Len(rest)
      /\ Len(t) = Len(s) + len /\ Len(r) = Len(rest) - len
  BY DEF Divided, Ordered
<1> DEFINE m == Len(s)
           n == Len(rest)
<1>1. /\ \A k \in 1 .. m : t[k] = s[k]
      /\ \A k \in 1 .. len : t[m + k] = rest[k]
      /\ \A k \in 1 .. n - len : r[k] = rest[len + k]
  BY DEF Divided
<1>2. /\ m \in Nat /\ n \in Nat /\ len \in Nat /\ len <= n
      /\ DOMAIN s = 1 .. m /\ DOMAIN rest = 1 .. n
  BY <1>0
<1>3. DOMAIN t = 1 .. m + len /\ DOMAIN r = 1 .. n - len /\ Len(t) = m + len
  BY <1>0
<1>3a. /\ s # << >> <=> m > 0
       /\ rest # << >> <=> n > 0
       /\ r # << >> <=> n > len
       /\ t # << >> <=> m + len > 0
  BY <1>0
<1>3b. /\ Continues(s, rest, e) <=>
            /\ n > 0 /\ rest[1].n = 1 => \A k \in 1 .. m : s[k].epoch < e
            /\ n > 0 /\ rest[1].n > 1 => m > 0 /\ s[m] = Byte(e, rest[1].n - 1)
       /\ Continues(t, r, e) <=>
            /\ n > len /\ r[1].n = 1 => \A k \in 1 .. m + len : t[k].epoch < e
            /\ n > len /\ r[1].n > 1 => m + len > 0 /\ t[m + len] = Byte(e, r[1].n - 1)
  BY <1>2, <1>3, <1>3a DEF Continues
<1>3c. /\ \A k \in 1 .. m : s[k] \in OutByte
       /\ n > 0 => rest[1] \in OutByte
  BY <1>0
<1> DEFINE first == rest[1].n
<1> HIDE DEF m, n
<1>4. ASSUME NEW k \in 1 .. m
      PROVE  s[k].epoch \in Nat /\ s[k].n \in Nat /\ s[k].n > 0
  BY <1>3c, OutByteFields
<1>5. n > 0 => first \in Nat /\ first > 0
  BY <1>3c DEF OutByte
<1>6. \A k \in 1 .. n : rest[k] = Byte(e, first + k - 1)
  BY <1>0, <1>2 DEF Run
<1> HIDE DEF first
<1>7. \A k \in m + 1 .. m + len :
        /\ t[k] = Byte(e, first + (k - m) - 1)
        /\ t[k].epoch = e /\ t[k].n = first + (k - m) - 1 /\ first \in Nat /\ first > 0
  <2> SUFFICES ASSUME NEW k \in m + 1 .. m + len
               PROVE  /\ t[k] = Byte(e, first + (k - m) - 1)
                      /\ t[k].epoch = e /\ t[k].n = first + (k - m) - 1
                      /\ first \in Nat /\ first > 0
    OBVIOUS
  <2>1. k - m \in 1 .. len /\ k - m \in 1 .. n /\ m + (k - m) = k /\ n > 0
    BY <1>2
  <2>2. t[k] = rest[k - m]
    BY <2>1, <1>1
  <2>3. t[k] = Byte(e, first + (k - m) - 1)
    BY <2>1, <2>2, <1>6
  <2> QED
    BY <2>1, <2>3, <1>5 DEF Byte
(* Whatever is in s is before the first byte of the rest.                  *)
<1>8. ASSUME n > 0, NEW k \in 1 .. m
      PROVE  s[k].epoch < e \/ (s[k].epoch = e /\ s[k].n < first)
  <2>1. CASE first = 1
    BY <1>8, <2>1, <1>0, <1>3b DEF first
  <2>2. CASE first > 1
    <3>1. s[m] = Byte(e, first - 1) /\ m > 0
      BY <1>8, <2>2, <1>0, <1>3b DEF first
    <3>2. s[m].epoch = e /\ s[m].n = first - 1
      BY <3>1 DEF Byte
    <3>3. CASE k = m
      BY <3>2, <3>3, <1>5, <1>8
    <3>4. CASE k # m
      <4>1. k < m /\ m \in 1 .. m
        BY <3>4, <1>2
      <4>2. s[k].epoch < s[m].epoch \/ (s[k].epoch = s[m].epoch /\ s[k].n < s[m].n)
        BY <4>1, <1>0, <1>2 DEF InOrder
      <4> QED
        BY <4>2, <3>2, <1>4, <1>5, <1>8
    <3> QED
      BY <3>3, <3>4
  <2> QED
    BY <2>1, <2>2, <1>5, <1>8
<1>9. UpTo(t, e)
  <2> SUFFICES ASSUME NEW k \in 1 .. m + len
               PROVE  t[k].epoch <= e
    BY <1>3 DEF UpTo
  <2>1. CASE k <= m
    <3>1. k \in 1 .. m
      BY <2>1, <1>2
    <3> QED
      BY <3>1, <1>1, <1>0, <1>2 DEF UpTo
  <2>2. CASE k > m
    <3>1. k \in m + 1 .. m + len
      BY <2>2, <1>2
    <3> QED
      BY <3>1, <1>7
  <2> QED
    BY <2>1, <2>2, <1>2
<1>10. InOrder(t)
  <2> SUFFICES ASSUME NEW j \in 1 .. m + len, NEW k \in 1 .. m + len, j < k
               PROVE  t[j].epoch < t[k].epoch \/ (t[j].epoch = t[k].epoch /\ t[j].n < t[k].n)
    BY <1>3 DEF InOrder
  <2>1. CASE k <= m
    <3>1. j \in 1 .. m /\ k \in 1 .. m
      BY <2>1, <1>2
    <3>2. t[j] = s[j] /\ t[k] = s[k]
      BY <3>1, <1>1
    <3>3. s[j].epoch < s[k].epoch \/ (s[j].epoch = s[k].epoch /\ s[j].n < s[k].n)
      BY <3>1, <1>0, <1>2 DEF InOrder
    <3> QED
      BY <3>2, <3>3
  <2>2. CASE k > m /\ j <= m
    <3>1. j \in 1 .. m /\ k \in m + 1 .. m + len /\ n > 0 /\ k - m >= 1 /\ k - m \in Int
      BY <2>2, <1>2
    <3>2. t[j] = s[j] /\ (s[j].epoch < e \/ (s[j].epoch = e /\ s[j].n < first))
      BY <3>1, <1>1, <1>8
    <3>3. t[k].epoch = e /\ t[k].n = first + (k - m) - 1 /\ first \in Nat
      BY <3>1, <1>7
    <3>4. s[j].n \in Nat
      BY <3>1, <1>4
    <3>5. s[j].n < first => s[j].n < first + (k - m) - 1
      BY <3>1, <3>3, <3>4
    <3> QED
      BY <3>2, <3>3, <3>5
  <2>3. CASE j > m
    <3>1. j \in m + 1 .. m + len /\ k \in m + 1 .. m + len /\ j \in Int /\ k \in Int
      BY <2>3, <1>2
    <3>2. /\ t[k].epoch = e /\ t[k].n = first + (k - m) - 1 /\ first \in Nat
          /\ t[j].epoch = e /\ t[j].n = first + (j - m) - 1
      BY <3>1, <1>7
    <3>3. first + (j - m) - 1 < first + (k - m) - 1
      BY <3>1, <3>2, <1>2
    <3> QED
      BY <3>2, <3>3
  <2> QED
    BY <2>1, <2>2, <2>3, <1>2
<1>11. Gapless(t)
  <2> SUFFICES ASSUME NEW k \in 1 .. m + len, t[k].n > 1
               PROVE  k > 1 /\ t[k - 1] = Byte(t[k].epoch, t[k].n - 1)
    BY <1>3 DEF Gapless
  <2>1. CASE k <= m
    <3>1. k \in 1 .. m
      BY <2>1, <1>2
    <3>2. t[k] = s[k] /\ k > 1 /\ s[k - 1] = Byte(s[k].epoch, s[k].n - 1)
      BY <3>1, <1>1, <1>0, <1>2 DEF Gapless
    <3>3. k - 1 \in 1 .. m
      BY <3>1, <3>2, <1>2
    <3> QED
      BY <3>2, <3>3, <1>1
  <2>2. CASE k = m + 1
    <3>1. k \in m + 1 .. m + len /\ n > 0 /\ k - m = 1 /\ k - 1 = m
      BY <2>2, <1>2
    <3>2. t[k].epoch = e /\ t[k].n = first + (k - m) - 1 /\ first \in Nat
      BY <3>1, <1>7
    <3>3. t[k].n = first
      BY <3>1, <3>2
    <3>4. m > 0 /\ s[m] = Byte(e, first - 1)
      BY <3>1, <3>3, <1>0, <1>3b DEF first
    <3>5. m \in 1 .. m
      BY <3>4, <1>2
    <3>6. t[m] = Byte(e, first - 1)
      BY <3>4, <3>5, <1>1
    <3> QED
      BY <3>1, <3>2, <3>3, <3>4, <3>6, <1>2
  <2>3. CASE k > m + 1
    <3>1. /\ k \in m + 1 .. m + len /\ k - 1 \in m + 1 .. m + len /\ k > 1 /\ k \in Int
      BY <2>3, <1>2
    <3>2. t[k].epoch = e /\ t[k].n = first + (k - m) - 1 /\ first \in Nat
      BY <3>1, <1>7
    <3>3. t[k - 1] = Byte(e, first + ((k - 1) - m) - 1)
      BY <3>1, <1>7
    <3>4. first + ((k - 1) - m) - 1 = (first + (k - m) - 1) - 1
      BY <3>1, <3>2, <1>2
    <3> QED
      BY <3>1, <3>2, <3>3, <3>4
  <2> QED
    BY <2>1, <2>2, <2>3, <1>2
(* The rest, by its own places.                                            *)
<1>12. \A k \in 1 .. n - len : r[k] = Byte(e, first + (len + k) - 1)
  <2> SUFFICES ASSUME NEW k \in 1 .. n - len
               PROVE  r[k] = Byte(e, first + (len + k) - 1)
    OBVIOUS
  <2>1. len + k \in 1 .. n
    BY <1>2
  <2> QED
    BY <2>1, <1>1, <1>6
<1>13. n > len => r[1].n = first + len /\ first \in Nat /\ first > 0
  <2> SUFFICES ASSUME n > len
               PROVE  r[1].n = first + len /\ first \in Nat /\ first > 0
    OBVIOUS
  <2>1. 1 \in 1 .. n - len /\ n > 0
    BY <1>2
  <2>2. r[1] = Byte(e, first + (len + 1) - 1)
    BY <2>1, <1>12
  <2>3. first + (len + 1) - 1 = first + len
    BY <2>1, <1>2, <1>5
  <2> QED
    BY <2>1, <2>2, <2>3, <1>5 DEF Byte
<1>14. Run(r, e)
  <2> SUFFICES ASSUME NEW k \in 1 .. n - len
               PROVE  r[k] = Byte(e, r[1].n + k - 1)
    BY <1>3 DEF Run
  <2>1. n > len /\ k \in Int
    BY <1>2
  <2>2. r[1].n = first + len /\ first \in Nat
    BY <2>1, <1>13
  <2>3. first + (len + k) - 1 = (first + len) + k - 1
    BY <2>1, <2>2, <1>2
  <2>4. r[k] = Byte(e, first + (len + k) - 1)
    BY <1>12
  <2> QED
    BY <2>2, <2>3, <2>4
<1>14a. Continues(t, r, e)
  <2> SUFFICES ASSUME n > len
               PROVE  /\ r[1].n = 1 => \A k \in 1 .. m + len : t[k].epoch < e
                      /\ r[1].n > 1 => m + len > 0 /\ t[m + len] = Byte(e, r[1].n - 1)
    BY <1>3b
  <2>1. r[1].n = first + len /\ first \in Nat /\ first > 0 /\ n > 0
    BY <1>2, <1>13
  <2>2. CASE len = 0
    <3>1. r[1].n = first /\ m + len = m
      BY <2>1, <2>2, <1>2
    <3>2. CASE first = 1
      <4>1. \A k \in 1 .. m : s[k].epoch < e
        BY <3>2, <2>1, <1>0, <1>3b DEF first
      <4> QED
        BY <4>1, <3>1, <3>2, <1>1
    <3>3. CASE first > 1
      <4>1. m > 0 /\ s[m] = Byte(e, first - 1)
        BY <3>3, <2>1, <1>0, <1>3b DEF first
      <4>2. m \in 1 .. m
        BY <4>1, <1>2
      <4>3. t[m] = Byte(e, first - 1)
        BY <4>1, <4>2, <1>1
      <4> QED
        BY <4>1, <4>3, <3>1, <3>3
    <3> QED
      BY <2>1, <3>2, <3>3
  <2>3. CASE len > 0
    <3>1. m + len \in m + 1 .. m + len /\ m + len > 0 /\ (m + len) - m = len
      BY <2>3, <1>2
    <3>2. t[m + len] = Byte(e, first + ((m + len) - m) - 1)
      BY <3>1, <1>7
    <3>3. r[1].n > 1 /\ first + ((m + len) - m) - 1 = r[1].n - 1
      BY <2>1, <2>3, <3>1, <1>2
    <3> QED
      BY <3>1, <3>2, <3>3
  <2> QED
    BY <2>2, <2>3, <1>2
<1>15. /\ Cardinality(OfEpoch(t, e)) <= Cardinality(OfEpoch(s, e)) + len
       /\ Cardinality(OfEpoch(t, e)) \in Nat /\ Cardinality(OfEpoch(s, e)) \in Nat
  <2> DEFINE more == m + 1 .. m + len
  <2>1. IsFiniteSet(more) /\ Cardinality(more) = len
    <3>1. m + 1 \in Int /\ m + len \in Int /\ (m + 1 > m + len <=> len = 0)
          /\ (m + len) - (m + 1) + 1 = len
      BY <1>2
    <3> QED
      BY <3>1, FS_Interval
  <2>2. IsFiniteSet(OfEpoch(s, e)) /\ Cardinality(OfEpoch(s, e)) \in Nat
    <3>1. 1 \in Int /\ m \in Int
      BY <1>2
    <3>2. IsFiniteSet(1 .. m)
      BY <3>1, FS_Interval
    <3>3. OfEpoch(s, e) \in SUBSET (1 .. m)
      BY <1>2 DEF OfEpoch
    <3> QED
      BY <3>2, <3>3, FS_Subset, FS_CardinalityType
  <2>3. OfEpoch(t, e) \in SUBSET (OfEpoch(s, e) \cup more)
    BY <1>1, <1>2, <1>3 DEF OfEpoch
  <2> HIDE DEF more
  <2>4. /\ IsFiniteSet(OfEpoch(s, e) \cup more)
        /\ Cardinality(OfEpoch(s, e) \cup more) =
             Cardinality(OfEpoch(s, e)) + Cardinality(more) - Cardinality(OfEpoch(s, e) \cap more)
    BY <2>1, <2>2, FS_Union
  <2>5. Cardinality(OfEpoch(s, e) \cap more) \in Nat
    <3>1. OfEpoch(s, e) \cap more \in SUBSET OfEpoch(s, e)
      OBVIOUS
    <3> QED
      BY <3>1, <2>2, FS_Subset, FS_CardinalityType
  <2>6. /\ IsFiniteSet(OfEpoch(t, e))
        /\ Cardinality(OfEpoch(t, e)) <= Cardinality(OfEpoch(s, e) \cup more)
    BY <2>3, <2>4, FS_Subset
  <2>7. Cardinality(OfEpoch(t, e)) \in Nat
    BY <2>6, FS_CardinalityType
  <2> QED
    BY <2>1, <2>2, <2>4, <2>5, <2>6, <2>7, <1>2
<1> QED
  BY <1>9, <1>10, <1>11, <1>14, <1>14a, <1>15 DEF Ordered

-----------------------------------------------------------------------------
(* A call that leaves the output alone.                                    *)
LEMMA SameOutput ==
  ASSUME GpsInv, gps # None, ReceiverOK(gps'),
         gps'.output = gps.output, gps'.baud = gps.baud, gps'.buffer = gps.buffer,
         gps'.elapsed = gps.elapsed, gps'.allowance = gps.allowance,
         UNCHANGED <<epochs, discarded, uptime, got>>
  PROVE  GpsInv'
<1>1. OutputInv(gps)
  BY DEF GpsInv
<1>2. OutputInv(gps)'
  BY <1>1 DEF OutputInv
<1> QED
  BY <1>2 DEF GpsInv

(* A receiver that starts over has nothing to say of an earlier epoch.     *)
LEMMA FreshOutput ==
  ASSUME GpsInv, ReceiverOK(gps'), gps'.buffer = << >>, gps'.elapsed = 0,
         discarded' = epochs, uptime' = 0, UNCHANGED <<epochs, got>>
  PROVE  GpsInv'
<1>1. 0 % Epoch = 0
  BY GpsAssumption
<1>2. Run(<< >>, epochs) /\ Continues(got, << >>, epochs)
  BY DEF Run, Continues
<1>3. epochs \in Nat
  BY DEF GpsInv
<1>4. OutputInv(gps)'
  BY <1>1, <1>2, <1>3 DEF OutputInv
<1> QED
  BY <1>3, <1>4 DEF GpsInv

(* A new receiver has no output yet. *)
LEMMA NewGpsOK ==
  ASSUME NEW at
  PROVE  /\ ReceiverOK(NewGps(at))
         /\ NewGps(at).buffer = << >> /\ NewGps(at).elapsed = 0
<1>1. << >> \in Seq(OutByte) /\ SlowBaud \in Bauds
  BY GpsAssumption
<1> QED
  BY <1>1 DEF NewGps, ReceiverOK, MovementOK, Static, MovementKinds

(* What the invariant says of the receiver that there is. *)
LEMMA ReceiverOf ==
  ASSUME GpsInv, gps # None
  PROVE  ReceiverOK(gps)
BY DEF GpsInv, OutputInv

(* Another movement model, and a receiver put elsewhere.                   *)
LEMMA SetMovementKeeps ==
  ASSUME GpsInv, gps # None, NEW movement, MovementOK(movement), SetMovement(movement)
  PROVE  GpsInv'
<1>1. PICK x : gps' = [gps EXCEPT !.movement = movement, !.progress = 0, !.at = x]
  BY DEF SetMovement
<1>2. /\ ReceiverOK(gps')
      /\ gps'.output = gps.output /\ gps'.baud = gps.baud /\ gps'.buffer = gps.buffer
      /\ gps'.elapsed = gps.elapsed /\ gps'.allowance = gps.allowance
  BY <1>1, ReceiverOf DEF ReceiverOK
<1> QED
  BY <1>2, SameOutput DEF SetMovement

(* Every movement model that a call can set. *)
LEMMA MovementsAreOK ==
  /\ MovementOK(Static)
  /\ \A points, speed, kind : kind \in MovementKinds => MovementOK(Movement(kind, points, speed))
BY DEF MovementOK, Static, Movement, MovementKinds

(* The calls that set a movement model. *)
LEMMA MovementCalls ==
  ASSUME GpsInv
  PROVE  /\ SetStatic => GpsInv'
         /\ \A speed : SetLinear(speed) => GpsInv'
         /\ \A track, speed :
              SetWaypoints(track, speed) \/ SetGpxReplayXml(track, speed) \/ SetSamples(track, speed)
                => GpsInv'
<1>1. ASSUME NEW movement, MovementOK(movement), GpsCall, SetMovement(movement)
      PROVE  GpsInv'
  BY <1>1, SetMovementKeeps DEF GpsCall
<1>2. /\ "linear" \in MovementKinds /\ "waypoint" \in MovementKinds
      /\ "samples" \in MovementKinds /\ "timed" \in MovementKinds
  BY DEF MovementKinds
<1>3. SetStatic => GpsInv'
  BY <1>1, MovementsAreOK DEF SetStatic
<1>4. ASSUME NEW speed, SetLinear(speed)
      PROVE  GpsInv'
  BY <1>1, <1>2, <1>4, MovementsAreOK DEF SetLinear
<1>5. ASSUME NEW track, NEW speed, SetWaypoints(track, speed)
      PROVE  GpsInv'
  BY <1>1, <1>2, <1>5, MovementsAreOK DEF SetWaypoints
<1>6. ASSUME NEW track, NEW speed, SetGpxReplayXml(track, speed)
      PROVE  GpsInv'
  BY <1>1, <1>2, <1>6, MovementsAreOK DEF SetGpxReplayXml
<1>7. ASSUME NEW track, NEW speed, SetSamples(track, speed)
      PROVE  GpsInv'
  BY <1>1, <1>2, <1>7, MovementsAreOK DEF SetSamples
<1> QED
  BY <1>3, <1>4, <1>5, <1>6, <1>7

(* The calls that set something of the receiver.                           *)
LEMMA SettingCalls ==
  ASSUME GpsInv
  PROVE  /\ \A at : GpsCreate(at) \/ SetPosition(at) => GpsInv'
         /\ \A satellites \in Satellites : SetSatellites(satellites) => GpsInv'
         /\ \A enabled \in BOOLEAN : SetEnabled(enabled) \/ ManagerSetEnabled(enabled) => GpsInv'
         /\ \A baud \in Bauds : SetBaudRate(baud) => GpsInv'
         /\ GpsDestroy => GpsInv'
<1>1. ASSUME NEW at, GpsCreate(at)
      PROVE  GpsInv'
  <2>1. gps' = NewGps(at) /\ discarded' = epochs /\ uptime' = 0 /\ UNCHANGED <<epochs, got>>
    BY <1>1 DEF GpsCreate
  <2> QED
    BY <2>1, NewGpsOK, FreshOutput
<1>2. ASSUME NEW at, SetPosition(at)
      PROVE  GpsInv'
  <2>1. gps # None /\ gps' = [gps EXCEPT !.at = at] /\ UNCHANGED <<epochs, discarded, uptime, got>>
    BY <1>2 DEF SetPosition, GpsCall
  <2>2. /\ ReceiverOK(gps')
        /\ gps'.output = gps.output /\ gps'.baud = gps.baud /\ gps'.buffer = gps.buffer
        /\ gps'.elapsed = gps.elapsed /\ gps'.allowance = gps.allowance
    BY <2>1, ReceiverOf DEF ReceiverOK
  <2> QED
    BY <2>1, <2>2, SameOutput
<1>3. ASSUME NEW satellites \in Satellites, SetSatellites(satellites)
      PROVE  GpsInv'
  <2>1. /\ gps # None /\ gps' = [gps EXCEPT !.satellites = satellites]
        /\ UNCHANGED <<epochs, discarded, uptime, got>>
    BY <1>3 DEF SetSatellites, GpsCall
  <2>2. satellites \in Nat
    BY <1>3, GpsAssumption
  <2>3. /\ ReceiverOK(gps')
        /\ gps'.output = gps.output /\ gps'.baud = gps.baud /\ gps'.buffer = gps.buffer
        /\ gps'.elapsed = gps.elapsed /\ gps'.allowance = gps.allowance
    BY <2>1, <2>2, ReceiverOf DEF ReceiverOK
  <2> QED
    BY <2>1, <2>3, SameOutput
<1>4. ASSUME NEW enabled \in BOOLEAN, SetEnabled(enabled)
      PROVE  GpsInv'
  <2>1. /\ gps # None /\ gps' = [gps EXCEPT !.enabled = enabled]
        /\ UNCHANGED <<epochs, discarded, uptime, got>>
    BY <1>4 DEF SetEnabled, GpsCall
  <2>2. /\ ReceiverOK(gps')
        /\ gps'.output = gps.output /\ gps'.baud = gps.baud /\ gps'.buffer = gps.buffer
        /\ gps'.elapsed = gps.elapsed /\ gps'.allowance = gps.allowance
    BY <2>1, <1>4, ReceiverOf DEF ReceiverOK
  <2> QED
    BY <2>1, <2>2, SameOutput
<1>5. ASSUME NEW enabled \in BOOLEAN, ManagerSetEnabled(enabled)
      PROVE  GpsInv'
  <2>1. /\ gps # None /\ gps' = ResetOutput([gps EXCEPT !.enabled = enabled, !.output = enabled])
        /\ discarded' = epochs /\ uptime' = 0 /\ UNCHANGED <<epochs, got>>
    BY <1>5 DEF ManagerSetEnabled, GpsCall
  <2>2. << >> \in Seq(OutByte)
    OBVIOUS
  <2>3. ReceiverOK(gps') /\ gps'.buffer = << >> /\ gps'.elapsed = 0
    BY <2>1, <2>2, <1>5, ReceiverOf DEF ReceiverOK, ResetOutput
  <2> QED
    BY <2>1, <2>3, FreshOutput
<1>6. ASSUME NEW baud \in Bauds, SetBaudRate(baud)
      PROVE  GpsInv'
  <2>1. /\ gps # None /\ gps' = ResetOutput([gps EXCEPT !.baud = baud]) /\ baud # gps.baud
        /\ Record(gps') /\ UNCHANGED <<epochs, got>>
    BY <1>6 DEF SetBaudRate, GpsCall, AtBaud, Record
  <2>2. << >> \in Seq(OutByte)
    OBVIOUS
  <2>3. ReceiverOK(gps') /\ gps'.buffer = << >> /\ gps'.elapsed = 0 /\ gps'.baud = baud
    BY <2>1, <2>2, <1>6, ReceiverOf DEF ReceiverOK, ResetOutput
  <2>4. discarded' = epochs /\ uptime' = 0
    BY <2>1, <2>3 DEF Record, Restarts
  <2> QED
    BY <2>1, <2>3, <2>4, FreshOutput
<1>7. CASE GpsDestroy
  BY <1>7 DEF GpsDestroy, GpsInv
<1> QED
  BY <1>1, <1>2, <1>3, <1>4, <1>5, <1>6, <1>7

(* The tick, which makes the latest epoch of the output.                   *)
LEMMA TickKeeps ==
  ASSUME GpsInv, NEW dt \in Deltas, Tick(dt)
  PROVE  GpsInv'
<1> DEFINE g == Synced(Moved(gps, dt))
           elapsed == g.elapsed + dt
           aged == [g EXCEPT !.elapsed = elapsed % Epoch]
           due == g.output /\ elapsed >= Epoch
<1>1. gps # None /\ OutputInv(gps) /\ ReceiverOK(gps) /\ dt \in Nat
  BY GpsAssumption DEF Tick, GpsCall, GpsInv, OutputInv
<1>2. /\ epochs \in Nat /\ discarded \in 0 .. epochs /\ uptime \in Nat
      /\ got \in Seq(OutByte) /\ InOrder(got) /\ Gapless(got) /\ UpTo(got, epochs)
  BY DEF GpsInv
<1>3. Epoch \in Nat /\ Epoch > 0
  BY GpsAssumption
<1>4. /\ gps' = (IF ~g.output THEN g
                 ELSE IF due THEN EnqueueLatestEpoch(aged, epochs + 1) ELSE aged)
      /\ epochs' = (IF due THEN epochs + 1 ELSE epochs)
      /\ discarded' = (IF Restarts(g) THEN epochs ELSE discarded)
      /\ uptime' = (IF ~g.output THEN 0 ELSE IF Restarts(g) THEN dt ELSE uptime + dt)
      /\ got' = got
  BY DEF Tick
<1>5. /\ ReceiverOK(g) /\ g.baud = gps.baud
      /\ gps.output = gps.enabled => g.output = gps.output /\ g.buffer = gps.buffer
                                     /\ g.elapsed = gps.elapsed /\ g.allowance = gps.allowance
      /\ gps.output # gps.enabled => g.output # gps.output /\ g.buffer = << >>
                                     /\ g.elapsed = 0 /\ g.allowance = 0
  <2> DEFINE m == Moved(gps, dt)
  <2>1. /\ ReceiverOK(m) /\ m.enabled = gps.enabled /\ m.output = gps.output
        /\ m.baud = gps.baud /\ m.buffer = gps.buffer /\ m.elapsed = gps.elapsed
        /\ m.allowance = gps.allowance
    BY <1>1, MovedKeeps
  <2> HIDE DEF m
  <2>2. /\ ReceiverOK(Synced(m)) /\ Synced(m).output = m.enabled /\ Synced(m).baud = m.baud
        /\ m.output = m.enabled => Synced(m) = m
        /\ m.output # m.enabled =>
             Synced(m).buffer = << >> /\ Synced(m).elapsed = 0 /\ Synced(m).allowance = 0
    BY <2>1, SyncedKeeps
  <2>3. g = Synced(m)
    BY DEF m
  <2> HIDE DEF g
  <2> QED
    BY <2>1, <2>2, <2>3
<1> HIDE DEF g
<1>6. Restarts(g) <=> gps.output # gps.enabled
  BY <1>5 DEF Restarts
<1>7. /\ g.output \in BOOLEAN /\ g.elapsed \in Nat /\ g.baud \in Bauds /\ g.satellites \in Nat
      /\ gps.output \in BOOLEAN /\ g.allowance \in Nat /\ g.buffer \in Seq(OutByte)
  BY <1>1, <1>5 DEF ReceiverOK
(* The seconds of the output, before and after.                            *)
<1>8. g.output => g.elapsed = (IF Restarts(g) THEN 0 ELSE uptime % Epoch)
  BY <1>1, <1>5, <1>6 DEF OutputInv
<1>9. /\ discarded' \in 0 .. epochs /\ uptime' \in Nat
      /\ g.output => elapsed % Epoch = uptime' % Epoch /\ elapsed <= uptime'
  <2>1. CASE ~g.output
    BY <2>1, <1>2, <1>4
  <2>2. CASE g.output /\ Restarts(g)
    BY <2>2, <1>1, <1>2, <1>4, <1>8
  <2>3. CASE g.output /\ ~Restarts(g)
    <3>1. g.elapsed = uptime % Epoch /\ uptime' = uptime + dt
      BY <2>3, <1>4, <1>8
    <3>2. (uptime % Epoch) \in 0 .. uptime
      BY <1>2, ElapsedWithin
    <3>3. ((uptime % Epoch) + dt) % Epoch = (uptime + dt) % Epoch
      BY <1>1, <1>2, ElapsedAdds
    <3> QED
      BY <2>3, <3>1, <3>2, <3>3, <1>1, <1>2, <1>4
  <2> QED
    BY <2>1, <2>2, <2>3, <1>7
<1>10. elapsed \in Nat /\ elapsed % Epoch \in Nat
  BY <1>1, <1>3, <1>7
<1> HIDE DEF elapsed
<1>11. /\ ReceiverOK(aged) /\ aged.output = g.output /\ aged.baud = g.baud
       /\ aged.buffer = g.buffer /\ aged.allowance = g.allowance
       /\ aged.elapsed = elapsed % Epoch /\ aged.satellites = g.satellites
  BY <1>5, <1>10 DEF ReceiverOK
<1> HIDE DEF aged
<1>12. << >> \in Seq(OutByte) /\ Run(<< >>, epochs) /\ Continues(got, << >>, epochs)
  BY DEF Run, Continues
(* Without an epoch the output stays as it is, or is empty.                *)
<1>13. /\ Run(g.buffer, epochs) /\ Continues(got, g.buffer, epochs)
       /\ ~g.output => g.buffer = << >>
       /\ g.buffer # << >> => epochs > discarded /\ ~Restarts(g)
  BY <1>1, <1>5, <1>6, <1>12 DEF OutputInv
<1>14. epochs > discarded' =>
         Cardinality(OfEpoch(got, epochs)) + g.allowance <= Allowance[g.baud]
  BY <1>1, <1>2, <1>4, <1>5, <1>6 DEF OutputInv
<1>15. CASE ~due
  <2>1. epochs' = epochs
    BY <1>15, <1>4
  <2>2. /\ ReceiverOK(gps') /\ gps'.output = g.output /\ gps'.baud = g.baud
        /\ gps'.buffer = g.buffer /\ gps'.allowance = g.allowance
        /\ g.output => gps'.elapsed = elapsed % Epoch
    BY <1>4, <1>5, <1>11, <1>15
  <2>3. g.buffer # << >> => epochs > discarded' /\ g.output /\ uptime' >= Epoch
    <3> SUFFICES ASSUME g.buffer # << >>
                 PROVE  epochs > discarded' /\ g.output /\ uptime' >= Epoch
      OBVIOUS
    <3>1. ~Restarts(g) /\ g.output /\ epochs > discarded /\ g.buffer = gps.buffer
      BY <1>5, <1>6, <1>7, <1>13
    <3>2. uptime >= Epoch
      BY <3>1, <1>1, <1>2, <1>3 DEF OutputInv
    <3> QED
      BY <3>1, <3>2, <1>1, <1>2, <1>3, <1>4
  <2>4. g.output => gps'.elapsed = uptime' % Epoch
    BY <2>2, <1>9
  <2>5. uptime' < Epoch => g.buffer = << >>
    BY <2>3, <1>3, <1>9
  <2>6. OutputInv(gps)'
    BY <1>4, <1>13, <1>14, <2>1, <2>2, <2>3, <2>4, <2>5 DEF OutputInv
  <2> QED
    BY <1>2, <1>4, <1>9, <2>1, <2>6 DEF GpsInv
<1>16. CASE due
  <2> DEFINE e == epochs + 1
             bytes == EpochBytes(g.satellites)
             buffer == [n \in 1 .. bytes |-> Byte(e, n)]
             allowed == Min({bytes, Allowance[g.baud]})
  <2>1. epochs' = e /\ e \in Nat /\ e > epochs /\ g.output /\ elapsed >= Epoch
    BY <1>2, <1>4, <1>16
  <2>2. bytes \in Nat /\ bytes > 0
    <3>1. g.satellites \in Nat
      BY <1>7
    <3>2. bytes \in Nat \ {0}
      BY <3>1, EpochBytesType
    <3> HIDE DEF bytes
    <3> QED
      BY <3>2
  <2>3. gps' = [aged EXCEPT !.buffer = buffer, !.allowance = allowed]
    BY <1>4, <1>11, <1>16 DEF EnqueueLatestEpoch
  <2> HIDE DEF bytes
  <2>4. \A n \in 1 .. bytes : Byte(e, n) \in OutByte /\ Byte(e, n).n = n
    BY <2>1, <2>2 DEF Byte, OutByte
  <2>5. /\ buffer \in Seq(OutByte) /\ Len(buffer) = bytes /\ DOMAIN buffer = 1 .. bytes
        /\ buffer # << >> /\ \A n \in 1 .. bytes : buffer[n] = Byte(e, n)
    BY <2>2, <2>4
  <2>6. Allowance[g.baud] \in Nat
    BY <1>7, GpsAssumption
  <2>7. allowed \in Nat /\ allowed <= Allowance[g.baud]
    BY <2>2, <2>6, MinOfTwo
  <2> HIDE DEF buffer, allowed
  <2>8. /\ ReceiverOK(gps') /\ gps'.output /\ gps'.baud = g.baud /\ gps'.buffer = buffer
        /\ gps'.allowance = allowed /\ gps'.elapsed = elapsed % Epoch
    BY <2>1, <2>3, <2>5, <2>7, <1>11 DEF ReceiverOK
  <2>9. buffer[1].n = 1
    BY <2>2, <2>4, <2>5
  <2>10. Run(buffer, e)
    <3> SUFFICES ASSUME NEW k \in 1 .. bytes
                 PROVE  buffer[k] = Byte(e, buffer[1].n + k - 1)
      BY <2>5 DEF Run
    <3>1. buffer[1].n + k - 1 = k
      BY <2>2, <2>9
    <3> QED
      BY <3>1, <2>5
  <2>11. \A k \in DOMAIN got : got[k].epoch \in Nat /\ got[k].epoch < e
    <3> SUFFICES ASSUME NEW k \in DOMAIN got
                 PROVE  got[k].epoch \in Nat /\ got[k].epoch < e
      OBVIOUS
    <3>1. got[k] \in OutByte /\ got[k].epoch <= epochs
      BY <1>2 DEF UpTo
    <3> QED
      BY <3>1, <2>1, <1>2, OutByteFields
  <2>12. Continues(got, buffer, e) /\ UpTo(got, e)
    BY <2>1, <2>9, <2>11 DEF Continues, UpTo
  <2>13. Cardinality(OfEpoch(got, e)) = 0
    <3>1. OfEpoch(got, e) = {}
      BY <2>1, <2>11 DEF OfEpoch
    <3> QED
      BY <3>1, FS_EmptySet
  <2>14. discarded' < e /\ discarded' \in 0 .. e
    BY <2>1, <1>2, <1>9
  <2>15. ~(uptime' < Epoch) /\ elapsed % Epoch = uptime' % Epoch
    <3>1. elapsed % Epoch = uptime' % Epoch /\ elapsed <= uptime' /\ uptime' \in Nat
      BY <2>1, <1>9
    <3>2. ~(uptime' < Epoch)
      BY <3>1, <2>1, <1>3, <1>10
    <3> QED
      BY <3>1, <3>2
  <2>15a. Cardinality(OfEpoch(got, e)) + allowed <= Allowance[g.baud]
    BY <2>6, <2>7, <2>13
  <2>16. OutputInv(gps)'
    <3> HIDE DEF e
    <3> QED
      BY <1>4, <2>1, <2>5, <2>8, <2>10, <2>12, <2>14, <2>15, <2>15a DEF OutputInv
  <2> QED
    BY <1>2, <1>4, <1>9, <2>1, <2>12, <2>14, <2>16 DEF GpsInv
<1> QED
  BY <1>15, <1>16

(* The read, of at most what the UART still carries this second.           *)
LEMMA ReadKeeps ==
  ASSUME GpsInv, NEW size \in Nat, Read(size)
  PROVE  GpsInv'
<1> DEFINE g == Synced(gps)
           len == Readable(g, size)
           rest == SubSeq(g.buffer, len + 1, Len(g.buffer))
<1>1. gps # None /\ OutputInv(gps) /\ ReceiverOK(gps)
  BY DEF Read, GpsCall, GpsInv, OutputInv
<1>2. /\ epochs \in Nat /\ discarded \in 0 .. epochs /\ uptime \in Nat
      /\ got \in Seq(OutByte) /\ InOrder(got) /\ Gapless(got) /\ UpTo(got, epochs)
  BY DEF GpsInv
<1>3. /\ Record(Drained(g, len)) /\ got' = got \o SubSeq(g.buffer, 1, len)
      /\ epochs' = epochs
  BY DEF Read
<1>4. /\ ReceiverOK(g) /\ g.output = gps.enabled /\ g.baud = gps.baud
      /\ gps.output = gps.enabled => g = gps
      /\ gps.output # gps.enabled => g.buffer = << >> /\ g.elapsed = 0 /\ g.allowance = 0
  BY <1>1, SyncedKeeps
<1> HIDE DEF g
<1>5. /\ g.output \in BOOLEAN /\ g.buffer \in Seq(OutByte) /\ g.allowance \in Nat
      /\ Len(g.buffer) \in Nat /\ g.baud \in Bauds
  BY <1>4 DEF ReceiverOK
<1>6. len \in Nat /\ len <= Len(g.buffer) /\ len <= g.allowance
  <2>1. CASE ~g.output
    BY <2>1, <1>5 DEF Readable
  <2>2. CASE g.output
    <3> DEFINE S == {Len(g.buffer), size, g.allowance}
    <3>1. S \subseteq Nat
      BY <1>5
    <3>2. len = Min(S)
      BY <2>2 DEF Readable
    <3>3. \E x \in S : \A y \in S : x <= y
      BY <1>5
    <3>4. Min(S) \in S /\ \A y \in S : Min(S) <= y
      <4> HIDE DEF S
      <4> QED
        BY <3>3 DEF Min
    <3> QED
      BY <3>1, <3>2, <3>4
  <2> QED
    BY <2>1, <2>2, <1>5
<1> HIDE DEF len
<1>7. rest \in Seq(OutByte)
  BY <1>5, <1>6, SubSeqProperties
<1> HIDE DEF rest
<1>8. /\ ReceiverOK(Drained(g, len))
      /\ Drained(g, len).output = g.output /\ Drained(g, len).baud = g.baud
      /\ Drained(g, len).buffer = rest /\ Drained(g, len).elapsed = g.elapsed
      /\ Drained(g, len).allowance = g.allowance - len
  <2>1. Drained(g, len) = [g EXCEPT !.buffer = rest, !.allowance = g.allowance - len]
    BY DEF Drained, rest
  <2>2. g.allowance - len \in Nat
    BY <1>5, <1>6
  <2> QED
    BY <1>4, <1>7, <2>1, <2>2 DEF ReceiverOK
<1>9. gps' = Drained(g, len)
  BY <1>3 DEF Record
<1>10. CASE gps.output # gps.enabled
  <2>1. len = 0 /\ SubSeq(g.buffer, 1, len) = << >> /\ rest = << >>
    BY <1>4, <1>5, <1>6, <1>10, SubSeqEmpty DEF rest
  <2>2. got' = got
    BY <2>1, <1>2, <1>3, ConcatEmptySeq
  <2>3. discarded' = epochs /\ uptime' = 0
    BY <1>3, <1>4, <1>8, <1>10 DEF Record, Restarts
  <2> QED
    BY <1>3, <1>4, <1>8, <1>9, <1>10, <2>1, <2>2, <2>3, FreshOutput
<1>11. CASE gps.output = gps.enabled
  <2>1. g = gps
    BY <1>4, <1>11
  <2>2. UNCHANGED <<discarded, uptime>>
    BY <1>3, <1>8, <2>1 DEF Record, Restarts
  <2>3. /\ Run(g.buffer, epochs) /\ Continues(got, g.buffer, epochs)
        /\ ~g.output => g.buffer = << >>
        /\ g.buffer # << >> => epochs > discarded
        /\ g.output => g.elapsed = uptime % Epoch
        /\ uptime < Epoch => g.buffer = << >>
    BY <1>1, <2>1 DEF OutputInv
  <2>4. Divided(got, g.buffer, len, got', rest)
    <3>1. len \in 0 .. Len(g.buffer)
      BY <1>5, <1>6
    <3> QED
      BY <3>1, <1>2, <1>3, <1>5, ReadPlaces DEF rest
  <2>5. /\ Ordered(got', rest, epochs)
        /\ Cardinality(OfEpoch(got', epochs)) <= Cardinality(OfEpoch(got, epochs)) + len
        /\ Cardinality(OfEpoch(got', epochs)) \in Nat
        /\ Cardinality(OfEpoch(got, epochs)) \in Nat
    <3>1. Ordered(got, g.buffer, epochs)
      BY <1>2, <2>3 DEF Ordered
    <3> QED
      BY <3>1, <1>2, <2>4, ReadContinues
  <2>6. /\ g.buffer = << >> => rest = << >>
        /\ got' \in Seq(OutByte)
    BY <1>5, <1>6, <1>7, <2>4 DEF Divided
  <2>7. epochs > discarded =>
          Cardinality(OfEpoch(got', epochs)) + (g.allowance - len) <= Allowance[g.baud]
    <3>1. epochs > discarded =>
            Cardinality(OfEpoch(got, epochs)) + g.allowance <= Allowance[g.baud]
      BY <1>1, <2>1 DEF OutputInv
    <3>2. Allowance[g.baud] \in Nat
      BY <1>5, GpsAssumption
    <3> QED
      BY <3>1, <3>2, <2>5, <1>5, <1>6
  <2>8. OutputInv(gps)'
    BY <1>3, <1>8, <1>9, <2>2, <2>3, <2>5, <2>6, <2>7 DEF OutputInv, Ordered
  <2> QED
    BY <1>2, <1>3, <2>2, <2>5, <2>6, <2>8 DEF GpsInv, Ordered
<1> QED
  BY <1>10, <1>11

(* Every call on the receiver keeps the invariant. *)
LEMMA GpsStep ==
  ASSUME GpsInv, GpsNext
  PROVE  GpsInv'
<1>1. \A size \in {1, 2 * SentenceBytes, 20 * SentenceBytes} : size \in Nat
  BY GpsAssumption
<1> QED
  BY <1>1, MovementCalls, SettingCalls, TickKeeps, ReadKeeps DEF GpsNext

(* The invariant of the receiver. *)
THEOREM GpsInvariant == GpsSpec => []GpsInv
<1>1. GpsInit => GpsInv
  <2> SUFFICES ASSUME GpsInit
               PROVE  GpsInv
    OBVIOUS
  <2>1. /\ epochs = 0 /\ discarded = 0 /\ uptime = 0 /\ got = << >> /\ gps = None
    BY DEF GpsInit
  <2> QED
    BY <2>1 DEF GpsInv, InOrder, Gapless, UpTo
<1>2. GpsInv /\ UNCHANGED gpsVars => GpsInv'
  BY DEF GpsInv, OutputInv, gpsVars
<1>3. GpsInv /\ [GpsNext \/ (BoardNext /\ UNCHANGED gpsVars)]_<<boardVars, gpsVars>> => GpsInv'
  BY <1>2, GpsStep
<1> QED
  BY <1>1, <1>3, PTL DEF GpsSpec

(* However firmware cuts its reads, and whatever restarts, switches and    *)
(* baud rates come in between, it reads each epoch from its beginning,     *)
(* without a gap and without a byte twice, never a byte of an epoch from   *)
(* before a restart, and no more in a second than the UART carries.        *)
THEOREM ReadsArePrefixes == GpsSpec => []EpochsArePrefixes
<1>1. GpsInv => EpochsArePrefixes
  <2> SUFFICES ASSUME GpsInv
               PROVE  EpochsArePrefixes
    OBVIOUS
  <2>1. \A k \in DOMAIN got :
          got[k].n > 1 => k > 1 /\ got[k - 1] = Byte(got[k].epoch, got[k].n - 1)
    BY DEF GpsInv, Gapless
  <2>2. ASSUME NEW j \in DOMAIN got, NEW k \in DOMAIN got, j < k
        PROVE  got[j].epoch <= got[k].epoch /\ got[j] # got[k]
    <3>1. got[j] \in OutByte /\ got[k] \in OutByte
      BY DEF GpsInv
    <3>2. got[j].epoch < got[k].epoch \/ (got[j].epoch = got[k].epoch /\ got[j].n < got[k].n)
      BY <2>2 DEF GpsInv, InOrder
    <3> QED
      BY <3>1, <3>2, OutByteFields
  <2>3. ASSUME gps # None
        PROVE  /\ \A k \in DOMAIN gps.buffer : gps.buffer[k].epoch = epochs
               /\ gps.buffer # << >> => epochs > discarded
               /\ epochs > discarded =>
                    Cardinality({k \in DOMAIN got : got[k].epoch = epochs}) + gps.allowance
                      <= Allowance[gps.baud]
               /\ gps.output => gps.elapsed = uptime % Epoch
               /\ uptime < Epoch => gps.buffer = << >>
    <3>1. OutputInv(gps)
      BY <2>3 DEF GpsInv
    <3>2. ASSUME NEW k \in DOMAIN gps.buffer
          PROVE  gps.buffer[k].epoch = epochs
      <4>1. gps.buffer[k] = Byte(epochs, gps.buffer[1].n + k - 1)
        BY <3>1 DEF OutputInv, Run
      <4> QED
        BY <4>1 DEF Byte
    <3> QED
      BY <3>1, <3>2 DEF OutputInv, OfEpoch
  <2>4. RestartIsFresh
    <3> SUFFICES ASSUME gps # None, NEW k \in DOMAIN gps.buffer
                 PROVE  gps.buffer[k].epoch > discarded
      BY <2>3 DEF RestartIsFresh
    <3>1. gps.buffer # << >>
      OBVIOUS
    <3> QED
      BY <3>1, <2>3
  <2> QED
    BY <2>1, <2>2, <2>3, <2>4 DEF EpochsArePrefixes
<1> QED
  BY <1>1, GpsInvariant, PTL

(* The receiver leaves the boards alone: whatever holds of the boards      *)
(* holds of them beside a receiver.                                        *)
THEOREM ReceiverKeepsBoards == GpsSpec => BoardSpec
<1>1. GpsNext => UNCHANGED boardVars
  BY DEF GpsNext, GpsCreate, SetPosition, GpsDestroy, SetStatic, SetLinear, SetWaypoints,
         SetGpxReplayXml, SetSamples, SetSatellites, SetEnabled, ManagerSetEnabled, SetBaudRate,
         Tick, Read, GpsCall
<1>2. [GpsNext \/ (BoardNext /\ UNCHANGED gpsVars)]_<<boardVars, gpsVars>>
        => [BoardNext]_boardVars
  BY <1>1
<1> QED
  BY <1>2, PTL DEF GpsSpec, BoardSpec

-----------------------------------------------------------------------------
(* The converter.  There is no induction theorem to cite; where one would  *)
(* go over lengths of intervals there is a least length that fails.        *)

(* A set of natural numbers has a least one. *)
LEMMA LeastNatural ==
  ASSUME NEW S \in SUBSET Nat, S # {}
  PROVE  \E m \in S : \A n \in S : m <= n
<1>1. ASSUME NEW R, IsWellFoundedOn(R, Nat), \A m, n \in Nat : n < m => <<n, m>> \in R
      PROVE  \E m \in S : \A n \in S : m <= n
  <2>1. PICK m \in S : \A n \in S : <<n, m>> \notin R
    BY <1>1, WFMin, Zenon
  <2>2. ASSUME NEW n \in S
        PROVE  m <= n
    <3>1. m \in Nat /\ n \in Nat
      OBVIOUS
    <3>2. ~(n < m)
      BY <1>1, <2>1, <3>1, Zenon
    <3> QED BY <3>1, <3>2
  <2> QED BY <2>2
<1>2. \A m, n \in Nat : n < m => <<n, m>> \in OpToRel(<, Nat)
  BY DEF OpToRel
<1> QED BY <1>1, <1>2, NatLessThanWellFounded, Zenon

(* The bisection of an interval, where f is what it answers for shorter    *)
(* ones.                                                                   *)
Halved(f, mv, i) ==
  IF i[1] + 1 >= i[2]
  THEN IF Distance(Curve[i[1] + 1], mv) <= Distance(Curve[i[2] + 1], mv) THEN i[1] ELSE i[2]
  ELSE IF Curve[Middle(i) + 1] < mv THEN f[<<Middle(i), i[2]>>] ELSE f[<<i[1], Middle(i)>>]
Bisects(f, mv) == f = [i \in Intervals |-> Halved(f, mv, i)]

(* The middle of an interval that is not yet minimal is inside it. *)
LEMMA MiddleIsInside ==
  ASSUME NEW i \in Intervals, i[1] + 1 < i[2]
  PROVE  /\ Middle(i) \in Counts /\ i[1] < Middle(i) /\ Middle(i) < i[2]
         /\ <<Middle(i), i[2]>> \in Intervals /\ <<i[1], Middle(i)>> \in Intervals
<1>1. MaxCount \in Nat /\ i[1] \in Counts /\ i[2] \in Counts
  BY BoardAssumption DEF Intervals, MaxCount
<1>2. i[1] \in 0 .. MaxCount /\ i[2] \in 0 .. MaxCount
  BY <1>1 DEF Counts
<1>3. Middle(i) \in Int /\ i[1] < Middle(i) /\ Middle(i) < i[2]
  BY <1>1, <1>2 DEF Middle
<1>4. Middle(i) \in Counts
  BY <1>1, <1>2, <1>3 DEF Counts
<1> QED BY <1>1, <1>3, <1>4 DEF Intervals

(* What the definition of Bisect chooses is such a bisection. *)
LEMMA BisectIsHalved ==
  ASSUME NEW mv, NEW f, Bisects(f, mv)
  PROVE  \E g : Bisects(g, mv) /\ Bisect(mv) = g[<<0, MaxCount>>]
<1> DEFINE g == CHOOSE h : Bisects(h, mv)
<1>1. Bisects(g, mv)
  BY Zenon
<1>2. Bisect(mv) = g[<<0, MaxCount>>]
  BY DEF Bisect, Bisects, Halved
<1> HIDE DEF g
<1> QED BY <1>1, <1>2

(* Intervals up to a length have a bisection: the shortest ones outright,  *)
(* and each longer one by those of its halves.                             *)
BisectsUpTo(f, mv, n) ==
  \A i \in Intervals : i[2] - i[1] <= n => f[i] = Halved(f, mv, i)

(* The bisection of an interval looks at shorter ones only. *)
LEMMA HalvedAlike ==
  ASSUME NEW mv, NEW n \in Nat, NEW f, NEW g,
         \A i \in Intervals : i[2] - i[1] <= n => f[i] = g[i],
         NEW i \in Intervals, i[2] - i[1] <= n + 1
  PROVE  Halved(f, mv, i) = Halved(g, mv, i)
<1>1. CASE i[1] + 1 >= i[2]
  BY <1>1 DEF Halved
<1>2. CASE ~(i[1] + 1 >= i[2])
  <2>1. i[1] \in Int /\ i[2] \in Int
    BY BoardAssumption DEF Intervals, Counts, MaxCount
  <2>2. i[1] + 1 < i[2]
    BY <1>2, <2>1
  <2> DEFINE a == <<Middle(i), i[2]>>
             b == <<i[1], Middle(i)>>
  <2>3. a \in Intervals /\ b \in Intervals /\ i[1] < Middle(i) /\ Middle(i) < i[2] /\ Middle(i) \in Counts
    BY <2>2, MiddleIsInside
  <2>4. Middle(i) \in Int
    BY <2>3 DEF Counts
  <2>5. i[2] - Middle(i) <= n /\ Middle(i) - i[1] <= n
    BY <2>1, <2>3, <2>4
  <2>6. f[a] = g[a] /\ f[b] = g[b]
    BY <2>3, <2>5
  <2> QED BY <1>2, <2>6 DEF Halved
<1> QED BY <1>1, <1>2

(* So there is a bisection of all intervals. *)
LEMMA BisectionsExist ==
  ASSUME NEW mv
  PROVE  \E f : Bisects(f, mv)
<1> DEFINE Undone == {n \in Nat : ~\E f : BisectsUpTo(f, mv, n)}
<1>1. Undone = {}
  <2> SUFFICES ASSUME Undone # {}
               PROVE  FALSE
    OBVIOUS
  <2>1. PICK n \in Undone : \A m \in Undone : n <= m
    BY LeastNatural
  <2>2. n \in Nat /\ ~\E f : BisectsUpTo(f, mv, n)
    BY <2>1
  <2>3. CASE n = 0
    <3> DEFINE f == [i \in Intervals |-> Halved(<< >>, mv, i)]
    <3>1. ASSUME NEW i \in Intervals, i[2] - i[1] <= 0
          PROVE  f[i] = Halved(f, mv, i)
      <4>1. i[1] \in Int /\ i[2] \in Int
        BY BoardAssumption DEF Intervals, Counts, MaxCount
      <4>2. i[1] + 1 >= i[2]
        BY <3>1, <4>1
      <4>3. f[i] = Halved(<< >>, mv, i)
        OBVIOUS
      <4> HIDE DEF f
      <4> QED BY <4>2, <4>3 DEF Halved
    <3> HIDE DEF f
    <3> QED BY <2>2, <2>3, <3>1 DEF BisectsUpTo
  <2>4. CASE n # 0
    <3>1. n - 1 \in Nat /\ n - 1 \notin Undone
      BY <2>1, <2>2, <2>4
    <3>2. PICK f : BisectsUpTo(f, mv, n - 1)
      BY <3>1
    <3> DEFINE g == [i \in Intervals |-> Halved(f, mv, i)]
    <3>3. \A i \in Intervals : g[i] = Halved(f, mv, i)
      OBVIOUS
    <3> HIDE DEF g
    <3>4. \A i \in Intervals : i[2] - i[1] <= n - 1 => f[i] = g[i]
      BY <3>2, <3>3 DEF BisectsUpTo
    <3>5. (n - 1) + 1 = n
      BY <2>2
    <3>6. ASSUME NEW i \in Intervals, i[2] - i[1] <= n
          PROVE  g[i] = Halved(g, mv, i)
      <4>1. Halved(f, mv, i) = Halved(g, mv, i)
        BY <3>1, <3>4, <3>5, <3>6, HalvedAlike
      <4> QED BY <3>3, <4>1
    <3> QED BY <2>2, <3>6 DEF BisectsUpTo
  <2> QED BY <2>3, <2>4
<1>2. MaxCount \in Nat
  BY BoardAssumption DEF MaxCount
<1>3. PICK f : BisectsUpTo(f, mv, MaxCount)
  BY <1>1, <1>2
<1>4. \A i \in Intervals : i[2] - i[1] <= MaxCount
  BY <1>2 DEF Intervals, Counts
<1> DEFINE g == [i \in Intervals |-> Halved(f, mv, i)]
<1>5. \A i \in Intervals : g[i] = Halved(f, mv, i)
  OBVIOUS
<1>6. \A i \in Intervals : f[i] = g[i]
  BY <1>3, <1>4, <1>5 DEF BisectsUpTo
<1>7. \A i \in Intervals : Halved(f, mv, i) = Halved(g, mv, i)
  <2> TAKE i \in Intervals
  <2>1. i[2] - i[1] <= MaxCount + 1
    BY <1>2, <1>4 DEF Intervals, Counts
  <2> HIDE DEF g
  <2> QED BY <1>2, <1>6, <2>1, HalvedAlike
<1>8. Bisects(g, mv)
  BY <1>7 DEF Bisects
<1> HIDE DEF g
<1> QED BY <1>8

(* The curve rises from count to count. *)
LEMMA CurveRises ==
  ASSUME NEW c \in Counts, NEW d \in Counts, c <= d
  PROVE  Curve[c + 1] <= Curve[d + 1]
<1>1. MaxCount \in Nat /\ Len(Curve) = MaxCount + 1 /\ \A k \in Counts : Curve[k + 1] \in Nat
  BY BoardAssumption DEF MaxCount, Counts
<1> DEFINE Falls == {n \in Nat : c + n \in Counts /\ ~(Curve[c + 1] <= Curve[(c + n) + 1])}
<1>2. Falls = {}
  <2> SUFFICES ASSUME Falls # {}
               PROVE  FALSE
    OBVIOUS
  <2>1. PICK n \in Falls : \A m \in Falls : n <= m
    BY LeastNatural
  <2>2. n \in Nat /\ c + n \in Counts /\ ~(Curve[c + 1] <= Curve[(c + n) + 1]) /\ c \in Nat
    BY <2>1, <1>1 DEF Counts
  <2>3. n # 0
    <3>1. n = 0 => c + n = c
      BY <2>2
    <3> QED BY <2>2, <3>1, <1>1
  <2>4. n - 1 \in Nat /\ n - 1 \notin Falls
    BY <2>1, <2>2, <2>3
  <2>5. c + (n - 1) \in Counts /\ c + n \in Counts \ {0} /\ (c + (n - 1)) + 1 = c + n
    BY <1>1, <2>2, <2>3 DEF Counts
  <2>6. Curve[c + 1] <= Curve[(c + (n - 1)) + 1]
    BY <2>4, <2>5
  <2>7. Curve[c + n] < Curve[(c + n) + 1]
    BY <2>5, BoardAssumption
  <2> QED BY SMTT(30), <1>1, <2>2, <2>5, <2>6, <2>7
<1>3. d - c \in Nat /\ c + (d - c) = d
  BY <1>1 DEF Counts
<1> QED BY <1>2, <1>3

(* A count at least as near as any other. *)
Nearest(c, mv) ==
  c \in Counts /\ \A d \in Counts : Distance(Curve[c + 1], mv) <= Distance(Curve[d + 1], mv)

(* An interval around a voltage narrows to the nearest count. *)
LEMMA BisectionIsNearest ==
  ASSUME NEW mv \in Nat, NEW f, Bisects(f, mv),
         NEW i \in Intervals, i[1] < i[2], Curve[i[1] + 1] < mv, mv <= Curve[i[2] + 1]
  PROVE  Nearest(f[i], mv)
<1> DEFINE Around(j) == j[1] < j[2] /\ Curve[j[1] + 1] < mv /\ mv <= Curve[j[2] + 1]
           Wrong == {n \in Nat : \E j \in Intervals : j[2] - j[1] = n /\ Around(j) /\ ~Nearest(f[j], mv)}
<1>1. \A j \in Intervals : f[j] = Halved(f, mv, j)
  BY DEF Bisects
<1>2. \A j \in Intervals : j[1] \in Int /\ j[2] \in Int /\ j[1] \in Counts /\ j[2] \in Counts
  BY BoardAssumption DEF Intervals, Counts, MaxCount
<1>3. \A k \in Counts : Curve[k + 1] \in Nat /\ k \in Int
  BY SMTT(30), BoardAssumption DEF MaxCount, Counts
<1>4. Wrong = {}
  <2> SUFFICES ASSUME Wrong # {}
               PROVE  FALSE
    OBVIOUS
  <2>1. PICK n \in Wrong : \A m \in Wrong : n <= m
    BY LeastNatural
  <2>2. PICK j \in Intervals : j[2] - j[1] = n /\ Around(j) /\ ~Nearest(f[j], mv)
    BY <2>1
  <2>3. CASE j[1] + 1 >= j[2]
    <3>1. j[1] + 1 = j[2]
      BY <1>2, <2>2, <2>3
    <3>2. f[j] = IF Distance(Curve[j[1] + 1], mv) <= Distance(Curve[j[2] + 1], mv) THEN j[1] ELSE j[2]
      BY <1>1, <2>3 DEF Halved
    <3>3. f[j] \in Counts
      BY <1>2, <3>2
    <3>4. ASSUME NEW d \in Counts
          PROVE  Distance(Curve[f[j] + 1], mv) <= Distance(Curve[d + 1], mv)
      <4>1. /\ Curve[j[1] + 1] \in Nat /\ Curve[j[2] + 1] \in Nat /\ Curve[d + 1] \in Nat
            /\ Curve[j[1] + 1] < mv /\ mv <= Curve[j[2] + 1]
        BY <1>2, <1>3, <2>2
      <4>2. Curve[d + 1] <= Curve[j[1] + 1] \/ Curve[j[2] + 1] <= Curve[d + 1]
        <5>1. d <= j[1] \/ j[2] <= d
          BY <1>2, <1>3, <3>1
        <5> QED BY <5>1, <1>2, CurveRises
      <4> QED BY <3>2, <4>1, <4>2 DEF Distance
    <3> QED BY <2>2, <3>3, <3>4 DEF Nearest
  <2>4. CASE ~(j[1] + 1 >= j[2])
    <3>1. j[1] + 1 < j[2]
      BY <1>2, <2>4
    <3> DEFINE a == <<Middle(j), j[2]>>
               b == <<j[1], Middle(j)>>
    <3>2. /\ a \in Intervals /\ b \in Intervals /\ Middle(j) \in Counts
          /\ j[1] < Middle(j) /\ Middle(j) < j[2]
      BY <3>1, MiddleIsInside
    <3>3. Curve[Middle(j) + 1] \in Nat /\ Middle(j) \in Int
      BY <1>3, <3>2
    <3>4. a[1] = Middle(j) /\ a[2] = j[2] /\ b[1] = j[1] /\ b[2] = Middle(j)
      OBVIOUS
    <3> HIDE DEF a, b
    <3>5. CASE Curve[Middle(j) + 1] < mv
      <4>1. f[j] = f[a]
        BY <1>1, <2>4, <3>5 DEF Halved, a
      <4>2. Around(a)
        BY <2>2, <3>2, <3>4, <3>5
      <4>3. a[2] - a[1] \in Nat /\ a[2] - a[1] < n
        BY <1>2, <2>2, <3>2, <3>3, <3>4
      <4>4. a[2] - a[1] \in Wrong
        BY <2>2, <3>2, <4>1, <4>2, <4>3
      <4> QED BY <2>1, <4>3, <4>4
    <3>6. CASE ~(Curve[Middle(j) + 1] < mv)
      <4>1. f[j] = f[b]
        BY <1>1, <2>4, <3>6 DEF Halved, b
      <4>2. Around(b)
        BY <2>2, <3>2, <3>3, <3>4, <3>6
      <4>3. b[2] - b[1] \in Nat /\ b[2] - b[1] < n
        BY <1>2, <2>2, <3>2, <3>3, <3>4
      <4>4. b[2] - b[1] \in Wrong
        BY <2>2, <3>2, <4>1, <4>2, <4>3
      <4> QED BY <2>1, <4>3, <4>4
    <3> QED BY <3>5, <3>6
  <2> QED BY <2>3, <2>4
<1>5. i[2] - i[1] \in Nat
  BY <1>2
<1> QED BY <1>4, <1>5

(* The raw count is the nearest, below and above the curve too. *)
LEMMA RawCountIsNearest ==
  ASSUME NEW mv \in Nat
  PROVE  Nearest(RawCount(mv), mv)
<1>1. MaxCount \in Nat /\ 0 \in Counts /\ MaxCount \in Counts /\ 0 < MaxCount /\ Curve[0 + 1] = 0
  BY BoardAssumption DEF MaxCount, Counts
<1>2. \A k \in Counts : Curve[k + 1] \in Nat /\ k \in Int /\ 0 <= k /\ k <= MaxCount
  BY BoardAssumption DEF MaxCount, Counts
<1>3. CASE mv <= 0
  <2>1. RawCount(mv) = 0 /\ mv = 0
    BY <1>3 DEF RawCount
  <2>2. \A d \in Counts : Distance(Curve[0 + 1], mv) <= Distance(Curve[d + 1], mv)
    BY <1>1, <1>2, <2>1 DEF Distance
  <2> QED BY <1>1, <2>1, <2>2 DEF Nearest
<1>4. CASE ~(mv <= 0) /\ Saturated(mv)
  <2>1. RawCount(mv) = MaxCount /\ mv >= Curve[MaxCount + 1]
    BY <1>4 DEF RawCount, Saturated
  <2>2. ASSUME NEW d \in Counts
        PROVE  Distance(Curve[MaxCount + 1], mv) <= Distance(Curve[d + 1], mv)
    <3>1. Curve[d + 1] <= Curve[MaxCount + 1]
      BY <1>1, <1>2, CurveRises
    <3>2. Curve[d + 1] \in Nat /\ Curve[MaxCount + 1] \in Nat
      BY <1>1, <1>2
    <3> QED BY <2>1, <3>1, <3>2 DEF Distance
  <2> QED BY <1>1, <2>1, <2>2 DEF Nearest
<1>5. CASE ~(mv <= 0) /\ ~Saturated(mv)
  <2>1. RawCount(mv) = Bisect(mv)
    BY <1>5 DEF RawCount
  <2>2. PICK f : Bisects(f, mv) /\ Bisect(mv) = f[<<0, MaxCount>>]
    BY BisectionsExist, BisectIsHalved
  <2> DEFINE i == <<0, MaxCount>>
  <2>3. i \in Intervals /\ i[1] = 0 /\ i[2] = MaxCount
    BY <1>1 DEF Intervals
  <2>4. Curve[MaxCount + 1] \in Nat /\ mv <= Curve[MaxCount + 1]
    BY <1>1, <1>2, <1>5 DEF Saturated
  <2> HIDE DEF i
  <2>5. i[1] < i[2] /\ Curve[i[1] + 1] < mv /\ mv <= Curve[i[2] + 1]
    BY <1>1, <1>5, <2>3, <2>4
  <2>6. Nearest(f[i], mv)
    BY <2>2, <2>3, <2>5, BisectionIsNearest
  <2> QED BY <2>1, <2>2, <2>6 DEF i
<1> QED BY <1>3, <1>4, <1>5

(* Rounding to units is off by half a unit at most. *)
LEMMA RoundedIsNear ==
  ASSUME NEW x \in Nat, NEW unit \in Nat \ {0}
  PROVE  /\ Rounded(x, unit) \in Nat
         /\ 2 * Distance(Rounded(x, unit) * unit, x) <= unit
<1> DEFINE q == Rounded(x, unit)
           p == q * unit
           e == 2 * unit
           a == 2 * x + unit
<1>1. e \in Nat \ {0} /\ a \in Nat /\ q = a \div e
  BY DEF Rounded
<1>2. q \in Nat /\ (a % e) \in 0 .. e - 1 /\ a = e * q + (a % e)
  <2> HIDE DEF e, a, q
  <2> QED BY <1>1
<1>3. e * q = 2 * p /\ p \in Nat
  <2> HIDE DEF q
  <2> QED BY <1>2
<1>4. 2 * p <= 2 * x + unit /\ 2 * x + unit < 2 * p + 2 * unit
  <2> DEFINE r == a % e
  <2>1. r \in 0 .. 2 * unit - 1 /\ 2 * x + unit = 2 * p + r
    BY <1>2, <1>3
  <2> HIDE DEF r, p
  <2> QED BY <2>1, <1>3
<1>5. 2 * Distance(p, x) <= unit
  <2> HIDE DEF p
  <2> QED BY <1>3, <1>4 DEF Distance
<1> QED BY <1>2, <1>5

(* The least error is that of a nearest count. *)
LEMMA LeastError ==
  ASSUME NEW mv \in Nat, NEW c, Nearest(c, mv)
  PROVE  Min({Distance(Curve[d + 1], mv) : d \in Counts}) = Distance(Curve[c + 1], mv)
<1> DEFINE S == {Distance(Curve[d + 1], mv) : d \in Counts}
           x == Distance(Curve[c + 1], mv)
<1>1. \A d \in Counts : Curve[d + 1] \in Nat
  BY BoardAssumption DEF MaxCount, Counts
<1>2. x \in S /\ \A y \in S : x <= y
  BY DEF Nearest
<1>3. S \subseteq Int
  BY <1>1 DEF Distance
<1>4. \A y \in S : (\A z \in S : y <= z) => y = x
  <2> HIDE DEF S, x
  <2> QED BY <1>2, <1>3
<1> HIDE DEF S, x
<1>5. Min(S) = x
  BY <1>2, <1>4 DEF Min
<1> QED BY <1>5 DEF S, x

(* The raw count is the one whose voltage is nearest to the battery's, for *)
(* every rising curve, and the calibrated count names the battery's        *)
(* voltage to within that error and half a count (lib.rs:54).              *)
THEOREM AdcReadsTheNearest == BoardSpec => []AdcIsNearest
<1>1. BoardInv => AdcIsNearest
  <2> SUFFICES ASSUME BoardInv, NEW h \in Live
               PROVE  LET mv == boards[h].battery
                          Error(c) == Distance(Curve[c + 1], mv)
                          best == Min({Error(c) : c \in Counts})
                          adc == GetAdc(boards[h], OtherPin)
                      IN  /\ ~boards[h].calibrated => Error(adc) = best
                          /\ boards[h].calibrated /\ ~Saturated(mv) /\ adc < MaxCount
                               => 2 * Distance(adc * MvPerCount, mv) <= 2 * best + MvPerCount
    BY DEF AdcIsNearest
  <2> DEFINE mv == boards[h].battery
             raw == RawCount(mv)
             x == Curve[raw + 1]
             best == Min({Distance(Curve[c + 1], mv) : c \in Counts})
             adc == GetAdc(boards[h], OtherPin)
  <2>1. mv \in Nat
    BY BoardOf DEF VirtualBoard
  <2>2. Nearest(raw, mv) /\ best = Distance(x, mv)
    BY <2>1, RawCountIsNearest, LeastError
  <2>3. x \in Nat
    BY <2>2, BoardAssumption DEF Nearest, MaxCount, Counts
  <2>4. ~boards[h].calibrated => adc = raw
    BY DEF GetAdc
  <2>5. boards[h].calibrated /\ ~Saturated(mv) => adc = Min({Rounded(x, MvPerCount), MaxCount})
    BY DEF GetAdc
  <2> DEFINE near == Rounded(x, MvPerCount)
  <2>6. near \in Nat /\ 2 * Distance(near * MvPerCount, x) <= MvPerCount /\ MvPerCount \in Nat
    BY <2>3, RoundedIsNear, BoardAssumption
  <2>7. MaxCount \in Nat
    BY BoardAssumption DEF MaxCount
  <2>8. ASSUME boards[h].calibrated, ~Saturated(mv), adc < MaxCount
        PROVE  2 * Distance(adc * MvPerCount, mv) <= 2 * best + MvPerCount
    <3>1. adc = near
      BY <2>5, <2>6, <2>7, <2>8, MinOfTwo
    <3> DEFINE p == near * MvPerCount
    <3>2. p \in Nat
      BY <2>6
    <3>3. 2 * Distance(p, x) <= MvPerCount
      BY <2>6
    <3> HIDE DEF p, x, mv, near, best
    <3>4. 2 * Distance(p, mv) <= 2 * Distance(x, mv) + MvPerCount
      BY <2>1, <2>3, <2>6, <3>2, <3>3 DEF Distance
    <3> QED BY <2>2, <3>1, <3>4 DEF p
  <2>9. ~boards[h].calibrated => Distance(Curve[adc + 1], mv) = best
    BY <2>2, <2>4
  <2> HIDE DEF adc, best, mv
  <2> QED BY <2>8, <2>9 DEF adc, best, mv
<1> QED BY <1>1, BoardInvariant, PTL

-----------------------------------------------------------------------------
(* The movement.  The recursions of the walk and of the replay come down   *)
(* to the end of the track, so there are functions that satisfy them; and  *)
(* a leg or an interval at a time they keep what is said here of the time. *)

(* A function that goes on from one argument to the next until one of the  *)
(* Ends, and an argument that comes down on the way.                       *)
GoesOn(f, Ends, value, next, s) == IF s \in Ends THEN value[s] ELSE f[next[s]]
HasRecursion(D, Ends, value, next) == \E f : \A s \in D : f[s] = GoesOn(f, Ends, value, next, s)
ComesDown(D, Ends, next, rank, last) ==
  /\ \A s \in D : rank[s] \in 0 .. last
  /\ \A s \in D \ Ends : next[s] \in D /\ rank[next[s]] < rank[s]

(* There is such a function. *)
LEMMA RecursionEnds ==
  ASSUME NEW D, NEW Ends, NEW value, NEW next, NEW rank, NEW last \in Nat,
         ComesDown(D, Ends, next, rank, last)
  PROVE  HasRecursion(D, Ends, value, next)
<1> DEFINE Upto(f, n) == \A s \in D : rank[s] <= n => f[s] = GoesOn(f, Ends, value, next, s)
           Undone == {n \in Nat : ~\E f : Upto(f, n)}
<1>0. /\ \A s \in D : rank[s] \in 0 .. last
      /\ \A s \in D \ Ends : next[s] \in D /\ rank[next[s]] < rank[s]
  BY DEF ComesDown
<1>1. Undone = {}
  <2> SUFFICES ASSUME Undone # {}
               PROVE  FALSE
    OBVIOUS
  <2>1. PICK n \in Undone : \A k \in Undone : n <= k
    BY LeastNatural
  <2>2. n \in Nat /\ ~\E f : Upto(f, n)
    BY <2>1
  <2>3. PICK f : \A k \in Nat : k + 1 = n => Upto(f, k)
    <3>1. CASE n = 0
      BY <3>1
    <3>2. CASE n # 0
      <4>1. n - 1 \in Nat /\ n - 1 \notin Undone
        BY <2>1, <2>2, <3>2
      <4>2. PICK f : Upto(f, n - 1)
        BY <4>1
      <4>3. \A k \in Nat : k + 1 = n => k = n - 1
        BY <2>2
      <4> HIDE DEF Upto
      <4> QED BY <4>2, <4>3
    <3> QED BY <3>1, <3>2
  <2> DEFINE g == [s \in D |-> GoesOn(f, Ends, value, next, s)]
  <2>4. \A s \in D : g[s] = GoesOn(f, Ends, value, next, s)
    OBVIOUS
  <2> HIDE DEF g
  <2>5. ASSUME NEW s \in D, rank[s] <= n
        PROVE  g[s] = GoesOn(g, Ends, value, next, s)
    <3>1. CASE s \in Ends
      BY <2>4, <3>1 DEF GoesOn
    <3>2. CASE s \notin Ends
      <4>1. next[s] \in D /\ rank[next[s]] \in Nat /\ rank[s] \in Nat /\ rank[next[s]] < rank[s]
        BY <1>0, <3>2
      <4>2. n - 1 \in Nat /\ (n - 1) + 1 = n /\ rank[next[s]] <= n - 1
        BY <4>1, <2>2, <2>5
      <4>3. f[next[s]] = g[next[s]]
        BY <4>1, <4>2, <2>3, <2>4
      <4>4. g[s] = f[next[s]]
        BY <2>4, <3>2 DEF GoesOn
      <4> QED BY <3>2, <4>3, <4>4 DEF GoesOn
    <3> QED BY <3>1, <3>2
  <2>6. Upto(g, n)
    BY <2>5
  <2> QED BY <2>2, <2>6
<1>2. PICK f : Upto(f, last)
  BY <1>1
<1> QED BY <1>0, <1>2 DEF HasRecursion

-----------------------------------------------------------------------------
(* Sums along a track. *)

Adds(f, steps, n) == IF n = 1 THEN 0 ELSE f[n - 1] + steps[n]

(* Up to each place of a track there are such sums. *)
LEMMA SumsExist ==
  ASSUME NEW last \in Nat, NEW steps
  PROVE  \E f : f = [n \in 1 .. last |-> Adds(f, steps, n)]
<1> DEFINE Upto(f, k) == \A n \in 1 .. k : f[n] = Adds(f, steps, n)
           Undone == {k \in Nat : ~\E f : Upto(f, k)}
<1>1. Undone = {}
  <2> SUFFICES ASSUME Undone # {}
               PROVE  FALSE
    OBVIOUS
  <2>1. PICK k \in Undone : \A j \in Undone : k <= j
    BY LeastNatural
  <2>2. k \in Nat /\ ~\E f : Upto(f, k)
    BY <2>1
  <2>3. CASE k = 0
    <3>1. Upto(<< >>, k)
      BY <2>3
    <3> QED BY <2>2, <3>1
  <2>4. CASE k # 0
    <3>1. k - 1 \in Nat /\ k - 1 \notin Undone
      <4>1. k - 1 \in Nat /\ ~(k <= k - 1)
        BY <2>2, <2>4
      <4> HIDE DEF Undone
      <4> QED BY <2>1, <4>1
    <3>2. PICK f : Upto(f, k - 1)
      BY <3>1
    <3> DEFINE g == [n \in 1 .. k |-> Adds(f, steps, n)]
    <3>3. \A n \in 1 .. k : g[n] = Adds(f, steps, n)
      OBVIOUS
    <3> HIDE DEF g
    <3>4. ASSUME NEW n \in 1 .. k
          PROVE  g[n] = Adds(g, steps, n)
      <4>1. CASE n = 1
        BY <3>3, <4>1 DEF Adds
      <4>2. CASE n # 1
        <5>1. n - 1 \in 1 .. k - 1 /\ n - 1 \in 1 .. k
          BY <2>2, <4>2
        <5>2. f[n - 1] = g[n - 1]
          BY <3>2, <3>3, <5>1
        <5> QED BY <3>3, <4>2, <5>2 DEF Adds
      <4> QED BY <4>1, <4>2
    <3> QED BY <2>2, <3>4
  <2> QED BY <2>3, <2>4
<1>2. PICK f : Upto(f, last)
  BY <1>1
<1> DEFINE g == [n \in 1 .. last |-> Adds(f, steps, n)]
<1>3. \A n \in 1 .. last : g[n] = Adds(f, steps, n)
  OBVIOUS
<1>4. ASSUME NEW n \in 1 .. last
      PROVE  Adds(f, steps, n) = Adds(g, steps, n)
  <2> HIDE DEF g
  <2>1. CASE n = 1
    BY <2>1 DEF Adds
  <2>2. CASE n # 1
    <3>1. n - 1 \in 1 .. last
      BY <2>2
    <3>2. f[n - 1] = g[n - 1]
      BY <1>2, <1>3, <3>1
    <3> QED BY <3>2 DEF Adds
  <2> QED BY <2>1, <2>2
<1>5. g = [n \in 1 .. last |-> Adds(g, steps, n)]
  BY <1>4
<1> HIDE DEF g
<1> QED BY <1>5

(* The sum up to a place is that up to the place before and its step. *)
LEMMA SumsAdd ==
  ASSUME NEW last \in Nat, NEW steps
  PROVE  \A n \in 1 .. last : Sums(steps, last)[n] = Adds(Sums(steps, last), steps, n)
<1> DEFINE g == CHOOSE f : f = [n \in 1 .. last |-> Adds(f, steps, n)]
<1>1. g = [n \in 1 .. last |-> Adds(g, steps, n)]
  BY SumsExist, Zenon
<1>2. Sums(steps, last) = g
  BY DEF Sums, Adds
<1> HIDE DEF g
<1>3. \A n \in 1 .. last : g[n] = Adds(g, steps, n)
  BY <1>1
<1> QED BY <1>2, <1>3

(* Sums of natural numbers are such, and they do not fall. *)
LEMMA SumsRise ==
  ASSUME NEW last \in Nat, NEW steps, \A n \in 2 .. last : steps[n] \in Nat
  PROVE  /\ \A n \in 1 .. last : Sums(steps, last)[n] \in Nat
         /\ \A j, n \in 1 .. last : j <= n => Sums(steps, last)[j] <= Sums(steps, last)[n]
<1> DEFINE f == Sums(steps, last)
           Good(n) == f[n] \in Nat /\ \A j \in 1 .. n : f[j] <= f[n]
           Bad == {k \in Nat : k + 1 \in 1 .. last /\ ~Good(k + 1)}
<1>1. \A n \in 1 .. last : f[n] = Adds(f, steps, n)
  BY SumsAdd
<1> HIDE DEF f
<1>2. Bad = {}
  <2> SUFFICES ASSUME Bad # {}
               PROVE  FALSE
    OBVIOUS
  <2>1. PICK k \in Bad : \A j \in Bad : k <= j
    BY LeastNatural
  <2>2. k \in Nat /\ k + 1 \in 1 .. last /\ ~Good(k + 1)
    BY <2>1
  <2>3. CASE k = 0
    <3>1. f[1] = 0
      BY <1>1, <2>2, <2>3 DEF Adds
    <3>2. Good(1)
      BY <3>1
    <3> QED BY <2>2, <2>3, <3>2
  <2>4. CASE k # 0
    <3>1. k - 1 \in Nat /\ k - 1 \notin Bad /\ (k - 1) + 1 = k /\ (k + 1) - 1 = k /\ k + 1 # 1
          /\ k \in 1 .. last /\ k + 1 \in 2 .. last
      BY <2>1, <2>2, <2>4
    <3>2. Good(k)
      <4> HIDE DEF Good
      <4> QED BY <3>1
    <3>3. f[k + 1] = f[k] + steps[k + 1] /\ steps[k + 1] \in Nat
      BY <1>1, <2>2, <3>1 DEF Adds
    <3>4. f[k + 1] \in Nat /\ f[k] <= f[k + 1]
      BY <3>2, <3>3
    <3>5. ASSUME NEW j \in 1 .. k + 1
          PROVE  f[j] <= f[k + 1]
      <4>1. CASE j = k + 1
        BY <4>1, <3>4
      <4>2. CASE j # k + 1
        <5>1. j \in 1 .. k
          BY <2>2, <4>2
        <5>2. f[j] <= f[k]
          BY <3>2, <5>1
        <5>3. f[j] \in Nat
          <6>1. j - 1 \in Nat /\ (j - 1) + 1 = j /\ j \in 1 .. last /\ ~(k <= j - 1)
            BY <2>2, <5>1
          <6>2. Good(j)
            <7> HIDE DEF Good
            <7> QED BY <2>1, <6>1
          <6> QED BY <6>2
        <5> QED BY <3>2, <3>4, <5>2, <5>3
      <4> QED BY <4>1, <4>2
    <3>6. Good(k + 1)
      BY <3>4, <3>5
    <3> QED BY <2>2, <3>6
  <2> QED BY <2>3, <2>4
<1>3. ASSUME NEW n \in 1 .. last
      PROVE  Good(n)
  <2>1. n - 1 \in Nat /\ (n - 1) + 1 = n
    OBVIOUS
  <2> HIDE DEF Good
  <2> QED BY <1>2, <2>1
<1>4. \A j, n \in 1 .. last : j <= n => j \in 1 .. n
  OBVIOUS
<1> QED BY <1>3, <1>4 DEF f

-----------------------------------------------------------------------------
(* The invariant of the movement: where the receiver stands, said of the   *)
(* time since it was set off.                                              *)

Tracked == {"waypoint", "samples", "timed"}
Movements == [kind : MovementKinds, points : Seq(Point), speed : {-1, 0, 1, 2}, next : Nat]
TypedMovement(m) ==
  /\ m \in Movements
  /\ m.kind \in Tracked => m.points # << >> /\ m.next \in 1 .. Len(m.points) /\ m.speed > 0
Origins == [at : Int, next : Nat, progress : Nat, time : Nat]

(* Nothing of the progress is due yet. *)
NothingDue(m, progress) ==
  /\ m.kind = "samples" => progress < Epoch
  /\ m.kind = "timed" /\ m.next < Len(m.points) =>
       progress < Interval(m.points[m.next], m.points[m.next + 1])

(* On the way to the point n, with the points before it behind; or past    *)
(* the last one.                                                           *)
Start(from, points, first, n) == IF n = first THEN from ELSE points[n - 1].at
Behind(from, points, first, n) == IF n = first THEN 0 ELSE Way(from, points, first, n - 1)
Underway(from, points, first, at, n, gone) ==
  /\ n \in first .. Len(points)
  /\ \A k \in first .. n - 1 : Way(from, points, first, k) <= gone
  /\ gone <= Way(from, points, first, n)
  /\ at = Toward(Start(from, points, first, n), points[n].at, gone - Behind(from, points, first, n))
Arrived(from, points, first, at, n, gone) ==
  /\ n = Len(points) /\ at = points[n].at
  /\ \A k \in first .. n : Way(from, points, first, k) <= gone
Walks(from, points, first, at, n, gone) ==
  \/ n = first /\ at = from /\ gone = 0
  \/ Underway(from, points, first, at, n, gone) /\ gone < Way(from, points, first, n)
  \/ Arrived(from, points, first, at, n, gone)

Replays(from, points, first, at, n, progress, time) ==
  /\ n \in first .. Len(points)
  /\ progress + Arrival(points, first, n) = time
  /\ at = IF n = first THEN from ELSE points[n].at

Follows(at, m, progress, o) ==
  LET gone == o.time * m.speed IN
  /\ at \in Int /\ progress \in Nat /\ TypedMovement(m) /\ NothingDue(m, progress)
  /\ o \in Origins /\ (m.kind \in Tracked => o.next \in 1 .. Len(m.points))
  /\ m.kind = "static" => at = o.at
  /\ m.kind = "linear" => at = o.at + gone
  /\ m.kind = "waypoint" => Walks(o.at, m.points, o.next, at, m.next, gone)
  /\ m.kind = "samples" =>
       /\ progress = (o.progress + gone) % Epoch /\ o.progress < Epoch
       /\ m.next = Min({o.next + (o.progress + gone) \div Epoch, Len(m.points)})
       /\ at = SampledAt(o.at, m, o.next, o.progress + gone)
  /\ m.kind = "timed" => Replays(o.at, m.points, o.next, at, m.next, progress, o.progress + gone)

MovementInv == gps # None => Follows(gps.at, gps.movement, gps.progress, origin)

(* The points of a track, and the steps between them. *)
LEMMA PointsOfTrack ==
  ASSUME NEW points \in Seq(Point)
  PROVE  /\ Len(points) \in Nat
         /\ \A n \in 1 .. Len(points) : points[n] \in Point /\ points[n].at \in Int
         /\ \A n \in 2 .. Len(points) : n - 1 \in 1 .. Len(points) /\ n \in 1 .. Len(points)
<1>1. Len(points) \in Nat /\ \A n \in 1 .. Len(points) : points[n] \in Point
  OBVIOUS
<1>2. \A n \in 1 .. Len(points) : points[n].at \in Int
  BY <1>1 DEF Point
<1>3. \A n \in 2 .. Len(points) : n - 1 \in 1 .. Len(points) /\ n \in 1 .. Len(points)
  BY <1>1
<1> QED BY <1>1, <1>2, <1>3

(* Distances on the line, and a way toward a place.                        *)
LEMMA Distances ==
  ASSUME NEW x \in Int, NEW y \in Int
  PROVE  /\ Distance(x, y) \in Nat /\ Distance(x, x) = 0
         /\ Toward(x, y, 0) = x /\ Toward(x, y, Distance(x, y)) = y
         /\ \A d \in Nat : Toward(x, y, d) \in Int
         /\ \A z \in Int : Distance(x, z) <= Distance(x, y) + Distance(y, z)
BY DEF Distance, Toward

(* Part of the way toward a place, and then some more. *)
LEMMA TowardAdds ==
  ASSUME NEW x \in Int, NEW y \in Int, NEW d \in Nat, NEW e \in Nat, d + e <= Distance(x, y)
  PROVE  /\ Distance(Toward(x, y, d), y) = Distance(x, y) - d
         /\ Toward(Toward(x, y, d), y, e) = Toward(x, y, d + e)
BY DEF Distance, Toward

(* The time between two points is never nothing.                           *)
LEMMA IntervalsArePositive ==
  ASSUME NEW from \in Point, NEW to \in Point
  PROVE  Interval(from, to) \in Nat \ {0}
<1>1. Epoch \in Nat \ {0}
  BY GpsAssumption
<1>2. CASE from.time # None /\ to.time # None /\ to.time > from.time
  <2>1. from.time \in Nat /\ to.time \in Nat
    BY <1>2 DEF Point
  <2> QED BY <1>2, <2>1 DEF Interval
<1>3. CASE ~(from.time # None /\ to.time # None /\ to.time > from.time)
  BY <1>1, <1>3 DEF Interval
<1> QED BY <1>2, <1>3

(* The way to a point, and the time of a point, by that of the one before. *)
LEMMA Ways ==
  ASSUME NEW points \in Seq(Point), NEW from \in Int, NEW first \in 1 .. Len(points)
  PROVE  /\ Way(from, points, first, first) = Distance(from, points[first].at)
         /\ \A n \in 1 .. Len(points) : Way(from, points, first, n) \in Int
         /\ \A n \in first .. Len(points) : Way(from, points, first, n) \in Nat
         /\ \A n \in first + 1 .. Len(points) :
              Way(from, points, first, n)
                = Way(from, points, first, n - 1) + Distance(points[n - 1].at, points[n].at)
<1> DEFINE last == Len(points)
           steps == [n \in 2 .. last |-> Distance(points[n - 1].at, points[n].at)]
           sum == Lengths(points)
           start == Distance(from, points[first].at)
<1>1. last \in Nat /\ \A n \in 1 .. last : points[n].at \in Int
  BY PointsOfTrack
<1>2. \A n \in 2 .. last : steps[n] = Distance(points[n - 1].at, points[n].at)
  OBVIOUS
<1>3. \A n \in 2 .. last : steps[n] \in Nat
  BY <1>2, Distances, PointsOfTrack
<1>4. sum = Sums(steps, last)
  BY DEF Lengths
<1> HIDE DEF last, steps, sum
<1>5. /\ \A n \in 1 .. last : sum[n] = Adds(sum, steps, n)
      /\ \A n \in 1 .. last : sum[n] \in Nat
      /\ \A j, n \in 1 .. last : j <= n => sum[j] <= sum[n]
  BY <1>1, <1>3, <1>4, SumsAdd, SumsRise
<1>6. start \in Nat /\ first \in 1 .. last
  BY <1>1, Distances DEF last
<1> HIDE DEF start
<1>7. \A n : Way(from, points, first, n) = start + (sum[n] - sum[first])
  BY DEF Way, start, sum
<1>8. Way(from, points, first, first) = start
  BY <1>5, <1>6, <1>7
<1>9. \A n \in 1 .. last : Way(from, points, first, n) \in Int
  BY <1>5, <1>6, <1>7
<1>10. \A n \in first .. last : Way(from, points, first, n) \in Nat
  <2> TAKE n \in first .. last
  <2>1. n \in 1 .. last /\ first <= n
    BY <1>1, <1>6
  <2>2. sum[first] <= sum[n] /\ sum[first] \in Nat /\ sum[n] \in Nat
    BY <1>5, <1>6, <2>1
  <2> QED BY <1>6, <1>7, <2>2
<1>11. ASSUME NEW n \in first + 1 .. last
       PROVE  Way(from, points, first, n) = Way(from, points, first, n - 1) + Distance(points[n - 1].at, points[n].at)
  <2>1. n \in 1 .. last /\ n \in 2 .. last /\ n - 1 \in 1 .. last /\ n # 1
    BY <1>1, <1>6
  <2>2. sum[n] = sum[n - 1] + steps[n]
    BY <1>5, <2>1 DEF Adds
  <2>3. sum[n - 1] \in Nat /\ steps[n] \in Nat /\ sum[first] \in Nat
    BY <1>3, <1>5, <1>6, <2>1
  <2>4. Way(from, points, first, n) = start + ((sum[n - 1] + steps[n]) - sum[first])
    BY <1>7, <2>2, Zenon
  <2>5. Way(from, points, first, n - 1) = start + (sum[n - 1] - sum[first])
    BY <1>7
  <2> QED BY <1>2, <1>6, <2>1, <2>3, <2>4, <2>5
<1> QED BY <1>8, <1>9, <1>10, <1>11 DEF last, start

(* The time a point is reached, by that of the point before.               *)
LEMMA Arrivals ==
  ASSUME NEW points \in Seq(Point), NEW first \in 1 .. Len(points)
  PROVE  /\ Arrival(points, first, first) = 0
         /\ \A n \in first .. Len(points) : Arrival(points, first, n) \in Nat
         /\ \A n \in first .. Len(points) - 1 :
              Arrival(points, first, n + 1) = Arrival(points, first, n) + Interval(points[n], points[n + 1])
         /\ \A j, n \in first .. Len(points) : j <= n => Arrival(points, first, j) <= Arrival(points, first, n)
<1> DEFINE last == Len(points)
           steps == [n \in 2 .. last |-> Interval(points[n - 1], points[n])]
           sum == Times(points)
<1>1. last \in Nat /\ \A n \in 1 .. last : points[n] \in Point
  BY PointsOfTrack
<1>2. \A n \in 2 .. last : steps[n] = Interval(points[n - 1], points[n])
  OBVIOUS
<1>3. \A n \in 2 .. last : steps[n] \in Nat
  BY <1>2, IntervalsArePositive, PointsOfTrack
<1>4. sum = Sums(steps, last)
  BY DEF Times
<1>41. first \in 1 .. last
  OBVIOUS
<1> HIDE DEF last, steps, sum
<1>5. /\ \A n \in 1 .. last : sum[n] = Adds(sum, steps, n)
      /\ \A n \in 1 .. last : sum[n] \in Nat
      /\ \A j, n \in 1 .. last : j <= n => sum[j] <= sum[n]
  BY <1>1, <1>3, <1>4, SumsAdd, SumsRise
<1>7. \A n : Arrival(points, first, n) = sum[n] - sum[first]
  BY DEF Arrival, sum
<1>8. Arrival(points, first, first) = 0
  BY <1>5, <1>41, <1>7
<1>9. \A n \in first .. last : n \in 1 .. last /\ first <= n
  BY <1>1, <1>41
<1>10. \A n \in first .. last : Arrival(points, first, n) \in Nat
  <2> TAKE n \in first .. last
  <2>2. sum[first] <= sum[n] /\ sum[first] \in Nat /\ sum[n] \in Nat
    BY <1>5, <1>41, <1>9
  <2> QED BY <1>7, <2>2
<1>11. ASSUME NEW n \in first .. last - 1
       PROVE  Arrival(points, first, n + 1) = Arrival(points, first, n) + Interval(points[n], points[n + 1])
  <2>1. n + 1 \in 1 .. last /\ n + 1 \in 2 .. last /\ n \in 1 .. last /\ n + 1 # 1 /\ (n + 1) - 1 = n
    BY <1>1, <1>41
  <2>2. sum[n + 1] = sum[n] + steps[n + 1]
    BY <1>5, <2>1 DEF Adds
  <2>3. sum[n] \in Nat /\ steps[n + 1] \in Nat /\ sum[first] \in Nat
    BY <1>3, <1>5, <1>41, <2>1
  <2>4. steps[n + 1] = Interval(points[n], points[n + 1])
    BY <1>2, <2>1
  <2> QED BY <1>7, <2>2, <2>3, <2>4
<1>12. ASSUME NEW j \in first .. last, NEW n \in first .. last, j <= n
       PROVE  Arrival(points, first, j) <= Arrival(points, first, n)
  <2>1. sum[j] <= sum[n] /\ sum[j] \in Nat /\ sum[n] \in Nat /\ sum[first] \in Nat
    BY <1>5, <1>41, <1>9, <1>12
  <2> QED BY <1>7, <2>1
<1> QED BY <1>8, <1>10, <1>11, <1>12 DEF last

(* What a walk along a track does at a position, before a point, with a    *)
(* distance left.                                                          *)
Legs(points) == Int \X (1 .. Len(points)) \X Nat
Walked(f, points, s) ==
  IF Distance(s[1], points[s[2]].at) > s[3]
  THEN [at |-> Toward(s[1], points[s[2]].at, s[3]), next |-> s[2]]
  ELSE IF s[2] < Len(points)
       THEN f[<<points[s[2]].at, s[2] + 1, s[3] - Distance(s[1], points[s[2]].at)>>]
       ELSE [at |-> points[s[2]].at, next |-> s[2]]

(* What the definition of AdvanceWaypoints chooses goes leg by leg.        *)
LEMMA WalksExist ==
  ASSUME NEW m, m.points \in Seq(Point)
  PROVE  \E f : /\ \A s \in Legs(m.points) : f[s] = Walked(f, m.points, s)
                /\ \A at, distance : AdvanceWaypoints(at, m, distance) = f[<<at, m.next, distance>>]
<1> DEFINE points == m.points
           last == Len(points)
           D == Legs(points)
           Far(s) == Distance(s[1], points[s[2]].at) > s[3]
           Ends == {s \in D : Far(s) \/ ~(s[2] < last)}
           value == [s \in D |-> IF Far(s) THEN [at |-> Toward(s[1], points[s[2]].at, s[3]), next |-> s[2]]
                                           ELSE [at |-> points[s[2]].at, next |-> s[2]]]
           next == [s \in D |-> <<points[s[2]].at, s[2] + 1, s[3] - Distance(s[1], points[s[2]].at)>>]
           rank == [s \in D |-> last - s[2]]
<1>1. last \in Nat /\ \A n \in 1 .. last : points[n].at \in Int
  BY PointsOfTrack
<1>2. \A s \in D : s[1] \in Int /\ s[2] \in 1 .. last /\ s[3] \in Nat
  BY DEF Legs
<1>3. \A s \in D : rank[s] \in 0 .. last
  <2>1. \A s \in D : rank[s] = last - s[2]
    OBVIOUS
  <2> HIDE DEF rank, D, last
  <2> QED BY <1>1, <1>2, <2>1
<1>4. ASSUME NEW s \in D \ Ends
      PROVE  next[s] \in D /\ rank[next[s]] < rank[s]
  <2>1. s[1] \in Int /\ s[2] \in 1 .. last - 1 /\ s[2] + 1 \in 1 .. last /\ s[3] \in Nat
        /\ Distance(s[1], points[s[2]].at) <= s[3] /\ points[s[2]].at \in Int
        /\ Distance(s[1], points[s[2]].at) \in Nat
    <3>1. s[1] \in Int /\ s[2] \in 1 .. last /\ s[3] \in Nat /\ s[2] < last /\ ~Far(s)
      BY <1>2
    <3>2. points[s[2]].at \in Int
      BY <1>1, <3>1
    <3>3. Distance(s[1], points[s[2]].at) \in Nat
      BY <3>1, <3>2, Distances
    <3> HIDE DEF last
    <3> QED BY <1>1, <3>1, <3>2, <3>3
  <2>2. next[s] = <<points[s[2]].at, s[2] + 1, s[3] - Distance(s[1], points[s[2]].at)>>
    OBVIOUS
  <2>3. s[3] - Distance(s[1], points[s[2]].at) \in Nat
    BY <2>1
  <2>4. next[s] \in D /\ next[s][2] = s[2] + 1
    <3> HIDE DEF next, Ends
    <3> QED BY <2>1, <2>2, <2>3 DEF Legs
  <2>5. rank[s] = last - s[2] /\ rank[next[s]] = last - (s[2] + 1)
    <3>1. \A t \in D : rank[t] = last - t[2]
      OBVIOUS
    <3> HIDE DEF rank, next, D, last, Ends
    <3> QED BY <2>4, <3>1
  <2> HIDE DEF last, next, rank, D
  <2> QED BY <1>1, <2>1, <2>4, <2>5
<1>5. HasRecursion(D, Ends, value, next)
  <2>1. last \in Nat
    BY <1>1
  <2>2. ComesDown(D, Ends, next, rank, last)
    BY <1>3, <1>4 DEF ComesDown
  <2> HIDE DEF D, Ends, value, next, rank, last
  <2> QED BY <2>1, <2>2, RecursionEnds
<1>6. PICK h : \A s \in D : h[s] = GoesOn(h, Ends, value, next, s)
  <2> HIDE DEF D, Ends, value, next
  <2> QED BY <1>5 DEF HasRecursion
<1>7. ASSUME NEW f, NEW s \in D
      PROVE  GoesOn(f, Ends, value, next, s) = Walked(f, points, s)
  BY DEF GoesOn, Walked
<1> DEFINE f == [s \in D |-> Walked(h, points, s)]
<1>8. \A s \in D : f[s] = h[s]
  BY <1>6, <1>7
<1>9. ASSUME NEW s \in D
      PROVE  Walked(h, points, s) = Walked(f, points, s)
  <2>1. GoesOn(h, Ends, value, next, s) = GoesOn(f, Ends, value, next, s)
    <3>1. CASE s \in Ends
      BY <3>1 DEF GoesOn
    <3>2. CASE s \notin Ends
      <4>1. next[s] \in D
        BY <1>4, <3>2
      <4>2. f[next[s]] = h[next[s]]
        BY <1>8, <4>1
      <4> HIDE DEF f, next, D, Ends
      <4> QED BY <3>2, <4>2 DEF GoesOn
    <3> QED BY <3>1, <3>2
  <2> QED BY <1>7, <2>1
<1>10. f = [s \in D |-> Walked(f, points, s)]
  BY <1>9
<1> DEFINE g == CHOOSE k : k = [s \in D |-> Walked(k, points, s)]
<1>11. g = [s \in D |-> Walked(g, points, s)]
  <2> HIDE DEF f
  <2> QED BY <1>10, Zenon
<1>12. \A at, distance : AdvanceWaypoints(at, m, distance) = g[<<at, m.next, distance>>]
  BY DEF AdvanceWaypoints, Walked, Legs
<1> HIDE DEF g
<1>13. \A s \in D : g[s] = Walked(g, points, s)
  BY <1>11
<1> QED BY <1>12, <1>13

(* What a replay does at a point with some time left.                      *)
Steps(points) == (1 .. Len(points)) \X Nat
Stepped(f, points, s) ==
  IF s[1] < Len(points) /\ s[2] >= Interval(points[s[1]], points[s[1] + 1])
  THEN f[<<s[1] + 1, s[2] - Interval(points[s[1]], points[s[1] + 1])>>]
  ELSE [next |-> s[1], progress |-> s[2]]

(* What the definition of AdvanceReplay chooses goes interval by interval. *)
LEMMA ReplaysExist ==
  ASSUME NEW m, m.points \in Seq(Point)
  PROVE  \E f : /\ \A s \in Steps(m.points) : f[s] = Stepped(f, m.points, s)
                /\ \A progress : AdvanceReplay(m, progress) = f[<<m.next, progress>>]
<1> DEFINE points == m.points
           last == Len(points)
           D == Steps(points)
           Due(s) == s[1] < last /\ s[2] >= Interval(points[s[1]], points[s[1] + 1])
           Ends == {s \in D : ~Due(s)}
           value == [s \in D |-> [next |-> s[1], progress |-> s[2]]]
           next == [s \in D |-> <<s[1] + 1, s[2] - Interval(points[s[1]], points[s[1] + 1])>>]
           rank == [s \in D |-> last - s[1]]
<1>1. last \in Nat /\ \A n \in 1 .. last : points[n] \in Point
  BY PointsOfTrack
<1>2. \A s \in D : s[1] \in 1 .. last /\ s[2] \in Nat
  BY DEF Steps
<1>3. \A s \in D : rank[s] \in 0 .. last
  <2>1. \A s \in D : rank[s] = last - s[1]
    OBVIOUS
  <2> HIDE DEF rank, D, last
  <2> QED BY <1>1, <1>2, <2>1
<1>4. ASSUME NEW s \in D \ Ends
      PROVE  next[s] \in D /\ rank[next[s]] < rank[s]
  <2>1. s[1] \in 1 .. last /\ s[2] \in Nat /\ s[1] < last
        /\ Interval(points[s[1]], points[s[1] + 1]) <= s[2]
    BY <1>2
  <2>2. s[1] + 1 \in 1 .. last
    <3> HIDE DEF last
    <3> QED BY <1>1, <2>1
  <2>3. Interval(points[s[1]], points[s[1] + 1]) \in Nat
    BY <1>1, <2>1, <2>2, IntervalsArePositive
  <2>4. s[2] - Interval(points[s[1]], points[s[1] + 1]) \in Nat
    BY <2>1, <2>3
  <2>5. next[s] = <<s[1] + 1, s[2] - Interval(points[s[1]], points[s[1] + 1])>>
    OBVIOUS
  <2>6. next[s] \in D /\ next[s][1] = s[1] + 1
    <3> HIDE DEF next, Ends
    <3> QED BY <2>2, <2>4, <2>5 DEF Steps
  <2>7. rank[s] = last - s[1] /\ rank[next[s]] = last - (s[1] + 1)
    <3>1. \A t \in D : rank[t] = last - t[1]
      OBVIOUS
    <3> HIDE DEF rank, next, D, last, Ends
    <3> QED BY <2>6, <3>1
  <2> HIDE DEF last, next, rank, D
  <2> QED BY <1>1, <2>1, <2>6, <2>7
<1>5. HasRecursion(D, Ends, value, next)
  <2>1. last \in Nat
    BY <1>1
  <2>2. ComesDown(D, Ends, next, rank, last)
    BY <1>3, <1>4 DEF ComesDown
  <2> HIDE DEF D, Ends, value, next, rank, last
  <2> QED BY <2>1, <2>2, RecursionEnds
<1>6. PICK h : \A s \in D : h[s] = GoesOn(h, Ends, value, next, s)
  <2> HIDE DEF D, Ends, value, next
  <2> QED BY <1>5 DEF HasRecursion
<1>7. ASSUME NEW f, NEW s \in D
      PROVE  GoesOn(f, Ends, value, next, s) = Stepped(f, points, s)
  BY DEF GoesOn, Stepped
<1> DEFINE f == [s \in D |-> Stepped(h, points, s)]
<1>8. \A s \in D : f[s] = h[s]
  BY <1>6, <1>7
<1>9. ASSUME NEW s \in D
      PROVE  Stepped(h, points, s) = Stepped(f, points, s)
  <2>1. GoesOn(h, Ends, value, next, s) = GoesOn(f, Ends, value, next, s)
    <3>1. CASE s \in Ends
      BY <3>1 DEF GoesOn
    <3>2. CASE s \notin Ends
      <4>1. next[s] \in D
        BY <1>4, <3>2
      <4>2. f[next[s]] = h[next[s]]
        BY <1>8, <4>1
      <4> HIDE DEF f, next, D, Ends
      <4> QED BY <3>2, <4>2 DEF GoesOn
    <3> QED BY <3>1, <3>2
  <2> QED BY <1>7, <2>1
<1>10. f = [s \in D |-> Stepped(f, points, s)]
  BY <1>9
<1> DEFINE g == CHOOSE k : k = [s \in D |-> Stepped(k, points, s)]
<1>11. g = [s \in D |-> Stepped(g, points, s)]
  <2> HIDE DEF f
  <2> QED BY <1>10, Zenon
<1>12. \A progress : AdvanceReplay(m, progress) = g[<<m.next, progress>>]
  BY DEF AdvanceReplay, Stepped, Steps
<1> HIDE DEF g
<1>13. \A s \in D : g[s] = Stepped(g, points, s)
  BY <1>11
<1> QED BY <1>12, <1>13

(* Where the leg to a point starts, and how much of the way lies behind.   *)
LEMMA LegOfWay ==
  ASSUME NEW points \in Seq(Point), NEW from \in Int, NEW first \in 1 .. Len(points),
         NEW n \in first .. Len(points)
  PROVE  /\ Start(from, points, first, n) \in Int /\ points[n].at \in Int /\ n \in 1 .. Len(points)
         /\ Behind(from, points, first, n) \in Nat /\ Way(from, points, first, n) \in Nat
         /\ Way(from, points, first, n)
              = Behind(from, points, first, n) + Distance(Start(from, points, first, n), points[n].at)
<1>1. Len(points) \in Nat /\ \A k \in 1 .. Len(points) : points[k].at \in Int
  BY PointsOfTrack
<1>2. n \in 1 .. Len(points)
  BY <1>1
<1>3. Way(from, points, first, n) \in Nat
  BY Ways
<1>4. CASE n = first
  <2>1. Distance(from, points[first].at) \in Nat
    BY <1>1, Distances
  <2>2. Way(from, points, first, n) = Distance(from, points[first].at)
    BY <1>4, Ways
  <2> QED BY <1>1, <1>2, <1>3, <1>4, <2>1, <2>2 DEF Start, Behind
<1>5. CASE n # first
  <2>1. n - 1 \in first .. Len(points) /\ n \in first + 1 .. Len(points) /\ n - 1 \in 1 .. Len(points)
    BY <1>1, <1>5
  <2>2. Way(from, points, first, n)
          = Way(from, points, first, n - 1) + Distance(points[n - 1].at, points[n].at)
    BY <2>1, Ways
  <2>3. Way(from, points, first, n - 1) \in Nat
    BY <2>1, Ways
  <2> QED BY <1>1, <1>2, <1>3, <1>5, <2>1, <2>2, <2>3 DEF Start, Behind
<1> QED BY <1>4, <1>5

(* One leg: it is not finished, or it is and another begins, or the track  *)
(* ends there.                                                             *)
LEMMA OneLeg ==
  ASSUME NEW points \in Seq(Point), NEW from \in Int, NEW first \in 1 .. Len(points),
         NEW n \in 1 .. Len(points), NEW p \in Int, NEW left \in Nat, NEW gone \in Nat,
         Underway(from, points, first, p, n, gone)
  PROVE  /\ Distance(p, points[n].at) \in Nat /\ points[n].at \in Int
         /\ Distance(p, points[n].at) > left =>
              /\ Underway(from, points, first, Toward(p, points[n].at, left), n, gone + left)
              /\ gone + left < Way(from, points, first, n)
         /\ Distance(p, points[n].at) <= left /\ n < Len(points) =>
              Underway(from, points, first, points[n].at, n + 1, gone + Distance(p, points[n].at))
         /\ Distance(p, points[n].at) <= left /\ n = Len(points) =>
              Arrived(from, points, first, points[n].at, n, gone + left)
<1> DEFINE W(k) == Way(from, points, first, k)
           start == Start(from, points, first, n)
           behind == Behind(from, points, first, n)
           target == points[n].at
           d == Distance(p, target)
           leg == Distance(start, target)
<1>1. /\ n \in first .. Len(points) /\ Len(points) \in Nat /\ first \in Nat
      /\ \A k \in first .. n - 1 : W(k) <= gone
      /\ gone <= W(n) /\ p = Toward(start, target, gone - behind)
  BY PointsOfTrack DEF Underway
<1>2. start \in Int /\ target \in Int /\ behind \in Nat /\ W(n) \in Nat /\ W(n) = behind + leg
  BY <1>1, LegOfWay
<1>3. leg \in Nat
  BY <1>2, Distances
<1>4. behind <= gone
  <2>1. CASE n = first
    BY <2>1 DEF Behind
  <2>2. CASE n # first
    <3>1. n - 1 \in first .. n - 1
      BY <1>1, <2>2
    <3>2. behind = W(n - 1)
      BY <2>2 DEF Behind
    <3> QED BY <1>1, <3>1, <3>2
  <2> QED BY <2>1, <2>2
<1> DEFINE g == gone - behind
<1>5. g \in Nat /\ gone = behind + g /\ g <= leg
  BY <1>1, <1>2, <1>3, <1>4
<1> HIDE DEF start, behind, g
<1>6. p = Toward(start, target, g)
  BY <1>1 DEF g
<1>7. d = leg - g /\ d \in Nat
  <2>1. g + 0 <= leg /\ 0 \in Nat
    BY <1>3, <1>5
  <2>2. d = leg - g
    BY SMTT(30), <1>2, <1>5, <1>6, <2>1, TowardAdds
  <2> HIDE DEF d, leg
  <2> QED BY <1>3, <1>5, <2>2
<1>71. /\ \A k \in first .. n : W(k) \in Nat
       /\ n < Len(points) => W(n + 1) \in Nat
  <2>1. \A k \in first .. n : k \in first .. Len(points)
    BY <1>1
  <2>2. n < Len(points) => n + 1 \in first .. Len(points)
    BY <1>1
  <2> QED BY <2>1, <2>2, Ways
<1> HIDE DEF target, d, leg, W
<1>8. W(n) = gone + d
  BY <1>2, <1>3, <1>5, <1>7
<1>9. ASSUME d > left
      PROVE  /\ Underway(from, points, first, Toward(p, target, left), n, gone + left)
             /\ gone + left < W(n)
  <2>1. gone + left < W(n) /\ gone + left <= W(n) /\ gone <= gone + left /\ g + left <= leg
    BY <1>2, <1>3, <1>5, <1>7, <1>8, <1>9
  <2>2. Toward(p, target, left) = Toward(start, target, g + left)
    BY <1>2, <1>5, <1>6, <2>1, TowardAdds DEF leg
  <2>3. g + left = (gone + left) - behind
    BY <1>2, <1>5
  <2>4. \A k \in first .. n - 1 : W(k) <= gone + left
    BY <1>1, <1>71, <2>1
  <2> QED BY <1>1, <2>1, <2>2, <2>3, <2>4 DEF Underway, W, start, behind, target
<1>10. ASSUME d <= left, n < Len(points)
       PROVE  Underway(from, points, first, target, n + 1, gone + d)
  <2>1. n + 1 \in first .. Len(points) /\ (n + 1) - 1 = n /\ n + 1 # first
    BY <1>1, <1>10
  <2>2. Start(from, points, first, n + 1) = target /\ Behind(from, points, first, n + 1) = W(n)
    BY <2>1 DEF Start, Behind, W, target
  <2>3. points[n + 1].at \in Int /\ W(n + 1) \in Nat
        /\ W(n + 1) = W(n) + Distance(target, points[n + 1].at)
    BY <2>1, <2>2, LegOfWay DEF W
  <2>4. Distance(target, points[n + 1].at) \in Nat
    BY <1>2, <2>3, Distances
  <2>5. gone + d <= W(n + 1) /\ (gone + d) - W(n) = 0
    BY <1>2, <1>8, <2>3, <2>4
  <2>6. Toward(target, points[n + 1].at, 0) = target
    BY <1>2, <2>3, Distances
  <2>7. \A k \in first .. n : W(k) <= gone + d
    <3> TAKE k \in first .. n
    <3>1. k = n \/ k \in first .. n - 1
      BY <1>1
    <3>2. W(n) <= gone + d
      BY <1>2, <1>8
    <3>3. k \in first .. n - 1 => W(k) <= gone + d
      BY <1>1, <1>7, <1>71
    <3> QED BY <3>1, <3>2, <3>3
  <2> QED BY <2>1, <2>2, <2>5, <2>6, <2>7 DEF Underway, W
<1>11. ASSUME d <= left, n = Len(points)
       PROVE  Arrived(from, points, first, target, n, gone + left)
  <2>1. \A k \in first .. n : W(k) <= gone + left
    <3> TAKE k \in first .. n
    <3>1. k = n \/ k \in first .. n - 1
      BY <1>1
    <3>2. W(n) <= gone + left
      BY <1>2, <1>7, <1>8, <1>11
    <3>3. k \in first .. n - 1 => W(k) <= gone + left
      BY <1>1, <1>71
    <3> QED BY <3>1, <3>2, <3>3
  <2> QED BY <1>11, <2>1 DEF Arrived, W, target
<1> QED BY <1>2, <1>7, <1>9, <1>10, <1>11 DEF d, target, W

(* Where a walk ends that has gone so far in all: before a point not       *)
(* reached, or at the last.                                                *)
Lands(from, points, first, r, gone) ==
  /\ r.at \in Int /\ r.next \in first .. Len(points)
  /\ \/ Underway(from, points, first, r.at, r.next, gone) /\ gone < Way(from, points, first, r.next)
     \/ Arrived(from, points, first, r.at, r.next, gone)

(* However many legs: the walk ends where the way it has gone ends.        *)
LEMMA WalkLands ==
  ASSUME NEW points \in Seq(Point), NEW from \in Int, NEW first \in 1 .. Len(points),
         NEW f, \A s \in Legs(points) : f[s] = Walked(f, points, s)
  PROVE  \A n \in 1 .. Len(points), p \in Int, left \in Nat, gone \in Nat :
           Underway(from, points, first, p, n, gone) \/ Arrived(from, points, first, p, n, gone)
             => Lands(from, points, first, f[<<p, n, left>>], gone + left)
<1> DEFINE last == Len(points)
           U(p, n, gone) == Underway(from, points, first, p, n, gone)
           A(p, n, gone) == Arrived(from, points, first, p, n, gone)
           L(r, gone) == Lands(from, points, first, r, gone)
           Fails(n, p, left, gone) == (U(p, n, gone) \/ A(p, n, gone)) /\ ~L(f[<<p, n, left>>], gone + left)
           Bad == {j \in Nat : \E n \in 1 .. last, p \in Int, left \in Nat, gone \in Nat :
                                 n + j = last /\ Fails(n, p, left, gone)}
<1>1. last \in Nat /\ first \in 1 .. last /\ \A n \in 1 .. last : points[n].at \in Int
  BY PointsOfTrack
<1>2. Bad = {}
  <2> SUFFICES ASSUME Bad # {}
               PROVE  FALSE
    OBVIOUS
  <2>1. PICK j \in Bad : \A k \in Bad : j <= k
    BY LeastNatural
  <2> HIDE DEF Fails
  <2>2. PICK n \in 1 .. last, p \in Int, left \in Nat, gone \in Nat : n + j = last /\ Fails(n, p, left, gone)
    BY <2>1
  <2>3. \A i \in 1 .. last, q \in Int, more \in Nat, since \in Nat : i = n + 1 => ~Fails(i, q, more, since)
    <3> SUFFICES ASSUME NEW i \in 1 .. last, NEW q \in Int, NEW more \in Nat, NEW since \in Nat,
                        i = n + 1, Fails(i, q, more, since)
                 PROVE  FALSE
      OBVIOUS
    <3>1. j \in Nat
      BY <2>1
    <3>2. j - 1 \in Nat /\ i + (j - 1) = last /\ ~(j <= j - 1)
      <4>1. n + j = last /\ last \in Nat
        BY <1>1, <2>2
      <4>2. n \in Int /\ n + 1 \in 1 .. last
        OBVIOUS
      <4>3. i \in Int /\ i = n + 1
        OBVIOUS
      <4> HIDE DEF last
      <4>4. j - 1 \in Nat
        BY <3>1, <4>1, <4>2
      <4>5. i + (j - 1) = last
        BY <3>1, <4>1, <4>2, <4>3
      <4> QED BY <3>1, <4>4, <4>5
    <3>3. j - 1 \in Bad
      BY <3>2
    <3> QED BY <2>1, <3>2, <3>3
  <2> USE DEF Fails
  <2> DEFINE target == points[n].at
             d == Distance(p, target)
             r == f[<<p, n, left>>]
  <2>4. target \in Int /\ <<p, n, left>> \in Legs(points)
    BY <1>1 DEF Legs
  <2>5. r = IF d > left THEN [at |-> Toward(p, target, left), next |-> n]
            ELSE IF n < last THEN f[<<target, n + 1, left - d>>]
            ELSE [at |-> target, next |-> n]
    BY <2>4 DEF Walked
  <2>6. d \in Nat
    BY <2>4, Distances
  <2>7. Toward(p, target, left) \in Int
    BY <2>4, Distances
  <2>8. ~L(r, gone + left)
    BY <2>2
  <2>9. CASE U(p, n, gone)
    <3>1. /\ d > left => U(Toward(p, target, left), n, gone + left) /\ gone + left < Way(from, points, first, n)
          /\ d <= left /\ n < last => U(target, n + 1, gone + d)
          /\ d <= left /\ n = last => A(target, n, gone + left)
      BY <2>9, OneLeg
    <3>2. n \in first .. last
      BY <2>9 DEF Underway
    <3> HIDE DEF U, A, L, r, d, target, Fails
    <3>3. CASE d > left
      <4>1. r.at = Toward(p, target, left) /\ r.next = n
        BY <2>5, <3>3
      <4>2. L(r, gone + left)
        BY <2>7, <3>1, <3>2, <3>3, <4>1 DEF L, U, A, Lands
      <4> QED BY <2>8, <4>2
    <3>4. CASE d <= left /\ n < last
      <4>1. n + 1 \in 1 .. last /\ left - d \in Nat /\ gone + d \in Nat /\ (gone + d) + (left - d) = gone + left
            /\ ~(d > left)
        BY <1>1, <2>2, <2>6, <3>4
      <4>2. r = f[<<target, n + 1, left - d>>]
        BY <2>5, <3>4, <4>1
      <4>3. ~Fails(n + 1, target, left - d, gone + d)
        BY <2>3, <2>4, <4>1
      <4>4. L(f[<<target, n + 1, left - d>>], (gone + d) + (left - d))
        BY <3>1, <3>4, <4>3 DEF Fails
      <4> QED BY <2>8, <4>1, <4>2, <4>4
    <3>5. CASE d <= left /\ n = last
      <4>1. r = [at |-> target, next |-> n]
        <5>1. ~(d > left)
          BY <2>6, <3>5
        <5>2. ~(n < last)
          BY <1>1, <3>5
        <5> HIDE DEF last
        <5> QED BY <2>5, <5>1, <5>2, Zenon
      <4>2. L(r, gone + left)
        BY <2>4, <3>1, <3>2, <3>5, <4>1 DEF L, U, A, Lands
      <4> QED BY <2>8, <4>2
    <3>6. n < last \/ n = last
      BY SMTT(30), <1>1
    <3>7. d <= left \/ d > left
      BY <2>6
    <3> HIDE DEF last
    <3> QED BY <3>3, <3>4, <3>5, <3>6, <3>7
  <2>10. CASE A(p, n, gone)
    <3>1. n = last /\ p = target /\ \A k \in first .. n : Way(from, points, first, k) <= gone
      BY <2>10 DEF Arrived
    <3>2. d = 0
      BY <2>4, <3>1, Distances
    <3>3. r = [at |-> target, next |-> n]
      <4> HIDE DEF r, d, target
      <4> QED BY <1>1, <2>2, <2>5, <3>1, <3>2
    <3>4. \A k \in first .. n : Way(from, points, first, k) \in Nat
      BY <3>1, Ways
    <3>5. \A k \in first .. n : Way(from, points, first, k) <= gone + left
      BY <1>1, <3>1, <3>4
    <3>6. n \in first .. last
      BY <1>1, <3>1
    <3>7. L(r, gone + left)
      BY <2>4, <3>1, <3>3, <3>5, <3>6 DEF Lands, Arrived
    <3> QED BY <2>8, <3>7
  <2> QED BY <2>2, <2>9, <2>10
<1>3. ASSUME NEW n \in 1 .. last, NEW p \in Int, NEW left \in Nat, NEW gone \in Nat
      PROVE  ~Fails(n, p, left, gone)
  <2>1. last - n \in Nat /\ n + (last - n) = last
    BY <1>1
  <2> HIDE DEF Fails
  <2> QED BY <1>2, <2>1
<1> QED BY <1>3

(* A replay that goes on to r from the point n with some time left.        *)
GoneOn(points, first, r, n, left) ==
  /\ r.next \in n .. Len(points) /\ r.progress \in Nat
  /\ r.progress + Arrival(points, first, r.next) = left + Arrival(points, first, n)
  /\ r.next < Len(points) => r.progress < Interval(points[r.next], points[r.next + 1])

(* However many intervals: none is lost, and the next one is not over.     *)
LEMMA ReplayLands ==
  ASSUME NEW points \in Seq(Point), NEW first \in 1 .. Len(points),
         NEW f, \A s \in Steps(points) : f[s] = Stepped(f, points, s)
  PROVE  \A n \in first .. Len(points), left \in Nat : GoneOn(points, first, f[<<n, left>>], n, left)
<1> DEFINE last == Len(points)
           A(n) == Arrival(points, first, n)
           G(n, left) == GoneOn(points, first, f[<<n, left>>], n, left)
           Bad == {j \in Nat : \E n \in first .. last, left \in Nat : n + j = last /\ ~G(n, left)}
<1>1. last \in Nat /\ first \in 1 .. last /\ first \in Nat /\ \A n \in 1 .. last : points[n] \in Point
  BY PointsOfTrack
<1>2. /\ \A n \in first .. last : A(n) \in Nat
      /\ \A n \in first .. last - 1 : A(n + 1) = A(n) + Interval(points[n], points[n + 1])
  BY Arrivals
<1>3. Bad = {}
  <2> SUFFICES ASSUME Bad # {}
               PROVE  FALSE
    OBVIOUS
  <2> HIDE DEF G
  <2>1. PICK j \in Bad : \A k \in Bad : j <= k
    BY LeastNatural
  <2>2. PICK n \in first .. last, left \in Nat : n + j = last /\ ~G(n, left)
    BY <2>1
  <2>3. j \in Nat /\ n \in 1 .. last /\ n \in Nat
    <3> HIDE DEF last
    <3> QED BY <2>1, <1>1
  <2>4. ASSUME n < last
        PROVE  \A more \in Nat : G(n + 1, more)
    <3> SUFFICES ASSUME NEW more \in Nat, ~G(n + 1, more)
                 PROVE  FALSE
      OBVIOUS
    <3>1. n + j = last
      BY <2>2
    <3> HIDE DEF last
    <3>2. j - 1 \in Nat /\ ~(j <= j - 1)
      BY <1>1, <2>3, <2>4, <3>1
    <3>3. (n + 1) + (j - 1) = last /\ n + 1 \in first .. last
      BY <1>1, <2>3, <2>4, <3>1
    <3>4. j - 1 \in Bad
      BY <3>2, <3>3
    <3> QED BY <2>1, <3>2, <3>4
  <2> DEFINE r == f[<<n, left>>]
             i == Interval(points[n], points[n + 1])
  <2>5. <<n, left>> \in Steps(points)
    BY <2>3 DEF Steps
  <2>6. r = IF n < last /\ left >= i THEN f[<<n + 1, left - i>>] ELSE [next |-> n, progress |-> left]
    BY <2>5 DEF Stepped
  <2>7. n < last => i \in Nat /\ n \in first .. last - 1 /\ n + 1 \in first .. last
    <3> HIDE DEF last
    <3>1. n < last => n \in 1 .. last /\ n + 1 \in 1 .. last /\ n \in first .. last - 1 /\ n + 1 \in first .. last
      BY <1>1, <2>3
    <3> QED BY <1>1, <3>1, IntervalsArePositive
  <2>8. CASE n < last /\ left >= i
    <3> DEFINE more == left - i
    <3>1. more \in Nat /\ more + i = left
      BY SMTT(30), <2>7, <2>8
    <3>2. r = f[<<n + 1, more>>]
      BY <2>6, <2>8
    <3>3. G(n + 1, more)
      BY <2>4, <2>8, <3>1
    <3>4. A(n + 1) = A(n) + i /\ A(n) \in Nat
      BY <1>2, <2>7, <2>8
    <3>5. /\ r.next \in n + 1 .. last /\ r.progress \in Nat
          /\ r.progress + A(r.next) = more + A(n + 1)
          /\ r.next < last => r.progress < Interval(points[r.next], points[r.next + 1])
      BY <3>2, <3>3 DEF G, GoneOn
    <3> HIDE DEF r, i, more, A, last
    <3>6. r.next \in n .. last /\ more + A(n + 1) = left + A(n)
      <4>1. r.next \in n .. last
        BY <1>1, <2>3, <3>5
      <4>2. i \in Nat /\ left \in Nat
        BY <2>7, <2>8
      <4>3. more + A(n + 1) = left + A(n)
        <5> DEFINE b == A(n + 1)
                   a == A(n)
        <5>1. b = a + i /\ a \in Nat
          BY <3>4
        <5> HIDE DEF a, b
        <5>2. more + b = left + a
          BY <3>1, <4>2, <5>1
        <5> QED BY <5>2 DEF a, b
      <4> QED BY <4>1, <4>3
    <3>7. G(n, left)
      BY <3>5, <3>6 DEF G, GoneOn, r, A, last
    <3> QED BY <2>2, <3>7
  <2>9. CASE ~(n < last /\ left >= i)
    <3>1. r = [next |-> n, progress |-> left]
      BY <2>6, <2>9
    <3>2. r.next = n /\ r.progress = left
      BY <3>1
    <3>3. n < last => left < i
      BY <2>7, <2>9
    <3>4. n \in n .. last
      BY <2>3
    <3>5. G(n, left)
      BY <3>2, <3>3, <3>4 DEF G, GoneOn
    <3> QED BY <2>2, <3>5
  <2> QED BY <2>8, <2>9
<1>4. ASSUME NEW n \in first .. last, NEW left \in Nat
      PROVE  G(n, left)
  <2>1. last - n \in Nat /\ n + (last - n) = last
    BY <1>1
  <2> HIDE DEF G
  <2> QED BY <1>3, <2>1
<1> QED BY <1>4

-----------------------------------------------------------------------------
(* What the walks and the replays say is where the track has led. *)

(* The least number of a set. *)
LEMMA LeastIs ==
  ASSUME NEW S \in SUBSET Int, NEW n \in S, \A k \in S : n <= k
  PROVE  Min(S) = n
<1>1. \A k \in S : (\A j \in S : k <= j) => k = n
  <2> TAKE k \in S
  <2> HAVE \A j \in S : k <= j
  <2>1. k <= n /\ n <= k /\ k \in Int /\ n \in Int
    OBVIOUS
  <2> QED BY <2>1
<1>2. Min(S) \in S /\ \A j \in S : Min(S) <= j
  BY DEF Min
<1> QED BY <1>1, <1>2

(* The greatest number of a set.                                           *)
LEMMA GreatestIs ==
  ASSUME NEW S \in SUBSET Int, NEW n \in S, \A k \in S : k <= n
  PROVE  Max(S) = n
<1>1. \A k \in S : (\A j \in S : k >= j) => k = n
  <2> TAKE k \in S
  <2> HAVE \A j \in S : k >= j
  <2>1. k <= n /\ n <= k /\ k \in Int /\ n \in Int
    OBVIOUS
  <2> QED BY <2>1
<1>2. Max(S) \in S /\ \A j \in S : Max(S) >= j
  BY DEF Max
<1> QED BY <1>1, <1>2

(* The way to a point is no shorter than the distance to it. *)
LEMMA WayIsNoShorter ==
  ASSUME NEW points \in Seq(Point), NEW from \in Int, NEW first \in 1 .. Len(points)
  PROVE  \A n \in first .. Len(points) : Distance(from, points[n].at) <= Way(from, points, first, n)
<1> DEFINE last == Len(points)
           W(n) == Way(from, points, first, n)
           Bad == {j \in Nat : first + j \in first .. last /\ ~(Distance(from, points[first + j].at) <= W(first + j))}
<1>1. last \in Nat /\ first \in Nat /\ first >= 1 /\ \A n \in 1 .. last : points[n].at \in Int
  BY PointsOfTrack
<1>2. Bad = {}
  <2> SUFFICES ASSUME Bad # {}
               PROVE  FALSE
    OBVIOUS
  <2>1. PICK j \in Bad : \A k \in Bad : j <= k
    BY LeastNatural
  <2>2. j \in Nat /\ first + j \in first .. last /\ ~(Distance(from, points[first + j].at) <= W(first + j))
    BY <2>1
  <2> DEFINE n == first + j
  <2>3. CASE j = 0
    <3>1. n = first /\ first \in 1 .. last
      BY <1>1, <2>3
    <3>2. W(n) = Distance(from, points[n].at)
      BY <3>1, Ways
    <3>3. Distance(from, points[n].at) \in Nat
      BY <1>1, <3>1, Distances
    <3> QED BY <2>2, <3>2, <3>3
  <2>4. CASE j # 0
    <3>1. j - 1 \in Nat /\ ~(j <= j - 1) /\ first + (j - 1) = n - 1
      BY <1>1, <2>2, <2>4
    <3>2. j - 1 \notin Bad
      BY <2>1, <3>1
    <3>3. n - 1 \in first .. last /\ n \in first + 1 .. last /\ n - 1 \in 1 .. last /\ n \in 1 .. last
      <4> HIDE DEF last
      <4> QED BY SMTT(30), <1>1, <2>2, <2>4
    <3>4. Distance(from, points[n - 1].at) <= W(n - 1)
      BY <3>1, <3>2, <3>3
    <3>5. W(n) = W(n - 1) + Distance(points[n - 1].at, points[n].at) /\ W(n - 1) \in Nat
      BY <3>3, Ways
    <3>6. points[n - 1].at \in Int /\ points[n].at \in Int
      BY <1>1, <3>3
    <3>7. Distance(from, points[n].at) <= Distance(from, points[n - 1].at) + Distance(points[n - 1].at, points[n].at)
      BY <3>6, Distances
    <3>8. /\ Distance(from, points[n].at) \in Nat /\ Distance(from, points[n - 1].at) \in Nat
          /\ Distance(points[n - 1].at, points[n].at) \in Nat
      BY <3>6, Distances
    <3> HIDE DEF n, W
    <3>9. Distance(from, points[n].at) <= W(n)
      BY <3>4, <3>5, <3>7, <3>8
    <3> QED BY <2>2, <3>9 DEF n
  <2> QED BY <2>3, <2>4
<1>3. ASSUME NEW n \in first .. last
      PROVE  Distance(from, points[n].at) <= W(n)
  <2>1. n - first \in Nat /\ first + (n - first) = n
    BY <1>1
  <2> QED BY <1>2, <2>1
<1> QED BY <1>3

(* A receiver that walks is where its way has led by now. *)
LEMMA WalksAreOnTheWay ==
  ASSUME NEW m, m.points \in Seq(Point), NEW from \in Int, NEW first \in 1 .. Len(m.points),
         NEW at \in Int, NEW n \in 1 .. Len(m.points), NEW gone \in Nat,
         Walks(from, m.points, first, at, n, gone)
  PROVE  at = OnTheWay(from, m, first, gone)
<1> DEFINE points == m.points
           last == Len(points)
           W(k) == Way(from, points, first, k)
           ahead == {k \in first .. last : W(k) > gone}
           Led(k) == Toward(Start(from, points, first, k), points[k].at, gone - Behind(from, points, first, k))
<1>1. last \in Nat /\ first \in 1 .. last /\ first \in Nat /\ \A k \in 1 .. last : points[k].at \in Int
  BY PointsOfTrack
<1>2. \A k \in first .. last : W(k) \in Nat
  BY Ways
<1>3. ASSUME ahead = {}
      PROVE  OnTheWay(from, m, first, gone) = points[last].at
  BY <1>3 DEF OnTheWay
<1>4. ASSUME NEW k \in ahead, \A j \in ahead : k <= j
      PROVE  OnTheWay(from, m, first, gone) = Led(k)
  <2>1. ahead \in SUBSET Int /\ ahead # {} /\ k \in first .. last
    OBVIOUS
  <2>2. Min(ahead) = k
    <3> HIDE DEF ahead
    <3> QED BY <1>4, <2>1, LeastIs
  <2>3. OnTheWay(from, m, first, gone)
          = Toward(Start(from, points, first, k), points[k].at,
                   IF k = first THEN gone ELSE gone - W(k - 1))
    BY <2>1, <2>2 DEF OnTheWay, Start
  <2>4. (IF k = first THEN gone ELSE gone - W(k - 1)) = gone - Behind(from, points, first, k)
    BY DEF Behind
  <2> QED BY <2>3, <2>4
<1>5. CASE n = first /\ at = from /\ gone = 0
  <2>1. CASE ahead = {}
    <3>1. last \in first .. last
      BY <1>1
    <3>2. W(last) = 0
      <4>1. ~(W(last) > gone) /\ W(last) \in Nat
        BY <1>2, <2>1, <3>1
      <4> QED BY <4>1, <1>5
    <3>3. Distance(from, points[last].at) <= 0
      BY <3>1, <3>2, WayIsNoShorter
    <3>4. points[last].at = from
      <4>1. points[last].at \in Int
        BY <1>1, <3>1
      <4> QED BY <3>3, <4>1 DEF Distance
    <3> QED BY <1>3, <1>5, <2>1, <3>4
  <2>2. CASE ahead # {}
    <3>1. ahead \in SUBSET Nat
      BY <1>1
    <3>2. PICK k \in ahead : \A j \in ahead : k <= j
      <4> HIDE DEF ahead
      <4> QED BY <2>2, <3>1, LeastNatural
    <3>3. k \in first .. last /\ points[k].at \in Int
      BY <1>1
    <3>4. Start(from, points, first, k) = from /\ Behind(from, points, first, k) = 0
      <4>1. CASE k = first
        BY <4>1 DEF Start, Behind
      <4>2. CASE k # first
        <5>1. k - 1 \in first .. last /\ ~(k <= k - 1)
          BY <1>1, <3>3, <4>2
        <5>2. k - 1 \notin ahead
          BY <3>2, <5>1
        <5>3. W(k - 1) = 0
          <6>1. ~(W(k - 1) > gone) /\ W(k - 1) \in Nat
            BY <1>2, <5>1, <5>2
          <6> QED BY <6>1, <1>5
        <5>4. Distance(from, points[k - 1].at) <= 0
          BY <5>1, <5>3, WayIsNoShorter
        <5>5. points[k - 1].at = from
          <6>1. points[k - 1].at \in Int
            BY <1>1, <5>1
          <6> QED BY SMTT(30), <5>4, <6>1 DEF Distance
        <5> QED BY <4>2, <5>3, <5>5 DEF Start, Behind
      <4> QED BY <4>1, <4>2
    <3>5. Led(k) = Toward(from, points[k].at, 0)
      BY <1>5, <3>4
    <3>6. Led(k) = from
      BY <3>3, <3>5, Distances
    <3> QED BY <1>4, <1>5, <3>2, <3>6
  <2> QED BY <2>1, <2>2
<1>6. CASE Underway(from, points, first, at, n, gone) /\ gone < W(n)
  <2>1. n \in first .. last /\ at = Led(n) /\ \A k \in first .. n - 1 : W(k) <= gone
    BY <1>6 DEF Underway
  <2>2. n \in ahead
    BY <1>6, <2>1
  <2>3. \A j \in ahead : n <= j
    <3> TAKE j \in ahead
    <3>1. j \in first .. last /\ W(j) > gone /\ W(j) \in Nat
      BY <1>2
    <3>2. j \notin first .. n - 1
      BY <2>1, <3>1
    <3> HIDE DEF last
    <3> QED BY <1>1, <2>1, <3>1, <3>2
  <2> QED BY <1>4, <2>1, <2>2, <2>3
<1>7. CASE Arrived(from, points, first, at, n, gone)
  <2>1. n = last /\ at = points[last].at /\ \A k \in first .. last : W(k) <= gone
    BY <1>7 DEF Arrived
  <2>2. ahead = {}
    BY <1>2, <2>1
  <2> QED BY <1>3, <2>1, <2>2
<1> QED BY <1>5, <1>6, <1>7 DEF Walks

(* A replay has come to the last point whose time has come. *)
LEMMA ReplaysAreThere ==
  ASSUME NEW m, m.points \in Seq(Point), NEW from, NEW first \in 1 .. Len(m.points),
         NEW at, NEW n, NEW progress \in Nat, NEW time \in Nat,
         Replays(from, m.points, first, at, n, progress, time),
         n < Len(m.points) => progress < Interval(m.points[n], m.points[n + 1])
  PROVE  at = ReplayedTo(from, m, first, time)
<1> DEFINE points == m.points
           last == Len(points)
           A(k) == Arrival(points, first, k)
           past == {k \in first .. last : A(k) <= time}
<1>1. last \in Nat /\ first \in 1 .. last /\ first \in Nat
  BY PointsOfTrack
<1>2. /\ \A k \in first .. last : A(k) \in Nat
      /\ \A k \in first .. last - 1 : A(k + 1) = A(k) + Interval(points[k], points[k + 1])
      /\ \A j, k \in first .. last : j <= k => A(j) <= A(k)
  BY Arrivals
<1>3. n \in first .. last /\ progress + A(n) = time /\ at = IF n = first THEN from ELSE points[n].at
  BY DEF Replays
<1>4. n \in past
  BY <1>2, <1>3
<1>5. ASSUME NEW k \in past
      PROVE  k <= n
  <2>1. k \in first .. last /\ A(k) <= time
    OBVIOUS
  <2>2. ASSUME n < k
        PROVE  FALSE
    <3>1. n \in first .. last - 1 /\ n + 1 \in first .. last /\ n + 1 <= k /\ n < last
      <4> HIDE DEF last
      <4> QED BY <1>1, <1>3, <2>1, <2>2
    <3>2. A(n + 1) = A(n) + Interval(points[n], points[n + 1]) /\ A(n + 1) <= A(k)
      BY <1>2, <2>1, <3>1
    <3>3. points[n] \in Point /\ points[n + 1] \in Point
      BY <1>1, <1>3, <3>1, PointsOfTrack
    <3>4. Interval(points[n], points[n + 1]) \in Nat
      BY <3>3, IntervalsArePositive
    <3>5. progress < Interval(points[n], points[n + 1])
      BY <3>1
    <3>6. A(n) \in Nat /\ A(k) \in Nat
      BY <1>2, <1>3, <2>1
    <3> DEFINE i == Interval(points[n], points[n + 1])
    <3> HIDE DEF A, i
    <3> QED BY <1>3, <2>1, <3>2, <3>4, <3>5, <3>6 DEF i
  <2> QED BY <1>1, <1>3, <2>1, <2>2
<1>6. Max(past) = n
  <2>1. past \in SUBSET Int
    OBVIOUS
  <2> HIDE DEF past
  <2> QED BY <1>4, <1>5, <2>1, GreatestIs
<1> QED BY <1>3, <1>6 DEF ReplayedTo

(* The same instant is reached by one tick or by two. *)
LEMMA TimeAdds ==
  ASSUME NEW time \in Nat, NEW dt \in Nat, NEW speed \in {-1, 0, 1, 2}
  PROVE  /\ (time + dt) * speed = time * speed + speed * dt
         /\ time * speed \in Int /\ speed * dt \in Int
         /\ speed > 0 => time * speed \in Nat /\ speed * dt \in Nat
<1>1. speed = -1 \/ speed = 0 \/ speed = 1 \/ speed = 2
  OBVIOUS
<1>2. CASE speed = -1
  BY <1>2
<1>3. CASE speed = 0
  BY <1>3
<1>4. CASE speed = 1
  BY <1>4
<1>5. CASE speed = 2
  BY <1>5
<1> QED BY <1>1, <1>2, <1>3, <1>4, <1>5

(* A receiver that is set off stands where it is. *)
LEMMA SetOffFollows ==
  ASSUME NEW at \in Int, NEW m, TypedMovement(m), NEW progress \in Nat, NothingDue(m, progress)
  PROVE  Follows(at, m, progress, [at |-> at, next |-> m.next, progress |-> progress, time |-> 0])
<1> DEFINE o == [at |-> at, next |-> m.next, progress |-> progress, time |-> 0]
           last == Len(m.points)
<1>1. m.kind \in MovementKinds /\ m.points \in Seq(Point) /\ m.speed \in {-1, 0, 1, 2} /\ m.next \in Nat
  BY DEF TypedMovement, Movements
<1>2. o.at = at /\ o.next = m.next /\ o.progress = progress /\ o.time = 0 /\ o \in Origins
  BY <1>1 DEF Origins
<1>3. o.time * m.speed = 0
  BY <1>1, <1>2
<1>4. m.kind \in Tracked => m.next \in 1 .. last /\ last \in Nat
  BY <1>1 DEF TypedMovement
<1>5. Epoch \in Nat /\ Epoch > 0
  BY GpsAssumption
<1> HIDE DEF o
<1>6. m.kind = "linear" => at = o.at + 0
  BY <1>2
<1>7. m.kind = "waypoint" => Walks(o.at, m.points, o.next, at, m.next, 0)
  BY <1>2 DEF Walks
<1>8. ASSUME m.kind = "samples"
      PROVE  /\ progress = (o.progress + 0) % Epoch /\ o.progress < Epoch
             /\ m.next = Min({o.next + (o.progress + 0) \div Epoch, Len(m.points)})
             /\ at = SampledAt(o.at, m, o.next, o.progress + 0)
  <2>1. progress < Epoch /\ m.next \in 1 .. last /\ last \in Nat
    BY <1>4, <1>8 DEF NothingDue, Tracked
  <2>2. progress % Epoch = progress /\ progress \div Epoch = 0
    BY <1>5, <2>1
  <2>3. o.progress + 0 = progress /\ o.next + 0 = m.next
    BY <1>1, <1>2
  <2>4. Min({m.next, last}) = m.next
    BY <2>1, MinOfTwo
  <2>5. SampledAt(o.at, m, o.next, progress) = at
    BY <1>2, <2>1 DEF SampledAt
  <2> QED BY <1>2, <2>1, <2>2, <2>3, <2>4, <2>5
<1>9. ASSUME m.kind = "timed"
      PROVE  Replays(o.at, m.points, o.next, at, m.next, progress, o.progress + 0)
  <2>1. m.next \in 1 .. last /\ last \in Nat
    BY <1>4, <1>9 DEF Tracked
  <2>2. Arrival(m.points, m.next, m.next) = 0
    BY <1>1, <2>1, Arrivals
  <2> QED BY <1>2, <2>1, <2>2 DEF Replays
<1> QED BY <1>2, <1>3, <1>4, <1>6, <1>7, <1>8, <1>9 DEF Follows, o

(* What a movement model makes of a receiver's place, next point and progress. *)
Onward(new, g, at, next, progress) ==
  /\ new.at = at /\ new.progress = progress
  /\ new.movement = [g.movement EXCEPT !.next = next]

(* What each movement model does to a receiver.                            *)
LEMMA MovedOn ==
  ASSUME NEW g, NEW dt, ReceiverOK(g)
  PROVE  LET m == g.movement
             new == Moved(g, dt)
         IN
         /\ m.kind = "static" => new = g
         /\ m.kind = "linear" => Onward(new, g, g.at + m.speed * dt, m.next, g.progress)
         /\ m.kind = "waypoint" =>
              Onward(new, g, AdvanceWaypoints(g.at, m, m.speed * dt).at,
                     AdvanceWaypoints(g.at, m, m.speed * dt).next, g.progress)
         /\ m.kind = "samples" =>
              LET progress == g.progress + m.speed * dt
                  next == Min({m.next + progress \div Epoch, Len(m.points)})
              IN  Onward(new, g, IF progress \div Epoch > 0 THEN m.points[next].at ELSE g.at,
                         next, progress % Epoch)
         /\ m.kind = "timed" =>
              LET moved == AdvanceReplay(m, g.progress + m.speed * dt)
              IN  Onward(new, g, IF moved.next > m.next THEN m.points[moved.next].at ELSE g.at,
                         moved.next, moved.progress)
<1> DEFINE m == g.movement
           new == Moved(g, dt)
<1>1. ASSUME NEW x
      PROVE  Onward([g EXCEPT !.at = x], g, x, m.next, g.progress)
  BY DEF ReceiverOK, MovementOK, Onward
<1>2. ASSUME NEW x, NEW y
      PROVE  Onward([g EXCEPT !.at = x, !.movement.next = y], g, x, y, g.progress)
  BY DEF ReceiverOK, MovementOK, Onward
<1>3. ASSUME NEW x, NEW y, NEW z
      PROVE  Onward([g EXCEPT !.progress = z, !.movement.next = y, !.at = x], g, x, y, z)
  BY DEF ReceiverOK, MovementOK, Onward
<1>4. m.kind = "static" => new = g
  BY DEF Moved
<1>5. ASSUME m.kind = "linear"
      PROVE  Onward(new, g, g.at + m.speed * dt, m.next, g.progress)
  <2>1. new = [g EXCEPT !.at = g.at + m.speed * dt]
    BY <1>5 DEF Moved
  <2> QED BY <2>1, <1>1
<1>6. ASSUME m.kind = "waypoint"
      PROVE  Onward(new, g, AdvanceWaypoints(g.at, m, m.speed * dt).at,
                    AdvanceWaypoints(g.at, m, m.speed * dt).next, g.progress)
  <2> DEFINE moved == AdvanceWaypoints(g.at, m, m.speed * dt)
  <2>1. new = [g EXCEPT !.at = moved.at, !.movement.next = moved.next]
    BY <1>6 DEF Moved
  <2>2. Onward(new, g, moved.at, moved.next, g.progress)
    <3> HIDE DEF moved, new
    <3> QED BY <2>1, <1>2
  <2> QED BY <2>2
<1>7. ASSUME m.kind = "samples"
      PROVE  LET progress == g.progress + m.speed * dt
                 next == Min({m.next + progress \div Epoch, Len(m.points)})
             IN  Onward(new, g, IF progress \div Epoch > 0 THEN m.points[next].at ELSE g.at,
                        next, progress % Epoch)
  <2> DEFINE progress == g.progress + m.speed * dt
             next == Min({m.next + progress \div Epoch, Len(m.points)})
             at == IF progress \div Epoch > 0 THEN m.points[next].at ELSE g.at
  <2>1. new = [g EXCEPT !.progress = progress % Epoch, !.movement.next = next, !.at = at]
    BY <1>7 DEF Moved
  <2>2. Onward(new, g, at, next, progress % Epoch)
    <3> HIDE DEF at, next, progress, new
    <3> QED BY <2>1, <1>3
  <2> QED BY <2>2
<1>8. ASSUME m.kind = "timed"
      PROVE  LET moved == AdvanceReplay(m, g.progress + m.speed * dt)
             IN  Onward(new, g, IF moved.next > m.next THEN m.points[moved.next].at ELSE g.at,
                        moved.next, moved.progress)
  <2> DEFINE moved == AdvanceReplay(m, g.progress + m.speed * dt)
             at == IF moved.next > m.next THEN m.points[moved.next].at ELSE g.at
  <2>1. new = [g EXCEPT !.progress = moved.progress, !.movement.next = moved.next, !.at = at]
    BY <1>8 DEF Moved
  <2>2. Onward(new, g, at, moved.next, moved.progress)
    <3> HIDE DEF at, moved, new
    <3> QED BY <2>1, <1>3
  <2> QED BY <2>2
<1> QED BY <1>4, <1>5, <1>6, <1>7, <1>8
(* Counting seconds: the whole ones of the sum.                            *)
LEMMA SecondsAdd ==
  ASSUME NEW x \in Nat, NEW more \in Nat, NEW y, y = (x % Epoch) + more, NEW z, z = x + more
  PROVE  /\ y \in Nat /\ z \in Nat /\ y % Epoch = z % Epoch
         /\ x \div Epoch \in Nat /\ y \div Epoch \in Nat /\ z \div Epoch \in Nat
         /\ z \div Epoch = (x \div Epoch) + (y \div Epoch)
         /\ (x < Epoch <=> x \div Epoch = 0) /\ (z < Epoch <=> z \div Epoch = 0)
<1> DEFINE r == x % Epoch
           s == z % Epoch
           t == y % Epoch
           a == x \div Epoch
           b == y \div Epoch
           c == z \div Epoch
<1>1. Epoch \in Nat /\ Epoch > 0
  BY GpsAssumption
<1>2. r \in 0 .. Epoch - 1 /\ a \in Nat /\ x = Epoch * a + r
  BY <1>1
<1>3. t = s
  BY ElapsedAdds
<1>4. y \in Nat /\ z \in Nat /\ y = r + more
  BY <1>2
<1>5. t \in 0 .. Epoch - 1 /\ b \in Nat /\ y = Epoch * b + t
  BY <1>1, <1>4
<1>6. s \in 0 .. Epoch - 1 /\ c \in Nat /\ z = Epoch * c + s
  BY <1>1, <1>4
<1> HIDE DEF r, s, t, a, b, c
<1>7. c = a + b
  <2>1. Epoch * (c - (a + b)) = 0
    <3>1. Epoch * c + s = Epoch * a + r + more
      BY <1>2, <1>6
    <3>2. r + more = Epoch * b + s
      BY <1>3, <1>4, <1>5
    <3>3. Epoch * c + s = Epoch * a + (Epoch * b + s)
      BY <1>1, <1>2, <3>1, <3>2
    <3> QED BY <1>1, <1>2, <1>5, <1>6, <3>3
  <2> QED BY <1>1, <1>2, <1>5, <1>6, <2>1
<1>8. ASSUME NEW w \in Nat, NEW q \in Nat, NEW e \in 0 .. Epoch - 1, w = Epoch * q + e
      PROVE  w < Epoch <=> q = 0
  <2>1. CASE q = 0
    BY <1>1, <1>8, <2>1
  <2>2. CASE q >= 1
    <3>1. Epoch * q >= Epoch
      BY <1>1, <2>2
    <3>2. Epoch * q \in Int
      BY <1>1
    <3> QED BY <1>1, <1>8, <2>2, <3>1, <3>2
  <2> QED BY <2>1, <2>2
<1>9. (x < Epoch <=> a = 0) /\ (z < Epoch <=> c = 0)
  BY <1>2, <1>4, <1>6, <1>8
<1> QED BY <1>2, <1>3, <1>4, <1>5, <1>6, <1>7, <1>9 DEF a, b, c, s, t

(* What a tick finds of the movement, and what it must leave.              *)
LEMMA MovedFollows ==
  ASSUME NEW g, ReceiverOK(g), NEW o, Follows(g.at, g.movement, g.progress, o),
         NEW dt \in Nat, NEW p, p = [o EXCEPT !.time = @ + dt]
  PROVE  Follows(Moved(g, dt).at, Moved(g, dt).movement, Moved(g, dt).progress, p)
<1> DEFINE m == g.movement
           new == Moved(g, dt)
           points == m.points
           last == Len(points)
           gone == o.time * m.speed
           more == m.speed * dt
           then == p.time * m.speed
<1>1. /\ m.kind \in MovementKinds /\ points \in Seq(Point) /\ m.speed \in {-1, 0, 1, 2} /\ m.next \in Nat
      /\ m \in [kind : MovementKinds, points : Seq(Point), speed : {-1, 0, 1, 2}, next : Nat]
      /\ m.kind \in Tracked => m.next \in 1 .. last /\ o.next \in 1 .. last /\ m.speed > 0
      /\ g.at \in Int /\ g.progress \in Nat /\ o \in Origins
  BY DEF Follows, TypedMovement, Movements
<1>2. /\ p \in Origins /\ p.at = o.at /\ p.next = o.next /\ p.progress = o.progress /\ p.time = o.time + dt
      /\ o.time \in Nat /\ o.at \in Int /\ o.next \in Nat /\ o.progress \in Nat
  <2>1. o.time \in Nat /\ o.at \in Int /\ o.next \in Nat /\ o.progress \in Nat
    BY <1>1 DEF Origins
  <2>2. o.time + dt \in Nat
    BY <2>1
  <2>3. p = [o EXCEPT !.time = o.time + dt]
    OBVIOUS
  <2> QED BY <1>1, <2>1, <2>2, <2>3 DEF Origins
<1>3. /\ then = gone + more /\ gone \in Int /\ more \in Int
      /\ m.kind \in Tracked => gone \in Nat /\ more \in Nat
  <2>1. /\ (o.time + dt) * m.speed = gone + more /\ gone \in Int /\ more \in Int
        /\ m.speed > 0 => gone \in Nat /\ more \in Nat
    <3> DEFINE time == o.time
               speed == m.speed
    <3>1. time \in Nat /\ speed \in {-1, 0, 1, 2}
      BY <1>1, <1>2
    <3> HIDE DEF time, speed
    <3>2. /\ (time + dt) * speed = time * speed + speed * dt
          /\ time * speed \in Int /\ speed * dt \in Int
          /\ speed > 0 => time * speed \in Nat /\ speed * dt \in Nat
      BY <3>1, TimeAdds
    <3> QED BY <3>2 DEF time, speed
  <2> HIDE DEF gone, more
  <2> QED BY <1>1, <1>2, <2>1
<1>4. last \in Nat /\ Epoch \in Nat /\ Epoch > 0
  BY <1>1, GpsAssumption
<1>5. /\ m.kind = "static" => g.at = o.at
      /\ m.kind = "linear" => g.at = o.at + gone
      /\ m.kind = "waypoint" => Walks(o.at, points, o.next, g.at, m.next, gone)
      /\ m.kind = "samples" =>
           /\ g.progress = (o.progress + gone) % Epoch /\ o.progress < Epoch
           /\ m.next = Min({o.next + (o.progress + gone) \div Epoch, last})
           /\ g.at = SampledAt(o.at, m, o.next, o.progress + gone)
      /\ m.kind = "timed" => Replays(o.at, points, o.next, g.at, m.next, g.progress, o.progress + gone)
  BY DEF Follows
<1> DEFINE Next(next) == [m EXCEPT !.next = next]
<1>6. ASSUME NEW next \in Nat, m.kind \in Tracked => next \in 1 .. last
      PROVE  /\ TypedMovement(Next(next)) /\ Next(next).kind = m.kind /\ Next(next).points = points
             /\ Next(next).speed = m.speed /\ Next(next).next = next
  <2>1. m.kind \in Tracked => points # << >>
    BY DEF Follows, TypedMovement
  <2> QED BY <1>1, <1>6, <2>1 DEF TypedMovement, Movements
<1>7. CASE m.kind = "static"
  <2>1. new = g
    BY <1>7, MovedOn
  <2>2. p \in Origins /\ g.at = p.at /\ m.kind \notin Tracked
    BY <1>2, <1>5, <1>7 DEF Tracked
  <2> QED BY <1>7, <2>1, <2>2 DEF Follows, NothingDue
<1>8. CASE m.kind = "linear"
  <2>1. new.at = g.at + more /\ new.progress = g.progress /\ new.movement = Next(m.next)
    BY <1>8, MovedOn DEF Onward
  <2>2. Next(m.next) = m
    BY <1>1
  <2> HIDE DEF new, gone, more, then, Next
  <2>3. new.at \in Int /\ new.at = p.at + then
    BY SMTT(30), <1>1, <1>2, <1>3, <1>5, <1>8, <2>1
  <2>4. m.kind \notin Tracked /\ NothingDue(m, new.progress)
    BY <1>8 DEF Tracked, NothingDue
  <2> QED BY <1>1, <1>2, <1>8, <2>1, <2>2, <2>3, <2>4 DEF Follows, then, new
<1>9. CASE m.kind = "waypoint"
  <2> DEFINE r == AdvanceWaypoints(g.at, m, more)
  <2>1. new.at = r.at /\ new.progress = g.progress /\ new.movement = Next(r.next)
    BY <1>9, MovedOn DEF Onward
  <2>2. m.kind \in Tracked
    BY <1>9 DEF Tracked
  <2>3. PICK f : /\ \A s \in Legs(points) : f[s] = Walked(f, points, s)
                 /\ \A at, distance : AdvanceWaypoints(at, m, distance) = f[<<at, m.next, distance>>]
    BY <1>1, WalksExist
  <2>4. r = f[<<g.at, m.next, more>>]
    BY <2>3
  <2>5. Underway(o.at, points, o.next, g.at, m.next, gone) \/ Arrived(o.at, points, o.next, g.at, m.next, gone)
    <3>1. CASE m.next = o.next /\ g.at = o.at /\ gone = 0
      <4>1. m.next \in o.next .. last /\ Start(o.at, points, o.next, m.next) = o.at
            /\ Behind(o.at, points, o.next, m.next) = 0
        BY <1>1, <1>2, <2>2, <3>1 DEF Start, Behind
      <4>2. Way(o.at, points, o.next, m.next) \in Nat /\ points[m.next].at \in Int
        BY <1>1, <1>2, <2>2, <4>1, LegOfWay
      <4>3. g.at = Toward(o.at, points[m.next].at, 0)
        BY <1>2, <3>1, <4>2, Distances
      <4>4. 0 - 0 = 0 /\ 0 <= Way(o.at, points, o.next, m.next) /\ \A k \in o.next .. m.next - 1 : FALSE
        BY <1>1, <3>1, <4>2
      <4> HIDE DEF gone
      <4> QED BY <3>1, <4>1, <4>3, <4>4 DEF Underway
    <3>2. CASE ~(m.next = o.next /\ g.at = o.at /\ gone = 0)
      BY <1>5, <1>9, <3>2 DEF Walks
    <3> QED BY <3>1, <3>2
  <2>6. Lands(o.at, points, o.next, r, gone + more)
    <3>1. o.at \in Int /\ o.next \in 1 .. last /\ m.next \in 1 .. last /\ g.at \in Int /\ gone \in Nat /\ more \in Nat
      BY <1>1, <1>2, <1>3, <2>2
    <3> HIDE DEF gone, more, r
    <3> QED BY <1>1, <2>3, <2>4, <2>5, <3>1, WalkLands
  <2>7. r.next \in 1 .. last /\ r.next \in Nat /\ r.at \in Int
    <3>1. r.next \in o.next .. last /\ r.at \in Int /\ o.next \in 1 .. last
      BY <1>1, <2>2, <2>6 DEF Lands
    <3> HIDE DEF r, last
    <3> QED BY <1>4, <3>1
  <2>8. Walks(o.at, points, o.next, r.at, r.next, then)
    <3> HIDE DEF gone, more, then, r
    <3> QED BY <1>3, <2>6 DEF Lands, Walks
  <2> HIDE DEF r, new, Next, then, gone, more
  <2>9. /\ TypedMovement(new.movement) /\ new.movement.kind = "waypoint" /\ new.movement.points = points
        /\ new.movement.speed = m.speed /\ new.movement.next = r.next
    BY <1>6, <1>9, <2>1, <2>7
  <2>10. NothingDue(new.movement, new.progress)
    BY <2>9 DEF NothingDue
  <2> QED BY <1>1, <1>2, <2>1, <2>2, <2>7, <2>8, <2>9, <2>10 DEF Follows, then, new
<1>10. CASE m.kind = "timed"
  <2> DEFINE left == g.progress + more
             r == AdvanceReplay(m, left)
             at == IF r.next > m.next THEN points[r.next].at ELSE g.at
  <2>1. new.at = at /\ new.progress = r.progress /\ new.movement = Next(r.next)
    BY <1>10, MovedOn DEF Onward
  <2>2. m.kind \in Tracked
    BY <1>10 DEF Tracked
  <2>3. PICK f : /\ \A s \in Steps(points) : f[s] = Stepped(f, points, s)
                 /\ \A progress : AdvanceReplay(m, progress) = f[<<m.next, progress>>]
    BY <1>1, ReplaysExist
  <2>4. r = f[<<m.next, left>>]
    BY <2>3
  <2>5. /\ m.next \in o.next .. last /\ o.next \in 1 .. last
        /\ g.progress + Arrival(points, o.next, m.next) = o.progress + gone
        /\ g.at = IF m.next = o.next THEN o.at ELSE points[m.next].at
    BY <1>1, <1>5, <1>10, <2>2 DEF Replays
  <2>6. gone \in Nat /\ more \in Nat /\ left \in Nat
    BY <1>1, <1>3, <2>2
  <2>7. GoneOn(points, o.next, r, m.next, left)
    <3> HIDE DEF gone, more, r, left
    <3> QED BY <1>1, <2>3, <2>4, <2>5, <2>6, ReplayLands
  <2>8. /\ r.next \in m.next .. last /\ r.progress \in Nat
        /\ r.progress + Arrival(points, o.next, r.next) = left + Arrival(points, o.next, m.next)
        /\ r.next < last => r.progress < Interval(points[r.next], points[r.next + 1])
    BY <2>7 DEF GoneOn
  <2> HIDE DEF r, new, Next, last, then
  <2>9. r.next \in o.next .. last /\ r.next \in 1 .. last /\ r.next \in Nat
    BY <1>4, <2>5, <2>8
  <2>10. r.progress + Arrival(points, o.next, r.next) = o.progress + then
    <3> DEFINE b == Arrival(points, o.next, r.next)
               a == Arrival(points, o.next, m.next)
    <3>1. a \in Nat /\ b \in Nat
      BY <1>1, <2>5, <2>9, Arrivals DEF last
    <3>2. r.progress + b = left + a /\ g.progress + a = o.progress + gone
      BY <2>5, <2>8
    <3> HIDE DEF a, b, gone, more
    <3>3. r.progress + b = o.progress + then
      <4>1. then = gone + more /\ left = g.progress + more
        BY <1>3
      <4>2. g.progress \in Nat /\ o.progress \in Nat /\ r.progress \in Nat /\ gone \in Nat /\ more \in Nat
        BY <1>1, <1>2, <2>6, <2>8
      <4>3. r.progress + b = (g.progress + a) + more
        BY <3>1, <3>2, <4>1, <4>2
      <4> QED BY <3>2, <4>1, <4>2, <4>3
    <3> QED BY <3>3 DEF b
  <2>11. at = (IF r.next = o.next THEN o.at ELSE points[r.next].at) /\ at \in Int
    <3>1. points[r.next].at \in Int
      BY <1>1, <2>9, PointsOfTrack DEF last
    <3>2. r.next = m.next \/ r.next > m.next
      BY <1>1, <2>8
    <3>3. r.next > m.next => r.next # o.next
      BY <1>1, <2>5, <2>8
    <3>4. r.next = m.next => ~(r.next > m.next)
      BY <1>1
    <3> QED BY <1>1, <2>5, <3>1, <3>2, <3>3, <3>4
  <2> HIDE DEF at, left, gone, more
  <2>12. /\ TypedMovement(new.movement) /\ new.movement.kind = "timed" /\ new.movement.points = points
         /\ new.movement.speed = m.speed /\ new.movement.next = r.next
    BY <1>6, <1>10, <2>1, <2>9
  <2>13. NothingDue(new.movement, new.progress)
    BY <2>1, <2>8, <2>12 DEF NothingDue, last
  <2>14. Replays(o.at, points, o.next, new.at, r.next, new.progress, o.progress + then)
    BY <2>1, <2>9, <2>10, <2>11 DEF Replays, last
  <2>15. new.at \in Int /\ new.progress \in Nat /\ p.next \in 1 .. Len(new.movement.points)
    BY <1>2, <2>1, <2>5, <2>8, <2>11, <2>12 DEF last
  <2> QED BY <1>2, <2>12, <2>13, <2>14, <2>15 DEF Follows, then, new
<1>11. CASE m.kind = "samples"
  <2> DEFINE x == o.progress + gone
             y == g.progress + more
             z == o.progress + then
             next == Min({m.next + y \div Epoch, last})
             at == IF y \div Epoch > 0 THEN points[next].at ELSE g.at
  <2>1. new.at = at /\ new.progress = y % Epoch /\ new.movement = Next(next)
    BY <1>11, MovedOn DEF Onward
  <2>2. m.kind \in Tracked
    BY <1>11 DEF Tracked
  <2>3. /\ m.next \in 1 .. last /\ o.next \in 1 .. last /\ gone \in Nat /\ more \in Nat
        /\ g.progress = x % Epoch /\ o.progress < Epoch
        /\ m.next = Min({o.next + x \div Epoch, last}) /\ g.at = SampledAt(o.at, m, o.next, x)
    BY <1>1, <1>3, <1>5, <1>11, <2>2
  <2>4. x \in Nat /\ y \in Nat /\ z \in Nat /\ z = x + more
    <3> HIDE DEF gone, more, then
    <3>1. then = gone + more /\ g.progress \in Nat /\ o.progress \in Nat /\ gone \in Nat /\ more \in Nat
      BY <1>1, <1>2, <1>3, <2>3
    <3> QED BY <3>1
  <2> HIDE DEF x, y, z, next, at, new, Next, last, then, gone, more
  <2> DEFINE a == x \div Epoch
             b == y \div Epoch
             c == z \div Epoch
  <2>5. /\ y % Epoch = z % Epoch /\ c = a + b /\ a \in Nat /\ b \in Nat /\ c \in Nat
        /\ (x < Epoch <=> a = 0) /\ (z < Epoch <=> c = 0)
    <3>1. y = (x % Epoch) + more
      BY <2>3 DEF y
    <3> QED BY <2>3, <2>4, <3>1, SecondsAdd
  <2>50. m.next = Min({o.next + a, last}) /\ next = Min({m.next + b, last})
    BY <2>3 DEF next
  <2>51. /\ at = IF b > 0 THEN points[next].at ELSE g.at
         /\ SampledAt(o.at, m, o.next, x) = IF x < Epoch THEN o.at ELSE points[Min({o.next + a, last})].at
         /\ SampledAt(o.at, m, o.next, z) = IF z < Epoch THEN o.at ELSE points[Min({o.next + c, last})].at
    BY DEF at, SampledAt, last
  <2> HIDE DEF a, b, c
  <2>6. next = Min({o.next + c, last}) /\ next \in 1 .. last /\ next \in Nat
    <3>1. /\ m.next = IF o.next + a <= last THEN o.next + a ELSE last
          /\ next = IF m.next + b <= last THEN m.next + b ELSE last
          /\ Min({o.next + c, last}) = IF o.next + c <= last THEN o.next + c ELSE last
      <4>1. last \in Int /\ o.next + a \in Int /\ m.next + b \in Int /\ o.next + c \in Int
        <5>1. last \in Nat /\ o.next \in Nat /\ m.next \in Nat /\ a \in Nat /\ b \in Nat /\ c \in Nat
          BY <1>1, <1>2, <1>4, <2>5
        <5> QED BY <5>1
      <4> QED BY <2>50, <4>1, MinOfTwo
    <3>2. last \in Nat /\ o.next \in Nat /\ m.next \in Nat
      BY <1>1, <1>2, <1>4 DEF last
    <3>3. CASE o.next + a <= last
      <4>1. m.next + b = o.next + c
        BY <2>5, <3>1, <3>2, <3>3
      <4> QED BY <2>3, <2>5, <3>1, <3>2, <4>1
    <3>4. CASE ~(o.next + a <= last)
      <4>1. m.next = last /\ last <= last + b /\ ~(o.next + c <= last)
        BY <2>5, <3>1, <3>2, <3>4
      <4>2. next = last
        BY <2>5, <3>1, <3>2, <4>1
      <4> QED BY <2>3, <3>1, <3>2, <4>1, <4>2
    <3> QED BY <3>3, <3>4
  <2>7. at = SampledAt(o.at, m, o.next, z) /\ at \in Int
    <3>1. points[next].at \in Int
      BY <1>1, <2>6, PointsOfTrack DEF last
    <3>2. CASE b > 0
      <4>1. ~(c = 0)
        BY <2>5, <3>2
      <4> QED BY <2>5, <2>51, <2>6, <3>1, <3>2, <4>1
    <3>3. CASE b = 0
      <4>1. c = a /\ ~(b > 0)
        BY <2>5, <3>3
      <4>2. at = g.at
        BY <2>51, <4>1
      <4>3. SampledAt(o.at, m, o.next, z) = SampledAt(o.at, m, o.next, x)
        <5>1. x < Epoch <=> z < Epoch
          BY <2>5, <4>1, Zenon
        <5>2. CASE x < Epoch
          BY <2>51, <5>1, <5>2
        <5>3. CASE ~(x < Epoch)
          <6>1. o.next + c = o.next + a
            BY <4>1
          <6>2. /\ SampledAt(o.at, m, o.next, x) = points[Min({o.next + a, last})].at
                /\ SampledAt(o.at, m, o.next, z) = points[Min({o.next + c, last})].at
            BY <2>51, <5>1, <5>3
          <6> HIDE DEF points
          <6> QED BY <6>1, <6>2
        <5> QED BY <5>2, <5>3
      <4> QED BY <1>1, <2>3, <4>2, <4>3
    <3> QED BY <2>5, <3>2, <3>3
  <2>8. /\ TypedMovement(new.movement) /\ new.movement.kind = "samples" /\ new.movement.points = points
        /\ new.movement.speed = m.speed /\ new.movement.next = next
    BY <1>6, <1>11, <2>1, <2>6
  <2>9. y % Epoch \in Nat /\ y % Epoch < Epoch
    BY <1>4, <2>4
  <2>10. NothingDue(new.movement, new.progress)
    BY <2>1, <2>8, <2>9 DEF NothingDue
  <2>11. SampledAt(o.at, m, o.next, z) = SampledAt(o.at, new.movement, o.next, z)
    BY <2>8 DEF SampledAt
  <2>12. /\ new.at \in Int /\ new.progress \in Nat /\ p.next \in 1 .. Len(new.movement.points)
         /\ new.at = SampledAt(p.at, new.movement, p.next, z)
         /\ new.progress = z % Epoch /\ p.progress < Epoch
         /\ new.movement.next = Min({p.next + z \div Epoch, Len(new.movement.points)})
    BY <1>2, <2>1, <2>3, <2>5, <2>6, <2>7, <2>8, <2>9, <2>11 DEF last, c
  <2>13. z = p.progress + p.time * new.movement.speed
    BY <1>2, <2>8 DEF z, then
  <2> QED BY <1>2, <2>8, <2>10, <2>12, <2>13 DEF Follows, new
<1> QED BY <1>1, <1>7, <1>8, <1>9, <1>10, <1>11 DEF MovementKinds

(* The origin that a receiver is given when it is set off. *)
LEMMA SetOffKeeps ==
  ASSUME NEW g, SetOff(g), gps' = g, g.at \in Int, TypedMovement(g.movement), g.progress \in Nat,
         NothingDue(g.movement, g.progress)
  PROVE  MovementInv'
<1>1. origin' = [at |-> g.at, next |-> g.movement.next, progress |-> g.progress, time |-> 0]
  BY DEF SetOff
<1>2. Follows(g.at, g.movement, g.progress, origin')
  BY <1>1, SetOffFollows
<1> QED BY <1>2 DEF MovementInv

(* What a step leaves of the place, the movement and the origin. *)
LEMMA StandsStill ==
  ASSUME MovementInv, gps' # None => gps # None /\ origin' = origin /\ gps'.at = gps.at
                                     /\ gps'.movement = gps.movement /\ gps'.progress = gps.progress
  PROVE  MovementInv'
BY DEF MovementInv

(* A movement model starts from where it was set.                          *)
LEMMA SetMovementFollows ==
  ASSUME GpsInv, MovementInv, gps # None, NEW movement, SetMovement(movement), TypedMovement(movement)
  PROVE  MovementInv'
<1> DEFINE at == IF movement.kind \in {"samples", "timed"} THEN movement.points[1].at ELSE gps.at
           new == [gps EXCEPT !.movement = movement, !.progress = 0, !.at = at]
<1>1. ReceiverOK(gps) /\ gps.at \in Int
  BY ReceiverOf DEF MovementInv, Follows
<1>2. gps' = new /\ SetOff(new)
  BY DEF SetMovement
<1>3. movement.points \in Seq(Point)
  BY DEF TypedMovement, Movements
<1>4. at \in Int
  <2>1. CASE movement.kind \in {"samples", "timed"}
    <3>1. 1 \in 1 .. Len(movement.points)
      BY <1>3, <2>1 DEF TypedMovement, Tracked
    <3> QED BY <1>3, <2>1, <3>1, PointsOfTrack
  <2>2. CASE movement.kind \notin {"samples", "timed"}
    BY <1>1, <2>2
  <2> QED BY <2>1, <2>2
<1>5. NothingDue(movement, 0)
  <2>1. Epoch \in Nat /\ Epoch > 0
    BY GpsAssumption
  <2>2. ASSUME movement.kind = "timed", movement.next < Len(movement.points)
        PROVE  0 < Interval(movement.points[movement.next], movement.points[movement.next + 1])
    <3>1. movement.next \in 1 .. Len(movement.points) /\ movement.next + 1 \in 1 .. Len(movement.points)
      BY <1>3, <2>2 DEF TypedMovement, Tracked
    <3>2. movement.points[movement.next] \in Point /\ movement.points[movement.next + 1] \in Point
      BY <1>3, <3>1, PointsOfTrack
    <3> QED BY <3>2, IntervalsArePositive
  <2> QED BY <2>1, <2>2 DEF NothingDue
<1> HIDE DEF at
<1>6. new.at = at /\ new.movement = movement /\ new.progress = 0
  BY <1>1 DEF ReceiverOK
<1> HIDE DEF new
<1> QED BY <1>2, <1>4, <1>5, <1>6, SetOffKeeps

(* A track of the documents, and the movements along it.                   *)
LEMMA TracksAreTyped ==
  /\ TypedMovement(Static)
  /\ \A speed \in {-1, 1} : TypedMovement(Movement("linear", << >>, speed))
  /\ \A track \in Tracks, speed \in {1, 2}, kind \in Tracked :
       track # << >> => TypedMovement(Movement(kind, track, speed))
<1>1. << >> \in Seq(Point)
  OBVIOUS
<1>2. TypedMovement(Static)
  BY <1>1 DEF Static, TypedMovement, Movements, MovementKinds, Tracked
<1>3. ASSUME NEW speed \in {-1, 1}
      PROVE  TypedMovement(Movement("linear", << >>, speed))
  BY <1>1 DEF Movement, TypedMovement, Movements, MovementKinds, Tracked
<1>4. ASSUME NEW track \in Tracks, NEW speed \in {1, 2}, NEW kind \in Tracked, track # << >>
      PROVE  TypedMovement(Movement(kind, track, speed))
  <2>1. track \in Seq(Point)
    BY GpsAssumption
  <2>2. 1 \in 1 .. Len(track)
    BY <1>4, <2>1
  <2>3. kind \in MovementKinds
    BY DEF Tracked, MovementKinds
  <2>4. Movement(kind, track, speed) \in Movements
    BY <2>1, <2>3 DEF Movement, Movements
  <2> QED BY <1>4, <2>2, <2>4 DEF Movement, TypedMovement
<1> QED BY <1>2, <1>3, <1>4

(* The calls that set the receiver off. *)
LEMMA SettingOffFollows ==
  ASSUME GpsInv, MovementInv
  PROVE  /\ \A at \in Positions : GpsCreate(at) \/ SetPosition(at) => MovementInv'
         /\ SetStatic => MovementInv'
         /\ \A speed \in {-1, 1} : SetLinear(speed) => MovementInv'
         /\ \A track \in Tracks, speed \in {1, 2} :
              SetWaypoints(track, speed) \/ SetGpxReplayXml(track, speed) \/ SetSamples(track, speed)
                => MovementInv'
<1>1. ASSUME NEW at \in Positions, GpsCreate(at)
      PROVE  MovementInv'
  <2>1. gps' = NewGps(at) /\ SetOff(NewGps(at)) /\ at \in Int
    BY <1>1, GpsAssumption DEF GpsCreate
  <2>2. NewGps(at).at = at /\ NewGps(at).movement = Static /\ NewGps(at).progress = 0
    BY DEF NewGps
  <2>3. NothingDue(Static, 0)
    BY DEF NothingDue, Static
  <2> QED BY <2>1, <2>2, <2>3, TracksAreTyped, SetOffKeeps
<1>2. ASSUME NEW at \in Positions, SetPosition(at)
      PROVE  MovementInv'
  <2> DEFINE new == [gps EXCEPT !.at = at]
  <2>1. gps # None /\ gps' = new /\ SetOff(new) /\ at \in Int
    BY <1>2, GpsAssumption DEF SetPosition, GpsCall
  <2>2. new.at = at /\ new.movement = gps.movement /\ new.progress = gps.progress
    BY <2>1, ReceiverOf DEF ReceiverOK
  <2>3. TypedMovement(gps.movement) /\ gps.progress \in Nat /\ NothingDue(gps.movement, gps.progress)
    BY <2>1 DEF MovementInv, Follows
  <2> HIDE DEF new
  <2> QED BY <2>1, <2>2, <2>3, SetOffKeeps
<1>3. ASSUME SetStatic
      PROVE  MovementInv'
  BY <1>3, TracksAreTyped, SetMovementFollows DEF SetStatic, GpsCall
<1>4. ASSUME NEW speed \in {-1, 1}, SetLinear(speed)
      PROVE  MovementInv'
  BY <1>4, TracksAreTyped, SetMovementFollows DEF SetLinear, GpsCall
<1>5. ASSUME NEW track \in Tracks, NEW speed \in {1, 2},
             SetWaypoints(track, speed) \/ SetGpxReplayXml(track, speed) \/ SetSamples(track, speed)
      PROVE  MovementInv'
  <2>1. "waypoint" \in Tracked /\ "timed" \in Tracked /\ "samples" \in Tracked
    BY DEF Tracked
  <2>2. CASE SetWaypoints(track, speed)
    <3>1. gps # None /\ track # << >> /\ SetMovement(Movement("waypoint", track, speed))
      BY <2>2 DEF SetWaypoints, GpsCall
    <3>2. TypedMovement(Movement("waypoint", track, speed))
      BY <2>1, <3>1, TracksAreTyped
    <3> QED BY <3>1, <3>2, SetMovementFollows
  <2>3. CASE SetGpxReplayXml(track, speed)
    <3>1. gps # None /\ track # << >> /\ SetMovement(Movement("timed", track, speed))
      BY <2>3 DEF SetGpxReplayXml, GpsCall, ParseGpx
    <3>2. TypedMovement(Movement("timed", track, speed))
      BY <2>1, <3>1, TracksAreTyped
    <3> QED BY <3>1, <3>2, SetMovementFollows
  <2>4. CASE SetSamples(track, speed)
    <3>1. gps # None /\ track # << >> /\ SetMovement(Movement("samples", track, speed))
      BY <2>4 DEF SetSamples, GpsCall
    <3>2. TypedMovement(Movement("samples", track, speed))
      BY <2>1, <3>1, TracksAreTyped
    <3> QED BY <3>1, <3>2, SetMovementFollows
  <2> QED BY <1>5, <2>2, <2>3, <2>4
<1> QED BY <1>1, <1>2, <1>3, <1>4, <1>5

(* A receiver that has not moved. *)
Stands(new, g) == new.at = g.at /\ new.movement = g.movement /\ new.progress = g.progress

(* The switch, the baud rate and the reads are no movement.                *)
LEMMA OutputStands ==
  ASSUME NEW g, ReceiverOK(g)
  PROVE  /\ \A satellites : Stands([g EXCEPT !.satellites = satellites], g)
         /\ \A enabled : Stands([g EXCEPT !.enabled = enabled], g)
         /\ \A enabled : Stands(ResetOutput([g EXCEPT !.enabled = enabled, !.output = enabled]), g)
         /\ \A baud : Stands(AtBaud(g, baud), g)
         /\ Stands(Synced(g), g)
         /\ \A elapsed : Stands([g EXCEPT !.elapsed = elapsed], g)
         /\ \A epoch, elapsed : Stands(EnqueueLatestEpoch([g EXCEPT !.elapsed = elapsed], epoch), g)
         /\ \A len : Stands(Drained(g, len), g)
<1>1. \A satellites : Stands([g EXCEPT !.satellites = satellites], g)
  BY DEF Stands, ReceiverOK
<1>2. \A enabled : Stands([g EXCEPT !.enabled = enabled], g)
  BY DEF Stands, ReceiverOK
<1>3. \A enabled : Stands(ResetOutput([g EXCEPT !.enabled = enabled, !.output = enabled]), g)
  BY DEF Stands, ReceiverOK, ResetOutput
<1>4. \A baud : Stands(AtBaud(g, baud), g)
  BY DEF Stands, ReceiverOK, AtBaud, ResetOutput
<1>5. Stands(Synced(g), g)
  BY DEF Stands, ReceiverOK, Synced, ResetOutput
<1>6. \A elapsed : Stands([g EXCEPT !.elapsed = elapsed], g)
  BY DEF Stands, ReceiverOK
<1>7. ASSUME NEW epoch, NEW elapsed
      PROVE  Stands(EnqueueLatestEpoch([g EXCEPT !.elapsed = elapsed], epoch), g)
  BY DEF Stands, ReceiverOK, EnqueueLatestEpoch
<1>8. \A len : Stands(Drained(g, len), g)
  BY DEF Stands, ReceiverOK, Drained
<1> QED BY <1>1, <1>2, <1>3, <1>4, <1>5, <1>6, <1>7, <1>8

(* The calls that are no movement.                                         *)
LEMMA OutputCallsFollow ==
  ASSUME GpsInv, MovementInv
  PROVE  /\ GpsDestroy => MovementInv'
         /\ \A satellites : SetSatellites(satellites) => MovementInv'
         /\ \A enabled : SetEnabled(enabled) \/ ManagerSetEnabled(enabled) => MovementInv'
         /\ \A baud : SetBaudRate(baud) => MovementInv'
         /\ \A size : Read(size) => MovementInv'
<1>1. ASSUME gps # None, origin' = origin, Stands(gps', gps)
      PROVE  MovementInv'
  BY <1>1, StandsStill DEF Stands
<1>2. gps # None => ReceiverOK(gps)
  BY ReceiverOf
<1>3. CASE GpsDestroy
  BY <1>3 DEF GpsDestroy, MovementInv
<1>4. ASSUME NEW satellites, SetSatellites(satellites)
      PROVE  MovementInv'
  BY <1>1, <1>2, <1>4, OutputStands DEF SetSatellites, GpsCall
<1>5. ASSUME NEW enabled, SetEnabled(enabled)
      PROVE  MovementInv'
  BY <1>1, <1>2, <1>5, OutputStands DEF SetEnabled, GpsCall
<1>6. ASSUME NEW enabled, ManagerSetEnabled(enabled)
      PROVE  MovementInv'
  BY <1>1, <1>2, <1>6, OutputStands DEF ManagerSetEnabled, GpsCall
<1>7. ASSUME NEW baud, SetBaudRate(baud)
      PROVE  MovementInv'
  BY <1>1, <1>2, <1>7, OutputStands DEF SetBaudRate, GpsCall, Record
<1>8. ASSUME NEW size, Read(size)
      PROVE  MovementInv'
  <2> DEFINE g == Synced(gps)
             len == Readable(g, size)
  <2>1. gps # None /\ gps' = Drained(g, len) /\ origin' = origin
    BY <1>8 DEF Read, GpsCall, Record
  <2>2. ReceiverOK(gps) /\ ReceiverOK(g)
    BY <1>2, <2>1, SyncedKeeps
  <2>3. Stands(g, gps)
    BY <2>2, OutputStands
  <2> HIDE DEF g, len
  <2>4. Stands(gps', g)
    BY <2>1, <2>2, OutputStands
  <2> QED BY <1>1, <2>1, <2>3, <2>4 DEF Stands
<1> QED BY <1>3, <1>4, <1>5, <1>6, <1>7, <1>8

(* The tick moves the receiver first, then makes its output.               *)
LEMMA TickFollows ==
  ASSUME GpsInv, MovementInv, NEW dt \in Deltas, Tick(dt)
  PROVE  MovementInv'
<1> DEFINE moved == Moved(gps, dt)
           g == Synced(moved)
           elapsed == g.elapsed + dt
           aged == [g EXCEPT !.elapsed = elapsed % Epoch]
           due == g.output /\ elapsed >= Epoch
<1>1. gps # None /\ dt \in Nat /\ ReceiverOK(gps) /\ Follows(gps.at, gps.movement, gps.progress, origin)
  BY GpsAssumption, ReceiverOf DEF Tick, GpsCall, MovementInv
<1>2. /\ origin' = [origin EXCEPT !.time = @ + dt]
      /\ gps' = (IF ~g.output THEN g
                 ELSE IF due THEN EnqueueLatestEpoch(aged, epochs + 1) ELSE aged)
  BY DEF Tick
<1>3. ReceiverOK(moved)
  BY <1>1, MovedKeeps
<1>4. ReceiverOK(g) /\ Stands(g, moved)
  BY <1>3, SyncedKeeps, OutputStands
<1>5. Follows(moved.at, moved.movement, moved.progress, origin')
  BY <1>1, <1>2, MovedFollows
<1> HIDE DEF moved, g, elapsed, due
<1>6. Stands(gps', g)
  <2> DEFINE seconds == elapsed % Epoch
             epoch == epochs + 1
  <2>1. Stands(g, g)
    BY DEF Stands
  <2>2. Stands(aged, g) /\ Stands(EnqueueLatestEpoch(aged, epochs + 1), g)
    <3> HIDE DEF seconds, epoch
    <3>1. /\ Stands([g EXCEPT !.elapsed = seconds], g)
          /\ Stands(EnqueueLatestEpoch([g EXCEPT !.elapsed = seconds], epoch), g)
      BY <1>4, OutputStands
    <3> QED BY <3>1 DEF seconds, epoch
  <2> HIDE DEF aged
  <2> QED BY <1>2, <2>1, <2>2
<1>7. gps'.at = moved.at /\ gps'.movement = moved.movement /\ gps'.progress = moved.progress
  BY <1>4, <1>6 DEF Stands
<1> QED BY <1>5, <1>7 DEF MovementInv

(* Every call of the receiver.                                             *)
LEMMA MovementStep ==
  ASSUME GpsInv, MovementInv, GpsNext
  PROVE  MovementInv'
BY SettingOffFollows, OutputCallsFollow, TickFollows DEF GpsNext

(* So the invariant says where the receiver is. *)
LEMMA FollowsTime ==
  ASSUME MovementInv
  PROVE  MovementFollowsTime
<1> SUFFICES ASSUME gps # None
             PROVE  LET m == gps.movement
                        time == origin.time * m.speed
                    IN  gps.at = CASE m.kind = "static" -> origin.at
                                   [] m.kind = "linear" -> origin.at + time
                                   [] m.kind = "waypoint" -> OnTheWay(origin.at, m, origin.next, time)
                                   [] m.kind = "samples" -> SampledAt(origin.at, m, origin.next, origin.progress + time)
                                   [] m.kind = "timed" -> ReplayedTo(origin.at, m, origin.next, origin.progress + time)
  BY DEF MovementFollowsTime
<1> DEFINE m == gps.movement
           time == origin.time * m.speed
<1>1. Follows(gps.at, m, gps.progress, origin)
  BY DEF MovementInv
<1>2. /\ m.kind \in MovementKinds /\ m.points \in Seq(Point) /\ m.speed \in {-1, 0, 1, 2} /\ gps.at \in Int
      /\ origin.time \in Nat /\ origin.at \in Int /\ origin.progress \in Nat /\ gps.progress \in Nat
      /\ m.kind \in Tracked => m.next \in 1 .. Len(m.points) /\ origin.next \in 1 .. Len(m.points) /\ m.speed > 0
  BY <1>1 DEF Follows, TypedMovement, Movements, Origins
<1>3. m.kind \in Tracked => time \in Nat
  BY <1>2, TimeAdds
<1>4. CASE m.kind = "static"
  BY <1>1, <1>4 DEF Follows
<1>5. CASE m.kind = "linear"
  BY <1>1, <1>5 DEF Follows
<1>6. CASE m.kind = "waypoint"
  <2>1. m.kind \in Tracked
    BY <1>6 DEF Tracked
  <2>2. Walks(origin.at, m.points, origin.next, gps.at, m.next, time)
    BY <1>1, <1>6 DEF Follows
  <2> HIDE DEF time
  <2>3. gps.at = OnTheWay(origin.at, m, origin.next, time)
    BY <1>2, <1>3, <2>1, <2>2, WalksAreOnTheWay
  <2> QED BY <1>6, <2>3 DEF time
<1>7. CASE m.kind = "samples"
  BY <1>1, <1>7 DEF Follows
<1>8. CASE m.kind = "timed"
  <2>1. m.kind \in Tracked
    BY <1>8 DEF Tracked
  <2>2. /\ Replays(origin.at, m.points, origin.next, gps.at, m.next, gps.progress, origin.progress + time)
        /\ m.next < Len(m.points) => gps.progress < Interval(m.points[m.next], m.points[m.next + 1])
    BY <1>1, <1>8 DEF Follows, NothingDue
  <2> HIDE DEF time
  <2>3. origin.progress + time \in Nat
    BY <1>2, <1>3, <2>1
  <2>4. gps.at = ReplayedTo(origin.at, m, origin.next, origin.progress + time)
    BY <1>2, <2>1, <2>2, <2>3, ReplaysAreThere
  <2> QED BY <1>8, <2>4 DEF time
<1> QED BY <1>2, <1>4, <1>5, <1>6, <1>7, <1>8 DEF MovementKinds

(* Wherever the movement models lead, the receiver is where the time it    *)
(* was ticked with power puts it, however that time was cut into ticks and *)
(* whatever its output did in between.                                     *)
THEOREM MovementIsByTime == GpsSpec => []MovementFollowsTime
<1>1. GpsInit => MovementInv
  BY DEF GpsInit, MovementInv
<1>2. GpsInv /\ MovementInv /\ UNCHANGED gpsVars => MovementInv'
  BY DEF MovementInv, gpsVars
<1>3. GpsInv /\ MovementInv /\ [GpsNext \/ (BoardNext /\ UNCHANGED gpsVars)]_<<boardVars, gpsVars>>
        => MovementInv'
  BY <1>2, MovementStep
<1>4. GpsSpec => []MovementInv
  BY <1>1, <1>3, GpsInvariant, PTL DEF GpsSpec
<1> QED BY <1>4, FollowsTime, PTL

-----------------------------------------------------------------------------
(* The buzzer.  What is left of a call is the end of one of the calls'     *)
(* programs: rail and mutex first, then a stop, and only after the stop    *)
(* anything that sounds.                                                   *)

BeforeLock == {"checkPower", "railUp", "railDown", "lock"}
AfterStop == {"quiet", "announce", "timed", "held"}
ToneSteps == BeforeLock \cup {"stop", "unlock"} \cup AfterStop

CallRest(s) ==
  /\ s \in Seq(ToneSteps)
  /\ \A i \in 1 .. Len(s) :
       /\ s[i] \in {"checkPower", "railDown"} => i < Len(s) /\ s[i + 1] = "lock"
       /\ s[i] = "lock" => i < Len(s) /\ s[i + 1] = "stop"
       /\ s[i] \in {"stop"} \cup AfterStop => i < Len(s) /\ s[i + 1] \in AfterStop \cup {"unlock"}
       /\ s[i] \in Commands \ {"stop"} => s[i + 1] = "unlock"
       /\ s[i] \in {"railUp", "unlock"} => i = Len(s)

(* Who is past the lock of its call has the mutex; who is past the stop    *)
(* has left the worker's last command a stop.  The worker's last command   *)
(* is what the last call under the mutex asked for, or has been executed.  *)
PastLock(t) == todo[t] # << >> /\ todo[t][1] \in ToneSteps \ BeforeLock
PastStop(t) == todo[t] # << >> /\ todo[t][1] \in AfterStop
CallsInv ==
  /\ todo \in [Threads -> Seq(ToneSteps)] /\ owner \in Threads \cup {Nobody}
  /\ \A t \in Threads :
       /\ CallRest(todo[t])
       /\ PastLock(t) => owner = t
       /\ PastStop(t) => wanted = "none"

ToneInv ==
  /\ railOn \in BOOLEAN /\ playing \in BOOLEAN /\ toneOn \in BOOLEAN /\ deadline \in BOOLEAN
  /\ queue \in Seq(Commands) /\ workerStore \in {"none", "true", "false"} /\ wanted \in Tones
  /\ ~HasWorker => queue = << >> /\ ~toneOn /\ workerStore = "none"
  /\ wanted = "none" => IF queue = << >> THEN ~toneOn ELSE queue[Len(queue)] = "stop"
  /\ workerStore = "false" => ~toneOn
  /\ toneOn /\ queue = << >> /\ workerStore = "none" => playing

BuzzerInv == CallsInv /\ ToneInv

(* What comes inside the mutex: a stop, then nothing that another stop     *)
(* follows, and a command to sound only at the end.                        *)
Critical(s) ==
  /\ s \in Seq(ToneSteps) /\ s # << >> /\ s[1] = "stop"
  /\ \A i \in 1 .. Len(s) :
       /\ s[i] \in {"stop"} \cup AfterStop /\ (i > 1 => s[i] \in AfterStop)
       /\ s[i] \in Commands \ {"stop"} => i = Len(s)

(* The parts calls are made of. *)
LEMMA TonePrograms ==
  /\ Critical(StopSteps)
  /\ \A tone \in Tones : Critical(StartTone(tone))
<1>1. Critical(StopSteps)
  BY DEF Critical, StopSteps, ToneSteps, AfterStop, Commands
<1>2. ASSUME NEW tone \in Tones
      PROVE  Critical(StartTone(tone))
  <2> DEFINE rest == IF tone = "none" THEN <<"quiet">> ELSE <<"announce", tone>>
  <2>1. StopSteps \in Seq(ToneSteps) /\ Len(StopSteps) = 2 /\ StopSteps[1] = "stop" /\ StopSteps[2] = "quiet"
    BY DEF StopSteps, ToneSteps, AfterStop
  <2>2. /\ rest \in Seq(ToneSteps) /\ Len(rest) \in {1, 2}
        /\ \A i \in 1 .. Len(rest) : rest[i] \in AfterStop /\ (rest[i] \in Commands \ {"stop"} => i = Len(rest))
    <3>1. CASE tone = "none"
      <4>1. rest = <<"quiet">>
        BY <3>1
      <4> QED BY <4>1 DEF ToneSteps, AfterStop, Commands
    <3>2. CASE tone # "none"
      <4>1. rest = <<"announce", tone>> /\ tone \in {"timed", "held"}
        BY <3>2 DEF Tones
      <4> HIDE DEF rest
      <4>2. rest[1] = "announce" /\ rest[2] = tone /\ Len(rest) = 2 /\ rest \in Seq(ToneSteps)
        BY <4>1 DEF ToneSteps, AfterStop
      <4>3. \A i \in 1 .. 2 : i = 1 \/ i = 2
        OBVIOUS
      <4> QED BY <4>1, <4>2, <4>3 DEF AfterStop, Commands
    <3> QED BY <3>1, <3>2
  <2> HIDE DEF rest
  <2>3. /\ StopSteps \o rest \in Seq(ToneSteps) /\ Len(StopSteps \o rest) = 2 + Len(rest)
        /\ \A i \in 1 .. 2 + Len(rest) :
             (StopSteps \o rest)[i] = IF i <= 2 THEN StopSteps[i] ELSE rest[i - 2]
    <3>1. /\ StopSteps \o rest \in Seq(ToneSteps)
          /\ Len(StopSteps \o rest) = Len(StopSteps) + Len(rest)
          /\ \A i \in 1 .. Len(StopSteps) + Len(rest) : (StopSteps \o rest)[i]
                = IF i <= Len(StopSteps) THEN StopSteps[i] ELSE rest[i - Len(StopSteps)]
      <4>1. StopSteps \in Seq(ToneSteps) /\ rest \in Seq(ToneSteps)
        BY <2>1, <2>2
      <4> QED BY <4>1, ConcatProperties
    <3> QED BY <3>1, <2>1
  <2> DEFINE whole == StopSteps \o rest
  <2>4. whole[1] = "stop" /\ whole[2] = "quiet"
    BY <2>1, <2>2, <2>3
  <2>5. \A i \in 3 .. Len(whole) : whole[i] \in AfterStop /\ (whole[i] \in Commands \ {"stop"} => i = Len(whole))
    <3> TAKE i \in 3 .. Len(whole)
    <3>1. i - 2 \in 1 .. Len(rest) /\ whole[i] = rest[i - 2]
      BY <2>2, <2>3
    <3> QED BY <3>1, <2>2, <2>3
  <2>6. Critical(whole)
    BY <2>2, <2>3, <2>4, <2>5 DEF Critical, AfterStop, Commands
  <2> QED BY <2>6 DEF StartTone, rest
<1> QED BY <1>1, <1>2

(* The program of a call under the lock. *)
LEMMA LockedRest ==
  ASSUME NEW s, Critical(s)
  PROVE  CallRest(Locked(s)) /\ Locked(s) # << >> /\ Locked(s)[1] = "lock"
<1> DEFINE n == Len(s)
           whole == Locked(s)
<1>1. /\ <<"lock">> \o s \in Seq(ToneSteps) /\ Len(<<"lock">> \o s) = 1 + n
      /\ \A i \in 1 .. 1 + n : (<<"lock">> \o s)[i] = IF i <= 1 THEN "lock" ELSE s[i - 1]
  <2>1. <<"lock">> \in Seq(ToneSteps) /\ Len(<<"lock">>) = 1 /\ <<"lock">>[1] = "lock"
    BY DEF ToneSteps, BeforeLock
  <2> QED BY <2>1, ConcatProperties DEF Critical
<1>2. /\ whole \in Seq(ToneSteps) /\ Len(whole) = n + 2
      /\ \A i \in 1 .. n + 2 : whole[i] = IF i <= 1 + n THEN (<<"lock">> \o s)[i] ELSE "unlock"
  <2>1. <<"unlock">> \in Seq(ToneSteps) /\ Len(<<"unlock">>) = 1 /\ <<"unlock">>[1] = "unlock"
    BY DEF ToneSteps
  <2>2. n \in Nat
    BY DEF Critical
  <2>3. whole = (<<"lock">> \o s) \o <<"unlock">>
    BY DEF Locked
  <2> HIDE DEF whole
  <2> DEFINE front == <<"lock">> \o s
  <2>4. front \in Seq(ToneSteps) /\ Len(front) = 1 + n
    BY <1>1
  <2> HIDE DEF front
  <2>5. /\ front \o <<"unlock">> \in Seq(ToneSteps)
        /\ Len(front \o <<"unlock">>) = (1 + n) + 1
        /\ \A i \in 1 .. (1 + n) + 1 : (front \o <<"unlock">>)[i]
              = IF i <= 1 + n THEN front[i] ELSE <<"unlock">>[i - (1 + n)]
    BY <2>1, <2>4, ConcatProperties
  <2>6. \A i \in 1 .. n + 2 : ~(i <= 1 + n) => i - (1 + n) = 1
    BY <2>2
  <2>7. whole = front \o <<"unlock">>
    BY <2>3 DEF front
  <2> QED BY <2>1, <2>2, <2>5, <2>6, <2>7 DEF front
<1>3. n \in Nat \ {0}
  BY DEF Critical
<1>4. /\ whole[1] = "lock" /\ whole[n + 2] = "unlock" /\ whole[2] = "stop"
      /\ \A i \in 2 .. n + 1 : whole[i] = s[i - 1] /\ i - 1 \in 1 .. n
  BY <1>1, <1>2, <1>3 DEF Critical
<1>5. \A i \in 2 .. n + 1 :
        /\ whole[i] \in {"stop"} \cup AfterStop
        /\ whole[i + 1] \in AfterStop \cup {"unlock"}
        /\ whole[i] \in Commands \ {"stop"} => whole[i + 1] = "unlock"
  <2> TAKE i \in 2 .. n + 1
  <2>1. CASE i = n + 1
    BY <2>1, <1>3, <1>4 DEF Critical
  <2>2. CASE i # n + 1
    <3>1. i + 1 \in 2 .. n + 1 /\ (i + 1) - 1 > 1 /\ i - 1 # n
      BY <2>2, <1>3
    <3>2. whole[i + 1] = s[(i + 1) - 1] /\ (i + 1) - 1 \in 1 .. n
      BY <3>1, <1>4
    <3> QED BY <3>1, <3>2, <1>4 DEF Critical
  <2> QED BY <2>1, <2>2
<1> HIDE DEF whole
<1>6. \A i \in 1 .. n + 2 : i = 1 \/ i = n + 2 \/ i \in 2 .. n + 1
  BY <1>3
<1>7. CallRest(whole)
  BY <1>2, <1>3, <1>4, <1>5, <1>6 DEF CallRest, AfterStop, Commands
<1> QED BY <1>2, <1>3, <1>4, <1>7 DEF whole

(* The program of a call that looks at the rail first, or lowers it. *)
LEMMA PrefixedRest ==
  ASSUME NEW s, CallRest(s), s # << >>, s[1] = "lock", NEW x \in {"checkPower", "railDown"}
  PROVE  CallRest(<<x>> \o s) /\ <<x>> \o s # << >> /\ (<<x>> \o s)[1] = x
<1> DEFINE n == Len(s)
           whole == <<x>> \o s
<1>1. <<x>> \in Seq(ToneSteps) /\ Len(<<x>>) = 1 /\ <<x>>[1] = x /\ s \in Seq(ToneSteps)
  BY DEF ToneSteps, BeforeLock, CallRest
<1>2. /\ whole \in Seq(ToneSteps) /\ Len(whole) = 1 + n
      /\ \A i \in 1 .. 1 + n : whole[i] = IF i <= 1 THEN x ELSE s[i - 1]
  BY <1>1, ConcatProperties
<1>3. n \in Nat \ {0}
  BY <1>1
<1> HIDE DEF whole
<1>4. whole[1] = x /\ whole[2] = "lock"
  BY <1>2, <1>3
<1>5. \A i \in 2 .. n + 1 : i - 1 \in 1 .. n /\ whole[i] = s[i - 1] /\ (i < n + 1 => whole[i + 1] = s[(i - 1) + 1])
  <2> TAKE i \in 2 .. n + 1
  <2>1. i < n + 1 => whole[i + 1] = s[(i + 1) - 1] /\ (i + 1) - 1 = (i - 1) + 1
    BY <1>2, <1>3
  <2> QED BY <2>1, <1>2, <1>3
<1>6. \A i \in 2 .. n + 1 : (i - 1 < n <=> i < n + 1) /\ (i - 1 = n <=> i = n + 1)
  BY <1>3
<1>7. \A i \in 1 .. n + 1 : i = 1 \/ i \in 2 .. n + 1
  BY <1>3
<1>8. CallRest(whole)
  <2> DEFINE Good(r, i, m) ==
        /\ r[i] \in {"checkPower", "railDown"} => i < m /\ r[i + 1] = "lock"
        /\ r[i] = "lock" => i < m /\ r[i + 1] = "stop"
        /\ r[i] \in {"stop"} \cup AfterStop => i < m /\ r[i + 1] \in AfterStop \cup {"unlock"}
        /\ r[i] \in Commands \ {"stop"} => r[i + 1] = "unlock"
        /\ r[i] \in {"railUp", "unlock"} => i = m
  <2>1. \A i \in 1 .. n : Good(s, i, n)
    BY DEF CallRest
  <2>2. \A i \in 2 .. n + 1 : Good(whole, i, n + 1)
    <3> TAKE i \in 2 .. n + 1
    <3>1. Good(s, i - 1, n) /\ whole[i] = s[i - 1]
      BY <2>1, <1>5
    <3>2. i < n + 1 => whole[i + 1] = s[(i - 1) + 1]
      BY <1>5
    <3>3. Commands \ {"stop"} \subseteq AfterStop
      BY DEF Commands, AfterStop
    <3> QED BY <3>1, <3>2, <3>3, <1>6
  <2>3. Good(whole, 1, n + 1)
    BY <1>3, <1>4 DEF AfterStop, Commands
  <2> QED BY <2>2, <2>3, <1>2, <1>7 DEF CallRest
<1> QED BY <1>2, <1>3, <1>4, <1>8 DEF whole

(* A step of a call leaves the end of the call. *)
LEMMA RestOfRest ==
  ASSUME NEW s, CallRest(s), s # << >>
  PROVE  /\ Head(s) = s[1] /\ s[1] \in ToneSteps /\ CallRest(Tail(s))
         /\ Tail(s) # << >> => Tail(s)[1] = s[2]
         /\ s[1] \in {"checkPower", "railDown"} => s[2] = "lock" /\ Tail(s) # << >>
         /\ s[1] = "lock" => s[2] = "stop"
         /\ s[1] \in {"stop"} \cup AfterStop => s[2] \in AfterStop \cup {"unlock"}
         /\ s[1] \in Commands \ {"stop"} => s[2] = "unlock"
         /\ s[1] \in {"railUp", "unlock"} => Tail(s) = << >>
<1> DEFINE n == Len(s)
           rest == Tail(s)
<1>1. s \in Seq(ToneSteps) /\ n \in Nat \ {0}
  BY DEF CallRest
<1>2. /\ rest \in Seq(ToneSteps) /\ Len(rest) = n - 1
      /\ \A i \in 1 .. n - 1 : rest[i] = s[i + 1]
  BY <1>1, HeadTailProperties
<1>3. Head(s) = s[1] /\ s[1] \in ToneSteps /\ 1 \in 1 .. n
  BY <1>1
<1> HIDE DEF rest
<1>4. \A i \in 1 .. n - 1 : i + 1 \in 1 .. n /\ rest[i] = s[i + 1]
                            /\ (i < n - 1 => rest[i + 1] = s[(i + 1) + 1])
  BY <1>1, <1>2
<1>5. \A i \in 1 .. n - 1 : i + 1 < n <=> i < n - 1
  BY <1>1
<1>6. \A i \in 1 .. n - 1 : i + 1 = n <=> i = n - 1
  BY <1>1
<1>7. CallRest(rest)
  BY <1>1, <1>2, <1>4, <1>5, <1>6 DEF CallRest, AfterStop, Commands
<1>8. rest # << >> <=> 1 < n
  BY <1>1, <1>2
<1>9. /\ s[1] \in {"checkPower", "railDown"} => 1 < n /\ s[1 + 1] = "lock"
      /\ s[1] = "lock" => s[1 + 1] = "stop"
      /\ s[1] \in {"stop"} \cup AfterStop => s[1 + 1] \in AfterStop \cup {"unlock"}
      /\ s[1] \in Commands \ {"stop"} => s[1 + 1] = "unlock"
      /\ s[1] \in {"railUp", "unlock"} => 1 = n
  BY <1>3 DEF CallRest
<1>10. 1 < n => rest[1] = s[2]
  BY <1>1, <1>2
<1> QED BY <1>1, <1>2, <1>3, <1>7, <1>8, <1>9, <1>10 DEF rest

-----------------------------------------------------------------------------
(* At first nothing is called and nothing sounds. *)
LEMMA BuzzerInitInv == BuzzerInit => BuzzerInv
<1> SUFFICES ASSUME BuzzerInit
             PROVE  BuzzerInv
  OBVIOUS
<1>1. \A t \in Threads : todo[t] = << >>
  BY DEF BuzzerInit
<1>2. CallRest(<< >>)
  BY DEF CallRest
<1>3. CallsInv
  BY <1>1, <1>2 DEF BuzzerInit, CallsInv, PastLock, PastStop
<1>4. ToneInv
  <2>1. << >> \in Seq(Commands)
    OBVIOUS
  <2> QED BY <2>1 DEF BuzzerInit, ToneInv, Tones
<1> QED BY <1>3, <1>4 DEF BuzzerInv

(* A call begins before the lock. *)
LEMMA BuzzerCallKeeps ==
  ASSUME BuzzerInv, NEW t \in Threads, NEW steps, BuzzerCall(t, steps),
         CallRest(steps), steps = << >> \/ steps[1] \in BeforeLock
  PROVE  BuzzerInv'
<1>1. steps \in Seq(ToneSteps)
  BY DEF CallRest
<1>2. todo' = [todo EXCEPT ![t] = steps] /\ owner' = owner /\ wanted' = wanted
  BY DEF BuzzerCall
<1>3. CallsInv'
  BY <1>1, <1>2 DEF BuzzerInv, CallsInv, PastLock, PastStop, BeforeLock, AfterStop
<1>4. ToneInv'
  BY DEF BuzzerInv, ToneInv, BuzzerCall
<1> QED BY <1>3, <1>4 DEF BuzzerInv

(* What a step of a thread's call finds and leaves. *)
LEMMA StepOfCall ==
  ASSUME CallsInv, NEW t \in Threads, todo[t] # << >>
  PROVE  /\ NextStep(t) = todo[t][1] /\ todo[t][1] \in ToneSteps
         /\ CallRest(Tail(todo[t])) /\ Tail(todo[t]) \in Seq(ToneSteps)
         /\ Tail(todo[t]) # << >> => Tail(todo[t])[1] = todo[t][2]
         /\ todo[t][1] \in {"checkPower", "railDown"} => todo[t][2] = "lock"
         /\ todo[t][1] = "lock" => todo[t][2] = "stop"
         /\ todo[t][1] \in {"stop"} \cup AfterStop => todo[t][2] \in AfterStop \cup {"unlock"}
         /\ todo[t][1] \in Commands \ {"stop"} => todo[t][2] = "unlock"
         /\ todo[t][1] \in {"railUp", "unlock"} => Tail(todo[t]) = << >>
<1>1. CallRest(todo[t])
  BY DEF CallsInv
<1> QED BY <1>1, RestOfRest DEF NextStep, CallRest

(* Thread t may take the next step of its call: the mutex and the last     *)
(* wish will be what that step, and the others' steps, need.               *)
MayGoOn(t) ==
  /\ owner' \in Threads \cup {Nobody}
  /\ \A u \in Threads \ {t} : /\ PastLock(u) => owner' = u
                              /\ PastStop(u) => wanted' = "none"
  /\ Tail(todo[t]) # << >> =>
       /\ todo[t][2] \in ToneSteps \ BeforeLock => owner' = t
       /\ todo[t][2] \in AfterStop => wanted' = "none"

(* Such a step keeps every call in order. *)
LEMMA DoneKeepsCalls ==
  ASSUME CallsInv, NEW t \in Threads, todo[t] # << >>, Done(t), MayGoOn(t)
  PROVE  CallsInv'
<1>1. todo' = [todo EXCEPT ![t] = Tail(todo[t])]
  BY DEF Done
<1>2. todo \in [Threads -> Seq(ToneSteps)]
  BY DEF CallsInv
<1>3. CallRest(Tail(todo[t])) /\ Tail(todo[t]) \in Seq(ToneSteps)
  BY StepOfCall
<1>4. Tail(todo[t]) # << >> => Tail(todo[t])[1] = todo[t][2]
  BY StepOfCall
<1>5. todo' \in [Threads -> Seq(ToneSteps)]
  BY <1>1, <1>2, <1>3
<1>6. ASSUME NEW u \in Threads
      PROVE  /\ CallRest(todo'[u])
             /\ PastLock(u)' => owner' = u
             /\ PastStop(u)' => wanted' = "none"
  <2>1. CASE u = t
    BY <2>1, <1>1, <1>2, <1>3, <1>4 DEF PastLock, PastStop, MayGoOn
  <2>2. CASE u # t
    <3>1. todo'[u] = todo[u]
      BY <2>2, <1>1, <1>2
    <3>2. /\ PastLock(u) => owner' = u
          /\ PastStop(u) => wanted' = "none"
      BY <2>2 DEF MayGoOn
    <3>3. CallRest(todo'[u])
      BY <3>1 DEF CallsInv
    <3> QED BY <3>1, <3>2, <3>3 DEF PastLock, PastStop
  <2> QED BY <2>1, <2>2
<1> QED BY <1>5, <1>6 DEF CallsInv, PastLock, PastStop, MayGoOn

(* Nobody else is past the lock while t is. *)
LEMMA OthersWait ==
  ASSUME CallsInv, NEW t \in Threads, owner = t, NEW u \in Threads \ {t}
  PROVE  ~PastLock(u) /\ ~PastStop(u)
<1>1. ~PastLock(u)
  BY DEF CallsInv
<1> QED BY <1>1 DEF PastLock, PastStop, ToneSteps, BeforeLock, AfterStop

(* With the rail down the call is over. *)
LEMMA CheckPowerKeeps ==
  ASSUME BuzzerInv, NEW t \in Threads, CheckPower(t)
  PROVE  BuzzerInv'
<1>1. ToneInv'
  BY DEF BuzzerInv, ToneInv, CheckPower
<1>2. CASE railOn
  <2>1. Done(t) /\ todo[t] # << >> /\ NextStep(t) = "checkPower" /\ owner' = owner /\ wanted' = wanted
    BY <1>2 DEF CheckPower, Pending, Done
  <2>2. todo[t][2] = "lock"
    BY <2>1, StepOfCall DEF BuzzerInv
  <2>3. CallsInv
    BY DEF BuzzerInv
  <2>4. owner' \in Threads \cup {Nobody} /\ todo[t][2] \notin ToneSteps \ BeforeLock /\ todo[t][2] \notin AfterStop
    BY <2>1, <2>2, <2>3 DEF CallsInv, BeforeLock, AfterStop
  <2>5. \A u \in Threads \ {t} : /\ PastLock(u) => owner' = u
                                 /\ PastStop(u) => wanted' = "none"
    BY <2>1, <2>3 DEF CallsInv
  <2>6. MayGoOn(t)
    BY <2>4, <2>5 DEF MayGoOn
  <2>7. CallsInv'
    BY <2>1, <2>3, <2>6, DoneKeepsCalls
  <2> QED BY <1>1, <2>7 DEF BuzzerInv
<1>3. CASE ~railOn
  <2>1. todo' = [todo EXCEPT ![t] = << >>] /\ owner' = owner /\ wanted' = wanted
    BY <1>3 DEF CheckPower
  <2>2. CallRest(<< >>) /\ << >> \in Seq(ToneSteps)
    BY DEF CallRest
  <2>3. CallsInv'
    BY <2>1, <2>2 DEF BuzzerInv, CallsInv, PastLock, PastStop
  <2> QED BY <1>1, <2>3 DEF BuzzerInv
<1> QED BY <1>2, <1>3

(* The rail changes before the lock is taken. *)
LEMMA SetRailKeeps ==
  ASSUME BuzzerInv, NEW high \in BOOLEAN, SetRail(high)
  PROVE  BuzzerInv'
<1>1. ToneInv'
  BY DEF BuzzerInv, ToneInv, SetRail
<1>2. Board \in Threads
  BY DEF Threads
<1>3. /\ Done(Board) /\ todo[Board] # << >> /\ NextStep(Board) \in {"railUp", "railDown"}
      /\ owner' = owner /\ wanted' = wanted
  BY DEF SetRail, Pending
<1>4. CallsInv
  BY DEF BuzzerInv
<1>5. Tail(todo[Board]) # << >> => todo[Board][2] = "lock"
  BY <1>2, <1>3, <1>4, StepOfCall
<1>6. CallsInv'
  <2>1. Tail(todo[Board]) # << >> =>
          todo[Board][2] \notin ToneSteps \ BeforeLock /\ todo[Board][2] \notin AfterStop
    BY <1>5 DEF BeforeLock, AfterStop
  <2>2. \A u \in Threads \ {Board} : /\ PastLock(u) => owner' = u
                                     /\ PastStop(u) => wanted' = "none"
    BY <1>3, <1>4 DEF CallsInv
  <2>3. owner' \in Threads \cup {Nobody}
    BY <1>3, <1>4 DEF CallsInv
  <2>4. MayGoOn(Board)
    BY <2>1, <2>2, <2>3 DEF MayGoOn
  <2> QED BY <1>2, <1>3, <1>4, <2>4, DoneKeepsCalls
<1> QED BY <1>1, <1>6 DEF BuzzerInv

(* The lock is taken from nobody: nobody is past it. *)
LEMMA LockKeeps ==
  ASSUME BuzzerInv, NEW t \in Threads, Lock(t)
  PROVE  BuzzerInv'
<1>1. ToneInv'
  BY DEF BuzzerInv, ToneInv, Lock
<1>2. /\ Done(t) /\ todo[t] # << >> /\ NextStep(t) = "lock"
      /\ owner = Nobody /\ owner' = t /\ wanted' = wanted
  BY DEF Lock, Pending
<1>3. CallsInv
  BY DEF BuzzerInv
<1>4. todo[t][2] = "stop"
  BY <1>2, <1>3, StepOfCall
<1>5. \A u \in Threads \ {t} : /\ PastLock(u) => owner' = u
                               /\ PastStop(u) => wanted' = "none"
  BY <1>2, <1>3, ThreadsAssumption DEF CallsInv
<1>6. CallsInv'
  <2>1. MayGoOn(t)
    BY <1>2, <1>4, <1>5 DEF MayGoOn, AfterStop
  <2> QED BY <1>2, <1>3, <2>1, DoneKeepsCalls
<1> QED BY <1>1, <1>6 DEF BuzzerInv

(* The unlock ends its call. *)
LEMMA UnlockKeeps ==
  ASSUME BuzzerInv, NEW t \in Threads, Unlock(t)
  PROVE  BuzzerInv'
<1>1. ToneInv'
  BY DEF BuzzerInv, ToneInv, Unlock
<1>2. /\ Done(t) /\ todo[t] # << >> /\ NextStep(t) = "unlock"
      /\ owner' = Nobody /\ wanted' = wanted
  BY DEF Unlock, Pending
<1>3. CallsInv
  BY DEF BuzzerInv
<1>4. Tail(todo[t]) = << >> /\ todo[t][1] = "unlock"
  BY <1>2, <1>3, StepOfCall
<1>5. owner = t
  BY <1>2, <1>3, <1>4 DEF CallsInv, PastLock, PastStop, ToneSteps, BeforeLock
<1>6. CallsInv'
  <2>1. MayGoOn(t)
    BY <1>2, <1>3, <1>4, <1>5, OthersWait DEF MayGoOn
  <2> QED BY <1>2, <1>3, <2>1, DoneKeepsCalls
<1> QED BY <1>1, <1>6 DEF BuzzerInv

(* A command to the worker: a stop is the last word for what follows it in *)
(* the call, and after any other command the call only unlocks.            *)
LEMMA SendKeeps ==
  ASSUME BuzzerInv, NEW t \in Threads, Send(t)
  PROVE  BuzzerInv'
<1> DEFINE c == NextStep(t)
<1>1. /\ Done(t) /\ todo[t] # << >> /\ c \in Commands /\ owner' = owner
      /\ wanted' = IF c = "stop" THEN "none" ELSE c
      /\ queue' = IF HasWorker THEN Append(queue, c) ELSE queue
      /\ UNCHANGED <<railOn, playing, toneOn, deadline, workerStore>>
  BY DEF Send, Pending
<1>2. CallsInv /\ ToneInv
  BY DEF BuzzerInv
<1>3. c = todo[t][1]
  BY <1>1, <1>2, StepOfCall
<1>4. /\ c = "stop" => todo[t][2] \in AfterStop \cup {"unlock"}
      /\ c # "stop" => todo[t][2] = "unlock"
  BY <1>1, <1>2, <1>3, StepOfCall DEF AfterStop, Commands
<1>5. owner = t
  BY <1>1, <1>2, <1>3 DEF CallsInv, PastLock, PastStop, Commands, ToneSteps, BeforeLock, AfterStop
<1>6. CallsInv'
  <2>1. todo[t][2] \in AfterStop => wanted' = "none"
    BY <1>1, <1>4 DEF AfterStop
  <2>2. MayGoOn(t)
    BY <1>1, <1>2, <1>5, <2>1, OthersWait DEF MayGoOn, CallsInv
  <2> QED BY <1>1, <1>2, <2>2, DoneKeepsCalls
<1>7. ToneInv'
  <2>1. wanted' \in Tones
    BY <1>1 DEF Tones, Commands
  <2> HIDE DEF c
  <2>2. CASE HasWorker
    <3>1. /\ queue' \in Seq(Commands) /\ queue' # << >> /\ Len(queue') = Len(queue) + 1
          /\ queue'[Len(queue) + 1] = c
      BY <1>1, <1>2, <2>2, AppendProperties DEF ToneInv
    <3>2. wanted' = "none" => queue'[Len(queue')] = "stop"
      BY <1>1, <3>1 DEF Commands
    <3> QED BY <1>1, <1>2, <2>1, <2>2, <3>1, <3>2 DEF ToneInv
  <2>3. CASE ~HasWorker
    BY <1>1, <1>2, <2>1, <2>3 DEF ToneInv
  <2> QED BY <2>2, <2>3
<1> QED BY <1>6, <1>7 DEF BuzzerInv

(* The flag is lowered only when the worker has, or will have, stopped. *)
LEMMA StoreKeeps ==
  ASSUME BuzzerInv, NEW t \in Threads, Store(t)
  PROVE  BuzzerInv'
<1>1. /\ Done(t) /\ todo[t] # << >> /\ NextStep(t) \in {"quiet", "announce"}
      /\ playing' = (NextStep(t) = "announce")
      /\ UNCHANGED <<railOn, owner, queue, toneOn, deadline, workerStore, wanted>>
  BY DEF Store, Pending
<1>2. CallsInv /\ ToneInv
  BY DEF BuzzerInv
<1>3. NextStep(t) = todo[t][1] /\ todo[t][2] \in AfterStop \cup {"unlock"}
  BY <1>1, <1>2, StepOfCall DEF AfterStop
<1>4. owner = t /\ wanted = "none"
  BY <1>1, <1>2, <1>3 DEF CallsInv, PastLock, PastStop, ToneSteps, BeforeLock, AfterStop
<1>5. CallsInv'
  <2>1. MayGoOn(t)
    BY <1>1, <1>2, <1>4, OthersWait DEF MayGoOn, CallsInv
  <2> QED BY <1>1, <1>2, <2>1, DoneKeepsCalls
<1>6. ToneInv'
  BY <1>1, <1>2, <1>4 DEF ToneInv
<1> QED BY <1>5, <1>6 DEF BuzzerInv

(* The worker. *)
LEMMA WorkerKeeps ==
  ASSUME BuzzerInv, WorkerReceive \/ WorkerTimeout \/ WorkerFinish
  PROVE  BuzzerInv'
<1>1. CallsInv'
  BY DEF BuzzerInv, CallsInv, PastLock, PastStop, WorkerReceive, WorkerTimeout, WorkerFinish
<1>2. CASE WorkerReceive
  <2>1. /\ HasWorker /\ queue # << >> /\ queue \in Seq(Commands)
        /\ queue' = Tail(queue) /\ toneOn' = (Head(queue) # "stop")
    BY <1>2 DEF BuzzerInv, ToneInv, WorkerReceive
  <2>2. /\ queue' \in Seq(Commands) /\ Len(queue') = Len(queue) - 1 /\ Head(queue) = queue[1]
        /\ \A i \in 1 .. Len(queue') : queue'[i] = queue[i + 1]
    BY <2>1, HeadTailProperties
  <2>3. wanted = "none" => IF queue' = << >> THEN ~toneOn' ELSE queue'[Len(queue')] = "stop"
    <3>1. CASE queue' = << >>
      <4>1. Len(queue) = 1
        <5>1. Len(queue') = 0
          BY <3>1
        <5>2. Len(queue) \in Nat
          BY <2>1
        <5> QED BY <2>2, <5>1, <5>2
      <4> QED BY <2>1, <2>2, <3>1, <4>1 DEF BuzzerInv, ToneInv
    <3>2. CASE queue' # << >>
      <4>1. Len(queue') \in 1 .. Len(queue') /\ Len(queue') + 1 = Len(queue)
        BY <2>1, <2>2, <3>2
      <4> QED BY <2>1, <2>2, <3>2, <4>1 DEF BuzzerInv, ToneInv
    <3> QED BY <3>1, <3>2
  <2>4. /\ toneOn' \in BOOLEAN /\ deadline' \in BOOLEAN
        /\ workerStore' = (IF Head(queue) = "stop" THEN "none" ELSE "true")
        /\ UNCHANGED <<railOn, playing, wanted>>
    BY <1>2 DEF WorkerReceive
  <2>5. ToneInv'
    BY <2>1, <2>2, <2>3, <2>4 DEF BuzzerInv, ToneInv
  <2> QED BY <1>1, <2>5 DEF BuzzerInv
<1>3. CASE WorkerTimeout
  <2>1. ToneInv'
    BY <1>3 DEF BuzzerInv, ToneInv, WorkerTimeout
  <2> QED BY <1>1, <2>1 DEF BuzzerInv
<1>4. CASE WorkerFinish
  <2>1. ToneInv'
    BY <1>4 DEF BuzzerInv, ToneInv, WorkerFinish
  <2> QED BY <1>1, <2>1 DEF BuzzerInv
<1> QED BY <1>2, <1>3, <1>4

(* Each step keeps the invariant. *)
LEMMA BuzzerNextInv == BuzzerInv /\ [BuzzerNext]_buzzerVars => BuzzerInv'
<1> SUFFICES ASSUME BuzzerInv, [BuzzerNext]_buzzerVars
             PROVE  BuzzerInv'
  OBVIOUS
<1>1. ASSUME NEW steps, Critical(steps)
      PROVE  /\ CallRest(Locked(steps)) /\ Locked(steps)[1] \in BeforeLock
             /\ \A x \in {"checkPower", "railDown"} :
                  CallRest(<<x>> \o Locked(steps)) /\ (<<x>> \o Locked(steps))[1] \in BeforeLock
  <2>1. CallRest(Locked(steps)) /\ Locked(steps) # << >> /\ Locked(steps)[1] = "lock"
    BY <1>1, LockedRest
  <2>2. ASSUME NEW x \in {"checkPower", "railDown"}
        PROVE  CallRest(<<x>> \o Locked(steps)) /\ (<<x>> \o Locked(steps))[1] \in BeforeLock
    BY <2>1, PrefixedRest DEF BeforeLock
  <2> QED BY <2>1, <2>2 DEF BeforeLock
<1>2. ASSUME NEW t \in Callers, NEW tone \in {"timed", "none"}, BuzzerBeep(t, tone)
      PROVE  BuzzerInv'
  <2>1. t \in Threads /\ Critical(StartTone(tone))
    BY TonePrograms DEF Threads, Tones
  <2> DEFINE steps == <<"checkPower">> \o Locked(StartTone(tone))
  <2>2. CallRest(steps) /\ steps[1] \in BeforeLock
    BY <1>1, <2>1
  <2>3. BuzzerCall(t, steps)
    BY <1>2 DEF BuzzerBeep
  <2> HIDE DEF steps
  <2> QED BY <2>1, <2>2, <2>3, BuzzerCallKeeps
<1>3. ASSUME NEW t \in Callers, BuzzerStop(t)
      PROVE  BuzzerInv'
  <2>1. t \in Threads /\ Critical(StopSteps)
    BY TonePrograms DEF Threads
  <2> QED BY <1>1, <1>3, <2>1, BuzzerCallKeeps DEF BuzzerStop
<1>4. ASSUME NEW high \in BOOLEAN, DigitalWriteRail(high)
      PROVE  BuzzerInv'
  <2>1. Board \in Threads /\ Critical(StopSteps)
    BY TonePrograms DEF Threads
  <2>2. CallRest(<<"railUp">>) /\ <<"railUp">>[1] \in BeforeLock
    BY DEF CallRest, BeforeLock, ToneSteps, AfterStop, Commands
  <2> DEFINE down == <<"railDown">> \o Locked(StopSteps)
  <2>3. CallRest(down) /\ down[1] \in BeforeLock
    BY <1>1, <2>1
  <2>4. BuzzerCall(Board, <<"railUp">>) \/ BuzzerCall(Board, down)
    BY <1>4 DEF DigitalWriteRail
  <2> HIDE DEF down
  <2> QED BY <2>1, <2>2, <2>3, <2>4, BuzzerCallKeeps
<1>5. ASSUME NEW tone \in {"held", "none"}, LedcWriteBuzzer(tone)
      PROVE  BuzzerInv'
  <2>1. Board \in Threads /\ Critical(StopSteps) /\ Critical(StartTone(tone))
    BY TonePrograms DEF Threads, Tones
  <2> DEFINE steps == IF railOn THEN StartTone(tone) ELSE StopSteps
  <2>2. Critical(steps)
    BY <2>1
  <2>3. BuzzerCall(Board, Locked(steps))
    BY <1>5 DEF LedcWriteBuzzer
  <2> HIDE DEF steps
  <2> QED BY <1>1, <2>1, <2>2, <2>3, BuzzerCallKeeps
<1>6. ASSUME NEW t \in Threads, ThreadStep(t)
      PROVE  BuzzerInv'
  BY <1>6, CheckPowerKeeps, LockKeeps, UnlockKeeps, SendKeeps, StoreKeeps DEF ThreadStep
<1>7. ASSUME NEW high \in BOOLEAN, SetRail(high)
      PROVE  BuzzerInv'
  BY <1>7, SetRailKeeps
<1>8. CASE UNCHANGED buzzerVars
  BY <1>8 DEF buzzerVars, BuzzerInv, CallsInv, ToneInv, PastLock, PastStop
<1> QED BY <1>2, <1>3, <1>4, <1>5, <1>6, <1>7, <1>8, WorkerKeeps DEF BuzzerNext

(* The types, and that two calls never mix their commands. *)
THEOREM BuzzerInvariant == BuzzerSpec => [](BuzzerInv /\ BuzzerTypeOK)
<1>1. BuzzerInv => BuzzerTypeOK
  <2> SUFFICES ASSUME BuzzerInv
               PROVE  BuzzerTypeOK
    OBVIOUS
  <2>1. ASSUME NEW t \in Threads, todo[t] # << >>
        PROVE  NextStep(t) \in {"checkPower", "railUp", "railDown", "lock"} \/ owner = t
    <3>1. NextStep(t) = todo[t][1] /\ todo[t][1] \in ToneSteps
      BY <2>1, StepOfCall DEF BuzzerInv
    <3> QED BY <2>1, <3>1 DEF BuzzerInv, CallsInv, PastLock, PastStop, BeforeLock
  <2> QED BY <2>1 DEF BuzzerTypeOK, BuzzerInv, ToneInv
<1> QED BY <1>1, BuzzerInitInv, BuzzerNextInv, PTL DEF BuzzerSpec

(* A tone that sounds when everything has come to rest is reported: the    *)
(* flag is lowered only after a stop that the worker still has to execute, *)
(* or has executed last (buzzer.rs:128 and 226).                           *)
THEOREM SoundsAreReported == BuzzerSpec => []SoundIsReported
<1>1. BuzzerInv => SoundIsReported
  BY DEF BuzzerInv, ToneInv, SoundIsReported, Settled
<1> QED BY <1>1, BuzzerInvariant, PTL

(* After a stop nothing of an earlier call sounds: the worker's queue ends *)
(* with the command of the last call under the mutex (buzzer.rs:226).      *)
THEOREM LastCallHasItsWay == BuzzerSpec => []LastCallDecides
<1>1. BuzzerInv => LastCallDecides
  BY DEF BuzzerInv, ToneInv, LastCallDecides, Settled
<1> QED BY <1>1, BuzzerInvariant, PTL
=============================================================================
