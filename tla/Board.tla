-------------------------------- MODULE Board --------------------------------
(***************************************************************************)
(* The main board of one instance (core/board/src/lib.rs): power rail and  *)
(* pin holds, battery and charger, ADC, PSRAM, watchdog, PWM channels, and *)
(* what is kept for the instance when a board handle goes.  An action is a *)
(* meshemu_board_* call, which holds the lock of all board handles; several*)
(* handles of the instance are at work, the host's and the firmware's.     *)
(*                                                                         *)
(* Volts, bytes and seconds are small numbers.  Beside the pin that drives *)
(* the rail one other pin stands for the battery's and for the buzzer's.   *)
(* Of the buzzer, which is module Buzzer, and of an LEDC waveform there is *)
(* that they sound.  A quiesce unmounts the card in module SdStorage.      *)
(***************************************************************************)
EXTENDS Integers, Sequences, FiniteSetsExt

CONSTANTS
  Handles,
  Rail, OtherPin,          \* GPIO10, and any other pin
  Curve,                   \* Curve[c + 1]: twice the calibrated mV of raw count c
  MvPerCount, FullMv, MaxMv,
  MaxBytes, ReadbackBytes, \* PSRAM
  RetainedBytes,           \* RTC_NOINIT_SIZE_BYTES
  Ids, Legacy,             \* instances, the first of which is this one, and "__legacy__"
  Here,
  MaxCalls, MaxTime,       \* bounds
  None

MaxCount == Len(Curve) - 1   \* ADC_MAX_COUNT
Counts == 0 .. MaxCount
Pins == {Rail, OtherPin}

ASSUME BoardAssumption ==
  /\ Rail # OtherPin /\ None \notin Handles
  /\ Here \in Ids /\ {Legacy, None} \cap Ids = {} /\ Legacy # None
  /\ Curve \in Seq(Nat) /\ MaxCount > 1
  /\ Curve[1] = 0 /\ \A c \in Counts \ {0} : Curve[c] < Curve[c + 1]
  /\ MvPerCount \in Nat \ {0} /\ FullMv \in 1 .. MaxMv
  /\ MaxBytes \in Nat /\ ReadbackBytes \in Nat

TaskWatchdog == [timeout : Nat, panic : BOOLEAN, fed : Nat, timedOut : BOOLEAN, gap : Nat]

VirtualBoard ==
  [battery : Nat, external : BOOLEAN, calibrated : BOOLEAN, size : Nat, used : Nat,
   rail : BOOLEAN, holds : [Pins -> BOOLEAN \cup {None}],
   channel : [pin : Pins, tone : BOOLEAN] \cup {None},
   buses : BOOLEAN, parked : SUBSET Pins, selects : BOOLEAN, watchdog : TaskWatchdog \cup {None}]

ASSUME NoneIsNoBoard == None \notin VirtualBoard

VARIABLES
  boards,                  \* boards[h]: the handle's VirtualBoard, or None
  power,                   \* PERIPHERAL_POWER of the instance
  holds,                   \* RTC_GPIO_HOLDS, a level or None for each pin
  retained,                \* RTC_NOINIT
  reason,                  \* RESET_REASONS
  phases,                  \* LAST_BOOT_PHASE of every instance, and of Legacy
  current,                 \* CURRENT_INSTANCE of the thread
  sounding,                \* the buzzer plays
  now,                     \* the host's clock
  latched,                 \* history: a shutdown latched the rail LOW
  calls

boardVars == <<boards, power, holds, retained, reason, phases, current, sounding, now, latched, calls>>
keptVars == <<retained, reason, phases, current>>

BoardInit ==
  /\ boards = [h \in Handles |-> None]
  /\ power = TRUE
  /\ holds = [p \in Pins |-> None]
  /\ retained = [n \in 1 .. RetainedBytes |-> 0]
  /\ reason = "unknown"
  /\ phases = [i \in Ids \cup {Legacy} |-> 0] /\ current = None
  /\ sounding = FALSE
  /\ now = 0 /\ latched = FALSE /\ calls = 0

Live == {h \in Handles : boards[h] # None}
Call == calls < MaxCalls /\ calls' = calls + 1

(* A call that changes nothing but the board of its handle. *)
OnBoard(h, board) ==
  /\ h \in Live /\ Call
  /\ boards' = [boards EXCEPT ![h] = board]
  /\ UNCHANGED <<power, holds, keptVars, sounding, now, latched>>

-----------------------------------------------------------------------------
(* Handles.  A held rail pin decides over the configuration, which has the *)
(* rail on; the thread is the instance's from here on.                     *)

NewBoard(mv, psram) ==
  [battery |-> mv, external |-> FALSE, calibrated |-> TRUE, size |-> psram, used |-> 0,
   rail |-> (holds[Rail] # FALSE), holds |-> holds,
   channel |-> None, buses |-> TRUE, parked |-> {}, selects |-> FALSE, watchdog |-> None]

CreateUnheld(h, mv, psram) ==  \* mutant: the configuration decides
  /\ h \notin Live /\ Call
  /\ boards' = [boards EXCEPT ![h] = [NewBoard(mv, psram) EXCEPT !.rail = TRUE]]
  /\ power' = TRUE /\ current' = Here
  /\ UNCHANGED <<holds, retained, reason, phases, sounding, now, latched>>
Create(h, mv, psram) ==
  /\ h \notin Live /\ Call
  /\ boards' = [boards EXCEPT ![h] = NewBoard(mv, psram)]
  /\ power' = NewBoard(mv, psram).rail /\ current' = Here
  /\ UNCHANGED <<holds, retained, reason, phases, sounding, now, latched>>

Destroy(h) == OnBoard(h, None)

-----------------------------------------------------------------------------
(* The rail, and what hangs on it. *)

(* digital_write: only the rail's pin; it cannot be raised once the buses  *)
(* are stopped, and taking it down silences the buzzer.                    *)
DigitalWrite(h, pin, high) ==
  /\ h \in Live /\ Call
  /\ IF pin = Rail /\ (high => boards[h].buses)
     THEN /\ boards' = [boards EXCEPT ![h].rail = high]
          /\ power' = high /\ sounding' = (sounding /\ high)
     ELSE UNCHANGED <<boards, power, sounding>>
  /\ UNCHANGED <<holds, keptVars, now, latched>>

RtcGpioHold(h, pin, level) ==
  /\ h \in Live /\ Call
  /\ boards' = [boards EXCEPT ![h].holds[pin] = level]
  /\ holds' = [holds EXCEPT ![pin] = level]
  /\ latched' = (latched /\ ~(pin = Rail /\ level))
  /\ UNCHANGED <<power, keptVars, sounding, now>>

(* quiesce_peripherals: channels, selects, buses and pins, then the rail.  *)
Quiesced(board) ==
  [board EXCEPT !.channel = None, !.selects = TRUE, !.buses = FALSE, !.parked = Pins \ {Rail},
                !.rail = FALSE, !.holds[Rail] = FALSE]

Quiesce(h) ==
  /\ h \in Live /\ Call
  /\ boards' = [boards EXCEPT ![h] = Quiesced(@)]
  /\ power' = FALSE /\ sounding' = FALSE
  /\ holds' = [holds EXCEPT ![Rail] = FALSE]
  /\ latched' = TRUE
  /\ UNCHANGED <<keptVars, now>>

PeripheralsQuiesced(board) ==
  ~board.buses /\ board.selects /\ ~board.rail /\ board.holds[Rail] = FALSE /\ Pins \ {Rail} \subseteq board.parked

LedcAttach(h, pin) == h \in Live /\ OnBoard(h, [boards[h] EXCEPT !.channel = [pin |-> pin, tone |-> FALSE]])

(* ledc_write: the waveform is kept; on the buzzer's pin it sounds if the  *)
(* handle has the rail on.                                                 *)
LedcWrite(h, tone) ==
  /\ h \in Live /\ boards[h].channel # None /\ Call
  /\ boards' = [boards EXCEPT ![h].channel.tone = tone]
  /\ sounding' = IF boards[h].channel.pin = OtherPin THEN tone /\ boards[h].rail ELSE sounding
  /\ UNCHANGED <<power, holds, keptVars, now, latched>>

-----------------------------------------------------------------------------
(* Battery and ADC. *)

SetBattery(h, mv) == h \in Live /\ OnBoard(h, [boards[h] EXCEPT !.battery = mv])
SetAdcCalibration(h, calibrated) == h \in Live /\ OnBoard(h, [boards[h] EXCEPT !.calibrated = calibrated])
SetExternalPower(h, powered) == h \in Live /\ OnBoard(h, [boards[h] EXCEPT !.external = powered])

ChargerState(board) ==
  CASE board.battery = 0 -> "no battery"
    [] board.battery # 0 /\ board.external /\ board.battery < FullMv -> "charging"
    [] board.battery # 0 /\ ~(board.external /\ board.battery < FullMv) -> "charged"

SimulateCharge(h, rise) ==
  /\ h \in Live /\ ChargerState(boards[h]) = "charging"
  /\ OnBoard(h, [boards[h] EXCEPT !.battery = Min({@ + rise, FullMv})])

SimulateDischarge(h, drop) ==
  /\ h \in Live /\ ~boards[h].external
  /\ OnBoard(h, [boards[h] EXCEPT !.battery = Max({@ - drop, 0})])

Distance(x, y) == IF x < y THEN y - x ELSE x - y

(* s3_raw_count_for_pin_mv: bisection of the curve.  The divider halves    *)
(* the battery's mV and Curve is doubled.                                  *)
Intervals == Counts \X Counts
Middle(i) == i[1] + (i[2] - i[1]) \div 2
BisectToLow(mv) ==  \* mutant: the lower end of the bisection is the answer
  LET narrow[i \in Intervals] ==
        IF i[1] + 1 >= i[2] THEN i[1]
        ELSE IF Curve[Middle(i) + 1] < mv THEN narrow[<<Middle(i), i[2]>>]
        ELSE narrow[<<i[1], Middle(i)>>]
  IN  narrow[<<0, MaxCount>>]
Bisect(mv) ==
  LET narrow[i \in Intervals] ==
        IF i[1] + 1 >= i[2]
        THEN IF Distance(Curve[i[1] + 1], mv) <= Distance(Curve[i[2] + 1], mv) THEN i[1] ELSE i[2]
        ELSE IF Curve[Middle(i) + 1] < mv THEN narrow[<<Middle(i), i[2]>>]
        ELSE narrow[<<i[1], Middle(i)>>]
  IN  narrow[<<0, MaxCount>>]

Saturated(mv) == mv >= Curve[MaxCount + 1]
RawCount(mv) ==
  IF mv <= 0 THEN 0 ELSE IF Saturated(mv) THEN MaxCount ELSE Bisect(mv)

Rounded(x, unit) == (2 * x + unit) \div (2 * unit)

GetAdc(board, pin) ==
  LET raw == RawCount(board.battery) IN
  CASE pin # OtherPin -> 0
    [] pin = OtherPin /\ (~board.calibrated \/ Saturated(board.battery)) -> raw
    [] pin = OtherPin /\ board.calibrated /\ ~Saturated(board.battery) ->
         Min({Rounded(Curve[raw + 1], MvPerCount), MaxCount})

-----------------------------------------------------------------------------
(* PSRAM: the sizes are 32 bits wide and saturate. *)

Used(board) == Min({board.used, board.size})
Free(board) == Max({board.size - Used(board), 0})
Reserved(board, bytes) == [board EXCEPT !.used = Min({@ + bytes, MaxBytes})]
Released(board, bytes) == [board EXCEPT !.used = Max({@ - bytes, 0})]

SetPsramSize(h, size) ==
  /\ h \in Live /\ size >= boards[h].used
  /\ OnBoard(h, [boards[h] EXCEPT !.size = size])

ReservePsram(h, bytes) ==
  /\ h \in Live /\ bytes <= Free(boards[h])
  /\ OnBoard(h, Reserved(boards[h], bytes))

ReleasePsram(h, bytes) == h \in Live /\ OnBoard(h, Released(boards[h], bytes))

(* The test reserves, writes, verifies and restores, and gives back. *)
PsramReadbackTest(h) ==
  /\ h \in Live /\ Free(boards[h]) > 0
  /\ LET bytes == Min({Free(boards[h]), ReadbackBytes}) IN
     OnBoard(h, Released(Reserved(boards[h], bytes), bytes))

-----------------------------------------------------------------------------
(* The task watchdog, which looks at the clock only when it is called. *)

Watchdog(timeout, panic) ==
  [timeout |-> timeout, panic |-> panic, fed |-> now, timedOut |-> FALSE, gap |-> 0]
Expired(w) == w.timedOut \/ now - w.fed >= w.timeout

WdtInit(h, timeout, panic) == h \in Live /\ OnBoard(h, [boards[h] EXCEPT !.watchdog = Watchdog(timeout, panic)])
WdtDisable(h) == h \in Live /\ OnBoard(h, [boards[h] EXCEPT !.watchdog = None])

(* refresh_watchdog; `gap' is history: the longest time between two feeds. *)
Refreshed(w) == [w EXCEPT !.timedOut = Expired(w)]
ReasonAfter(w) == IF ~w.timedOut /\ Expired(w) /\ w.panic THEN "task_wdt" ELSE reason

WdtLook(h) ==
  /\ h \in Live /\ Call
  /\ boards[h].watchdog # None
  /\ boards' = [boards EXCEPT ![h].watchdog = Refreshed(@)]
  /\ reason' = ReasonAfter(boards[h].watchdog)
  /\ UNCHANGED <<power, holds, retained, phases, current, sounding, now, latched>>

Fed(w) == [Refreshed(w) EXCEPT !.fed = now, !.gap = Max({@, now - w.fed})]
WdtFeedFirst(h) ==  \* mutant: the feed comes before the look
  /\ h \in Live /\ boards[h].watchdog # None /\ ~boards[h].watchdog.timedOut
  /\ OnBoard(h, [boards[h] EXCEPT !.watchdog = [@ EXCEPT !.fed = now, !.gap = Max({@, now - boards[h].watchdog.fed})]])
WdtFeed(h) ==
  /\ h \in Live /\ boards[h].watchdog # None /\ ~Expired(boards[h].watchdog)
  /\ OnBoard(h, [boards[h] EXCEPT !.watchdog = Fed(@)])

-----------------------------------------------------------------------------
(* What outlives the handles. *)

InRetained(offset, len) == offset + len <= RetainedBytes
Overwritten(offset, len, byte) ==
  [n \in DOMAIN retained |-> IF n \in offset + 1 .. offset + len THEN byte ELSE retained[n]]

SetRtcNoinit(offset, len, byte) ==
  /\ InRetained(offset, len) /\ Call
  /\ retained' = Overwritten(offset, len, byte)
  /\ UNCHANGED <<boards, power, holds, reason, phases, current, sounding, now, latched>>

ClearRtcNoinit ==
  /\ Call
  /\ retained' = [n \in DOMAIN retained |-> 0]
  /\ UNCHANGED <<boards, power, holds, reason, phases, current, sounding, now, latched>>

GetRtcNoinit(offset, len) ==
  IF InRetained(offset, len) THEN SubSeq(retained, offset + 1, offset + len) ELSE None

SetResetReason(h, to) ==
  /\ h \in Live /\ Call
  /\ reason' = to
  /\ UNCHANGED <<boards, power, holds, retained, phases, current, sounding, now, latched>>

(* The boot checkpoint of the instance that is named, or of the one the    *)
(* thread called for last.                                                 *)
SetBootPhaseForInstance(i, phase) ==
  /\ Call
  /\ phases' = [phases EXCEPT ![i] = phase] /\ current' = i
  /\ UNCHANGED <<boards, power, holds, retained, reason, sounding, now, latched>>

Mine == IF current = None THEN Legacy ELSE current
SetBootPhase(phase) ==
  /\ Call
  /\ phases' = [phases EXCEPT ![Mine] = phase]
  /\ UNCHANGED <<boards, power, holds, retained, reason, current, sounding, now, latched>>
LastBootPhase == phases[Mine]

TimePasses ==
  /\ now < MaxTime
  /\ now' = now + 1
  /\ UNCHANGED <<boards, power, holds, keptVars, sounding, latched, calls>>

-----------------------------------------------------------------------------
PowerNext(h) ==
  \/ Quiesce(h)
  \/ \E pin \in Pins, level \in BOOLEAN : DigitalWrite(h, pin, level) \/ RtcGpioHold(h, pin, level)
  \/ \E pin \in Pins : LedcAttach(h, pin)
  \/ \E tone \in BOOLEAN : LedcWrite(h, tone)

BatteryNext(h) ==
  \/ \E mv \in 0 .. MaxMv : SetBattery(h, mv) \/ SimulateCharge(h, mv) \/ SimulateDischarge(h, mv)
  \/ \E on \in BOOLEAN : SetAdcCalibration(h, on) \/ SetExternalPower(h, on)

MemoryNext(h) ==
  \/ \E bytes \in 0 .. MaxBytes : SetPsramSize(h, bytes) \/ ReservePsram(h, bytes) \/ ReleasePsram(h, bytes)
  \/ PsramReadbackTest(h)

WatchdogNext(h) ==
  \/ \E panic \in BOOLEAN, timeout \in 0 .. MaxTime : WdtInit(h, timeout, panic)
  \/ WdtLook(h) \/ WdtFeed(h) \/ WdtDisable(h) \/ TimePasses
  \/ \E to \in {"sw", "deepsleep"} : SetResetReason(h, to)

RetainedNext ==
  \/ \E offset, len \in 0 .. RetainedBytes : SetRtcNoinit(offset, len, 1)
  \/ ClearRtcNoinit
  \/ \E i \in Ids : SetBootPhaseForInstance(i, 1)
  \/ SetBootPhase(2)

BoardNext ==
  \/ \E h \in Handles, mv \in {0, FullMv}, psram \in {0, MaxBytes} : Create(h, mv, psram)
  \/ \E h \in Handles : Destroy(h) \/ PowerNext(h) \/ BatteryNext(h) \/ MemoryNext(h) \/ WatchdogNext(h)
  \/ RetainedNext

BoardSpec == BoardInit /\ [][BoardNext]_boardVars

-----------------------------------------------------------------------------
(* Properties. *)

(* "latches GPIO10 LOW" (ffi.rs:1535) "across deep sleep" (ffi.rs:1451):   *)
(* after a shutdown nothing powers the rail again, neither the board that  *)
(* was shut down nor the creation of another one, but a write to the pin   *)
(* on a board that was not shut down; until the hold is set HIGH.          *)
DarkUntilDriven ==
  [][latched /\ ~power /\ power' =>
       Live' = Live /\ \E h \in Live : boards[h].buses /\ boards'[h].rail]_boardVars

(* "produces about 2345 raw counts" (lib.rs:54): the bisection answers the *)
(* count whose voltage is nearest, whatever the battery has been charged   *)
(* or discharged to, and the calibrated count is the battery's to within   *)
(* that error and half a count.                                            *)
AdcIsNearest ==
  \A h \in Live :
    LET mv == boards[h].battery
        Error(c) == Distance(Curve[c + 1], mv)
        best == Min({Error(c) : c \in Counts})
        adc == GetAdc(boards[h], OtherPin)
    IN  /\ ~boards[h].calibrated => Error(adc) = best
        /\ boards[h].calibrated /\ ~Saturated(mv) /\ adc < MaxCount
             => 2 * Distance(adc * MvPerCount, mv) <= 2 * best + MvPerCount

(* "returning false when disabled or already expired" (ffi.rs:1501): a     *)
(* watchdog that still runs was never left unfed for its timeout, and one  *)
(* that is found expired with panic enabled has left its reset reason.     *)
ExpiryIsFinal ==
  /\ \A h \in Live : LET w == boards[h].watchdog IN w # None /\ w.gap > 0 => w.gap < w.timeout
  /\ (\E h \in Live : boards[h].watchdog # None /\ boards[h].watchdog.timedOut /\ boards[h].watchdog.panic)
       => reason # "unknown"
=============================================================================
