------------------------------- MODULE Gt911 -------------------------------
(***************************************************************************)
(* The GT911 touch controllers of the virtual boards                       *)
(* (core/input/src/gt911.rs): contacts, report frames, the three failure   *)
(* modes with their watchdogs, and the registry that configures the        *)
(* controllers there are and those to come.                                *)
(*                                                                         *)
(* A controller is a record and its methods are functions of it; each runs *)
(* under the controller's mutex.  A failure mode is set in two steps: in   *)
(* the registry, then in each controller.  Around them are who calls: the  *)
(* host's pointer (manager.rs), the frame loop, C callers of the failure   *)
(* modes, and firmware that polls the status register and acknowledges.    *)
(*                                                                         *)
(* Only the primary contact is used outside of tests.  A point stands for  *)
(* a host position with its mapping, its size and the diagnostic copies    *)
(* of it.  Times and rates are scaled by the constants.                    *)
(***************************************************************************)
EXTENDS Integers, FiniteSets

CONSTANTS
  Instances, Callers, Points,
  Whole,            \* 100 percent
  RateValues,       \* failure rates that are asked for, clamped to Whole
  StallTimes,       \* frame stalls that are asked for, in ms
  ScanInterval, FrameWatchdog, PhantomWatchdog,   \* in ms
  BusWatchdog,      \* failed reads in a row
  FrameMs,          \* a frame of the main loop
  SplitPolls,       \* firmware may acknowledge in a later call than it reads
  MaxTime, MaxTouches, MaxReads, MaxSettings,     \* bounds
  None              \* no value

ASSUME TouchAssumption ==
  /\ None \notin Points /\ None \notin Int
  /\ Whole \in Nat \ {0} /\ RateValues \subseteq Nat
  /\ StallTimes \subseteq Nat /\ 0 \in StallTimes
  /\ {ScanInterval, FrameWatchdog, PhantomWatchdog, BusWatchdog, FrameMs} \subseteq Nat
  /\ SplitPolls \in BOOLEAN

VARIABLES
  globalConfig,     \* ControllerRegistry.global_configuration
  ownConfig,        \* instance_configurations: None where there is none
  ctl,              \* ctl[i]: the controller of instance i, None if not made
  pending,          \* pending[c]: what a caller has left to apply, or None
  simNow,           \* the time of the frame
  reading,          \* firmware has read a frame and not acknowledged it
  seen,             \* seen[i]: the contact firmware was last told of
  reads, failed,    \* history: status reads, and failed ones, at this rate
  touches, polls, settings   \* counted against the bounds

registryVars == <<globalConfig, ownConfig, pending, settings>>
firmwareVars == <<reading, seen, reads, failed, polls>>
touchVars == <<registryVars, ctl, simNow, firmwareVars, touches>>

-----------------------------------------------------------------------------
(* The controller. *)

Config == [rate : 0..Whole, stall : StallTimes, latch : BOOLEAN]
NoFailures == [rate |-> 0, stall |-> 0, latch |-> FALSE]

MaybePoint == Points \cup {None}
MaybeTime == Nat \cup {None}
Controller ==
  [contact : MaybePoint, physical : MaybePoint, ready : BOOLEAN, lastFrame : MaybeTime,
   now : Nat, rate : 0..Whole, accumulator : 0..(Whole - 1), failures : Nat,
   stallMs : StallTimes, stall : [from : Nat, until : Nat] \cup {None}, latch : BOOLEAN,
   frozen : MaybePoint, frozenAt : MaybeTime, fired : SUBSET {"bus", "stall", "phantom"}]

Marked(c) == [c EXCEPT !.ready = TRUE, !.lastFrame = c.now]

Stalled(c) == c.stall # None /\ c.now < c.stall.until
MarkedUnlessStalled(c) == IF Stalled(c) THEN c ELSE Marked(c)

Armed(c) ==
  [c EXCEPT !.stall = IF c.stallMs = 0 \/ c.contact = None THEN None
                      ELSE [from |-> c.now, until |-> c.now + c.stallMs]]

WithRate(c, rate) ==
  [c EXCEPT !.rate = rate, !.accumulator = 0, !.failures = 0, !.fired = @ \ {"bus"}]

WithStall(c, ms) == Armed([c EXCEPT !.stallMs = ms, !.fired = @ \ {"stall"}])

(* The latch freezes the contact there is; without it the contact is again *)
(* what the host does, and firmware is told.                               *)
WithLatchStuck(c, on) ==  \* mutant: the frozen contact stays
  LET d == [c EXCEPT !.latch = on, !.fired = @ \ {"phantom"}] IN
  IF on THEN [d EXCEPT !.frozen = c.contact,
                       !.frozenAt = IF c.contact = None THEN None ELSE c.now]
  ELSE [d EXCEPT !.frozen = None, !.frozenAt = None]
WithLatch(c, on) ==
  LET d == [c EXCEPT !.latch = on, !.fired = @ \ {"phantom"}] IN
  IF on THEN [d EXCEPT !.frozen = c.contact,
                       !.frozenAt = IF c.contact = None THEN None ELSE c.now]
  ELSE LET thawed == [d EXCEPT !.frozen = None, !.frozenAt = None] IN
       IF c.latch THEN Marked([thawed EXCEPT !.contact = c.physical]) ELSE thawed

Pressed(c, p) ==
  LET shown == IF c.latch /\ c.frozen # None THEN c.frozen ELSE p
      d == [c EXCEPT !.physical = p, !.contact = shown,
                     !.frozen = IF c.latch THEN shown ELSE @,
                     !.frozenAt = IF c.latch /\ @ = None THEN c.now ELSE @]
  IN IF c.contact = None THEN Marked(Armed(d)) ELSE MarkedUnlessStalled(d)

LiftedWhenAwake(c) ==  \* mutant: a stall swallows the lift
  LET d == [c EXCEPT !.physical = None] IN
  IF c.latch /\ c.frozen # None THEN MarkedUnlessStalled([d EXCEPT !.contact = c.frozen])
  ELSE MarkedUnlessStalled([d EXCEPT !.contact = None, !.frozen = None, !.frozenAt = None])
Lifted(c) ==
  LET d == [c EXCEPT !.physical = None] IN
  IF c.latch /\ c.frozen # None THEN MarkedUnlessStalled([d EXCEPT !.contact = c.frozen])
  ELSE Marked([d EXCEPT !.contact = None, !.stall = None, !.frozen = None, !.frozenAt = None])

(* tick: the watchdogs of a held contact, and its next frame. *)
Ticked(c, t) ==
  LET d == [c EXCEPT !.now = t]
      silent == /\ c.stall # None /\ ~c.ready
                /\ c.stall.until > c.stall.from + FrameWatchdog
                /\ t > c.stall.from + FrameWatchdog
      frozenLong == c.latch /\ c.frozenAt # None /\ t - c.frozenAt > PhantomWatchdog
      e == [d EXCEPT !.fired = @ \cup (IF silent THEN {"stall"} ELSE {})
                                 \cup (IF frozenLong THEN {"phantom"} ELSE {})]
      due == c.lastFrame = None \/ t - c.lastFrame >= ScanInterval
  IN IF c.contact = None THEN d
     ELSE IF ~c.ready /\ due THEN MarkedUnlessStalled(e) ELSE e

(* fail_status_read: the accumulator carries the remainder of the rate.    *)
FailsRead(c) == c.accumulator + c.rate >= Whole
ReadForgets(c) ==  \* mutant: a failure drops the remainder
  IF ~FailsRead(c) THEN [c EXCEPT !.accumulator = @ + c.rate, !.failures = 0]
  ELSE [c EXCEPT !.accumulator = 0, !.failures = IF c.contact = None THEN 0 ELSE @ + 1]
Read(c) ==
  IF ~FailsRead(c) THEN [c EXCEPT !.accumulator = @ + c.rate, !.failures = 0]
  ELSE LET n == IF c.contact = None THEN 0 ELSE c.failures + 1 IN
       [c EXCEPT !.accumulator = @ + c.rate - Whole, !.failures = n,
                 !.fired = @ \cup (IF c.contact # None /\ n >= BusWatchdog THEN {"bus"} ELSE {})]

Acknowledged(c) == [c EXCEPT !.ready = FALSE]

NewController(config) ==
  LET fresh == [contact |-> None, physical |-> None, ready |-> FALSE, lastFrame |-> None,
                now |-> 0, rate |-> 0, accumulator |-> 0, failures |-> 0,
                stallMs |-> 0, stall |-> None, latch |-> FALSE,
                frozen |-> None, frozenAt |-> None, fired |-> {}]
  IN WithLatch(WithStall(WithRate(fresh, config.rate), config.stall), config.latch)

-----------------------------------------------------------------------------
(* The registry. *)

ConfigOf(i) == IF ownConfig[i] = None THEN globalConfig ELSE ownConfig[i]

(* set: one mode of a configuration, and apply_failure_mode. *)
Settings == [mode : {"rate"}, value : {IF v > Whole THEN Whole ELSE v : v \in RateValues}]
            \cup [mode : {"stall"}, value : StallTimes]
            \cup [mode : {"latch"}, value : BOOLEAN]

Work == [manager : Instances \cup {None}, setting : Settings, left : SUBSET Instances]

ASSUME NoneAssumption == None \notin Config \cup Controller \cup Work

SetIn(config, s) ==
  CASE s.mode = "rate"  -> [config EXCEPT !.rate = s.value]
    [] s.mode = "stall" -> [config EXCEPT !.stall = s.value]
    [] s.mode = "latch" -> [config EXCEPT !.latch = s.value]

ApplyTo(c, s) ==
  CASE s.mode = "rate"  -> WithRate(c, s.value)
    [] s.mode = "stall" -> WithStall(c, s.value)
    [] s.mode = "latch" -> WithLatch(c, s.value)

Live == {i \in Instances : ctl[i] # None}

(* The instance's own call holds the lock of its input manager throughout. *)
ManagerFree(i) == \A c \in Callers : pending[c] # None => pending[c].manager # i

Init ==
  /\ globalConfig = NoFailures
  /\ ownConfig = [i \in Instances |-> None]
  /\ ctl = [i \in Instances |-> None]
  /\ pending = [c \in Callers |-> None]
  /\ simNow = 0
  /\ reading = [i \in Instances |-> FALSE]
  /\ seen = [i \in Instances |-> None]
  /\ reads = [i \in Instances |-> 0] /\ failed = [i \in Instances |-> 0]
  /\ touches = 0 /\ polls = 0 /\ settings = 0

CreateFromGlobal(i) ==  \* mutant: the instance's own settings are not looked up
  /\ ctl[i] = None
  /\ ctl' = [ctl EXCEPT ![i] = NewController(globalConfig)]
  /\ UNCHANGED <<registryVars, simNow, firmwareVars, touches>>
Create(i) ==
  /\ ctl[i] = None
  /\ ctl' = [ctl EXCEPT ![i] = NewController(ConfigOf(i))]
  /\ UNCHANGED <<registryVars, simNow, firmwareVars, touches>>

(* The window is destroyed and forgets the input manager, which nobody     *)
(* else holds: the controller goes, and whoever was about to configure it  *)
(* has it to itself.                                                       *)
RemoveManager(i) ==
  /\ ctl[i] # None /\ ManagerFree(i) /\ ~reading[i] /\ touches < MaxTouches
  /\ touches' = touches + 1
  /\ ctl' = [ctl EXCEPT ![i] = None]
  /\ pending' = [c \in Callers |->
                   IF pending[c] = None THEN None ELSE [pending[c] EXCEPT !.left = @ \ {i}]]
  /\ seen' = [seen EXCEPT ![i] = None]
  /\ reads' = [reads EXCEPT ![i] = 0] /\ failed' = [failed EXCEPT ![i] = 0]
  /\ UNCHANGED <<globalConfig, ownConfig, settings, simNow, reading, polls>>

SetForInstance(c, i, s) ==
  /\ pending[c] = None /\ settings < MaxSettings
  /\ ManagerFree(i) /\ ctl[i] # None
  /\ settings' = settings + 1
  /\ ownConfig' = [ownConfig EXCEPT ![i] = SetIn(ConfigOf(i), s)]
  /\ pending' = [pending EXCEPT ![c] = [manager |-> i, setting |-> s, left |-> {i}]]
  /\ UNCHANGED <<globalConfig, ctl, simNow, firmwareVars, touches>>

SetGlobal(c, s) ==
  /\ pending[c] = None /\ settings < MaxSettings
  /\ settings' = settings + 1
  /\ globalConfig' = SetIn(globalConfig, s)
  /\ ownConfig' = [i \in Instances |->
                     IF ownConfig[i] = None THEN None ELSE SetIn(ownConfig[i], s)]
  /\ pending' = [pending EXCEPT ![c] = [manager |-> None, setting |-> s, left |-> Live]]
  /\ UNCHANGED <<ctl, simNow, firmwareVars, touches>>

(* The controllers that were alive, one after the other. *)
Apply(c) ==
  /\ pending[c] # None
  /\ \E i \in pending[c].left :
       LET s == pending[c].setting
           restart == s.mode = "rate"
       IN /\ ctl' = [ctl EXCEPT ![i] = ApplyTo(ctl[i], s)]
          /\ pending' = [pending EXCEPT ![c].left = @ \ {i}]
          /\ reads' = IF restart THEN [reads EXCEPT ![i] = 0] ELSE reads
          /\ failed' = IF restart THEN [failed EXCEPT ![i] = 0] ELSE failed
  /\ UNCHANGED <<globalConfig, ownConfig, settings, simNow, reading, seen, polls, touches>>

Applied(c) ==
  /\ pending[c] # None /\ pending[c].left = {}
  /\ pending' = [pending EXCEPT ![c] = None]
  /\ UNCHANGED <<globalConfig, ownConfig, settings, ctl, simNow, firmwareVars, touches>>

-----------------------------------------------------------------------------
(* The host and firmware. *)

(* update_gt911: a press, a movement or a release of the pointer.  The     *)
(* emulator filters SDL's events; meshemu_input_inject_touch does not.     *)
InjectTouch(i, p) ==
  /\ ctl[i] # None /\ ManagerFree(i) /\ touches < MaxTouches
  /\ touches' = touches + 1
  /\ ctl' = [ctl EXCEPT ![i] = IF p = None THEN Lifted(@) ELSE Pressed(@, p)]
  /\ UNCHANGED <<registryVars, simNow, firmwareVars>>

(* One controller after the other; only the frame loop ticks. *)
TickAll ==
  /\ simNow + FrameMs <= MaxTime
  /\ simNow' = simNow + FrameMs
  /\ ctl' = [i \in Instances |-> IF i \in Live THEN Ticked(ctl[i], simNow + FrameMs) ELSE None]
  /\ UNCHANGED <<registryVars, firmwareVars, touches>>

(* Firmware reads status and contact; a failed read, or one that finds no  *)
(* frame, tells it nothing.  It acknowledges in the same call of its loop, *)
(* or later.                                                               *)
ReadStatus(i) ==
  /\ ctl[i] # None /\ ~reading[i] /\ polls < MaxReads
  /\ \E later \in {FALSE, SplitPolls} :
       LET told == ~FailsRead(ctl[i]) /\ ctl[i].ready IN
       /\ ctl' = [ctl EXCEPT ![i] = IF told /\ ~later THEN Acknowledged(Read(@)) ELSE Read(@)]
       /\ seen' = IF told THEN [seen EXCEPT ![i] = ctl[i].contact] ELSE seen
       /\ reading' = [reading EXCEPT ![i] = told /\ later]
  /\ reads' = [reads EXCEPT ![i] = @ + 1]
  /\ failed' = IF FailsRead(ctl[i]) THEN [failed EXCEPT ![i] = @ + 1] ELSE failed
  /\ polls' = polls + 1
  /\ UNCHANGED <<registryVars, simNow, touches>>

Acknowledge(i) ==
  /\ reading[i]
  /\ reading' = [reading EXCEPT ![i] = FALSE]
  /\ ctl' = [ctl EXCEPT ![i] = Acknowledged(@)]
  /\ UNCHANGED <<registryVars, simNow, seen, reads, failed, polls, touches>>

-----------------------------------------------------------------------------
Next ==
  \/ \E i \in Instances : Create(i) \/ RemoveManager(i) \/ ReadStatus(i) \/ Acknowledge(i)
  \/ \E i \in Instances, p \in Points \cup {None} : InjectTouch(i, p)
  \/ \E c \in Callers, i \in Instances, s \in Settings : SetForInstance(c, i, s)
  \/ \E c \in Callers, s \in Settings : SetGlobal(c, s)
  \/ \E c \in Callers : Apply(c) \/ Applied(c)
  \/ TickAll

Spec == Init /\ [][Next]_touchVars

-----------------------------------------------------------------------------
(* Properties. *)

(* Types: an accumulator stays below a whole failure; only controllers     *)
(* that live wait for a setting; a frame has a time, and a frozen contact  *)
(* knows since when it is frozen.                                          *)
TouchTypeOK ==
  /\ globalConfig \in Config
  /\ ownConfig \in [Instances -> Config \cup {None}]
  /\ ctl \in [Instances -> Controller \cup {None}]
  /\ pending \in [Callers -> Work \cup {None}]
  /\ \A c \in Callers : pending[c] # None => pending[c].left \subseteq Live
  /\ simNow \in Nat
  /\ reading \in [Instances -> BOOLEAN] /\ seen \in [Instances -> MaybePoint]
  /\ \A i \in Instances : reading[i] => i \in Live
  /\ reads \in [Instances -> Nat] /\ failed \in [Instances -> Nat]
  /\ {touches, polls, settings} \subseteq Nat
  /\ \A i \in Live : /\ ctl[i].ready => ctl[i].lastFrame # None
                    /\ (ctl[i].frozen = None) <=> (ctl[i].frozenAt = None)

(* "Freeze the first pressed point and continue reporting it until         *)
(* disabled" (gt911.rs:174): whatever touches, releases and switches of    *)
(* the latch came before, the contact is the frozen one while there is one *)
(* and otherwise what the host's pointer does.                             *)
ShownContactIsRight ==
  \A i \in Live : LET c == ctl[i] IN
    /\ c.frozen # None => c.latch
    /\ c.contact = IF c.frozen # None THEN c.frozen ELSE c.physical

(* Firmware believes in a contact that is gone, and no frame tells it: a   *)
(* controller without a contact makes no further frame.                    *)
Unheard(i) == i \in Live /\ ctl[i].contact = None /\ ~ctl[i].ready /\ seen[i] # None

(* "A zero-contact frame is the real GT911 lift notification"              *)
(* (gt911.rs:257): firmware is told of every lift.                         *)
LiftIsAnnounced == \A i \in Instances : ~Unheard(i)

(* Only firmware itself loses a lift, with an acknowledgement of an        *)
(* earlier frame that it makes later than its read (gt911.rs:352): no      *)
(* release, movement, stall, latch, failed read or frame does.             *)
Announces ==
  \A i \in Instances : Unheard(i)' => Unheard(i) \/ (reading[i] /\ ~reading'[i])
OnlyLateAcknowledgementsLose == [][Announces]_touchVars

(* "An exact percentage of status reads fail" (gt911.rs:154): of any       *)
(* number of reads at one rate, the share that failed is that rate of      *)
(* them, rounded down.                                                     *)
FailuresAreExact ==
  \A i \in Live : reads[i] * ctl[i].rate - failed[i] * Whole \in 0..(Whole - 1)

(* A failure mode is for "live and future controllers" (gt911.rs:489,516): *)
(* when no call is at work, a controller has the registry's settings.      *)
SettingsReachControllers ==
  (\A c \in Callers : pending[c] = None) =>
    \A i \in Live : [rate |-> ctl[i].rate, stall |-> ctl[i].stallMs, latch |-> ctl[i].latch]
                    = ConfigOf(i)
=============================================================================
