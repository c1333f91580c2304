------------------------------- MODULE Buzzer -------------------------------
(***************************************************************************)
(* The tone buzzer of one instance (core/board/src/buzzer.rs) with the     *)
(* peripheral rail that powers it (digital_write and ledc_write of         *)
(* core/board/src/lib.rs).                                                 *)
(*                                                                         *)
(* A call holds the buzzer's mutex, but it shares two things with the      *)
(* audio worker that no lock covers: the command channel and the atomic    *)
(* flag `playing`.  Each access to one of them is a step of its own; what  *)
(* a thread has left of its call is the sequence todo[thread].             *)
(*                                                                         *)
(* The owner of the board handle is one thread: the board's methods take   *)
(* &mut self under the handle's lock.  Frequencies, duty cycles and        *)
(* durations only matter as the kind of tone they ask for.  The registry   *)
(* of buzzers and the audio device are left out: the worker runs the same  *)
(* loop with and without a device.                                         *)
(***************************************************************************)
EXTENDS Naturals, Sequences

CONSTANTS
  Board,          \* the thread that owns the board handle
  Callers,        \* threads that call meshemu_buzzer_*
  Nobody,         \* the owner of a free mutex
  HasWorker,      \* whether the audio worker thread could be spawned
  MaxBuzzerCalls  \* bound: calls in one behaviour

Threads == Callers \cup {Board}

ASSUME ThreadsAssumption == Board \notin Callers /\ Nobody \notin Threads

VARIABLES
  railOn,         \* PERIPHERAL_POWER of the instance
  owner,          \* who holds the buzzer's mutex
  todo,           \* todo[t]: the steps thread t has left of its call
  playing,        \* VirtualBuzzer.playing
  queue,          \* the channel to the worker
  toneOn,         \* ToneState.playing: the callback fills in a sine wave
  deadline,       \* whether the worker has a deadline
  workerStore,    \* the value the worker is about to store into `playing`
  buzzerCalls,    \* calls made so far
  wanted          \* history: the tone the last call under the mutex asked for

buzzerVars == <<railOn, owner, todo, playing, queue, toneOn, deadline,
                workerStore, buzzerCalls, wanted>>

Commands == {"timed", "held", "stop"}    \* AudioCommand
Tones == {"timed", "held", "none"}       \* "none" makes no sound: frequency 0,
                                         \* no duration, or duty 0 or 1

BuzzerInit ==
  /\ railOn = TRUE
  /\ owner = Nobody
  /\ todo = [t \in Threads |-> << >>]
  /\ playing = FALSE
  /\ queue = << >>
  /\ toneOn = FALSE
  /\ deadline = FALSE
  /\ workerStore = "none"
  /\ buzzerCalls = 0
  /\ wanted = "none"

-----------------------------------------------------------------------------
(* Calls, as the steps they are made of. *)

Locked(steps) == <<"lock">> \o steps \o <<"unlock">>

StopSteps == <<"stop", "quiet">>

StartTone(tone) ==
  StopSteps \o (IF tone = "none" THEN <<"quiet">> ELSE <<"announce", tone>>)

BuzzerCall(t, steps) ==
  /\ todo[t] = << >>
  /\ buzzerCalls < MaxBuzzerCalls
  /\ buzzerCalls' = buzzerCalls + 1
  /\ todo' = [todo EXCEPT ![t] = steps]
  /\ UNCHANGED <<railOn, owner, playing, queue, toneOn, deadline, workerStore, wanted>>

(* meshemu_buzzer_beep looks at the rail before it takes the mutex. *)
BuzzerBeep(t, tone) == BuzzerCall(t, <<"checkPower">> \o Locked(StartTone(tone)))

BuzzerStop(t) == BuzzerCall(t, Locked(StopSteps))

(* digital_write of GPIO10; the rail going down stops the tone.  (After a  *)
(* quiesce of the board, raising the rail is refused and changes nothing.) *)
DigitalWriteRail(high) ==
  BuzzerCall(Board, IF high THEN <<"railUp">> ELSE <<"railDown">> \o Locked(StopSteps))

(* ledc_write of a channel that drives GPIO46. *)
LedcWriteBuzzer(tone) ==
  BuzzerCall(Board, Locked(IF railOn THEN StartTone(tone) ELSE StopSteps))

-----------------------------------------------------------------------------
(* One step of a call. *)

NextStep(t) == Head(todo[t])
Pending(t, step) == todo[t] # << >> /\ NextStep(t) = step
Done(t) == todo' = [todo EXCEPT ![t] = Tail(@)]

CheckPower(t) ==
  /\ Pending(t, "checkPower")
  /\ todo' = [todo EXCEPT ![t] = IF railOn THEN Tail(@) ELSE << >>]
  /\ UNCHANGED <<railOn, owner, playing, queue, toneOn, deadline, workerStore, buzzerCalls, wanted>>

SetRail(high) ==
  /\ Pending(Board, IF high THEN "railUp" ELSE "railDown")
  /\ Done(Board)
  /\ railOn' = high
  /\ UNCHANGED <<owner, playing, queue, toneOn, deadline, workerStore, buzzerCalls, wanted>>

Lock(t) ==
  /\ Pending(t, "lock")
  /\ owner = Nobody
  /\ owner' = t
  /\ Done(t)
  /\ UNCHANGED <<railOn, playing, queue, toneOn, deadline, workerStore, buzzerCalls, wanted>>

Unlock(t) ==
  /\ Pending(t, "unlock")
  /\ owner' = Nobody
  /\ Done(t)
  /\ UNCHANGED <<railOn, playing, queue, toneOn, deadline, workerStore, buzzerCalls, wanted>>

(* Send a command, to nobody if there is no worker. *)
SendDropsStop(t) ==  \* mutant: a stop is not sent
  /\ \E c \in Commands : Pending(t, c)
  /\ queue' = IF HasWorker /\ NextStep(t) # "stop" THEN Append(queue, NextStep(t)) ELSE queue
  /\ wanted' = IF NextStep(t) = "stop" THEN "none" ELSE NextStep(t)
  /\ Done(t)
  /\ UNCHANGED <<railOn, owner, playing, toneOn, deadline, workerStore, buzzerCalls>>
Send(t) ==
  /\ \E c \in Commands : Pending(t, c)
  /\ queue' = IF HasWorker THEN Append(queue, NextStep(t)) ELSE queue
  /\ wanted' = IF NextStep(t) = "stop" THEN "none" ELSE NextStep(t)
  /\ Done(t)
  /\ UNCHANGED <<railOn, owner, playing, toneOn, deadline, workerStore, buzzerCalls>>

Store(t) ==
  /\ Pending(t, "quiet") \/ Pending(t, "announce")
  /\ playing' = (NextStep(t) = "announce")
  /\ Done(t)
  /\ UNCHANGED <<railOn, owner, queue, toneOn, deadline, workerStore, buzzerCalls, wanted>>

-----------------------------------------------------------------------------
(* The audio worker. *)

(* Receive a command: a beep arms the deadline if it is timed and is then  *)
(* stored into `playing`; a stop leaves `playing` alone.                   *)
WorkerReceiveForgets ==  \* mutant: a beep is not stored
  /\ HasWorker /\ workerStore = "none" /\ queue # << >>
  /\ queue' = Tail(queue)
  /\ toneOn' = (Head(queue) # "stop")
  /\ deadline' = (Head(queue) = "timed")
  /\ UNCHANGED <<railOn, owner, todo, playing, workerStore, buzzerCalls, wanted>>
WorkerReceiveUntimed ==  \* mutant: no deadline is set
  /\ HasWorker /\ workerStore = "none" /\ queue # << >>
  /\ queue' = Tail(queue)
  /\ toneOn' = (Head(queue) # "stop")
  /\ workerStore' = IF Head(queue) = "stop" THEN "none" ELSE "true"
  /\ UNCHANGED <<railOn, owner, todo, playing, deadline, buzzerCalls, wanted>>
WorkerReceive ==
  /\ HasWorker /\ workerStore = "none" /\ queue # << >>
  /\ queue' = Tail(queue)
  /\ toneOn' = (Head(queue) # "stop")
  /\ deadline' = (Head(queue) = "timed")
  /\ workerStore' = IF Head(queue) = "stop" THEN "none" ELSE "true"
  /\ UNCHANGED <<railOn, owner, todo, playing, buzzerCalls, wanted>>

(* recv_timeout times out: the deadline has come, or there is none and an  *)
(* hour has passed.                                                        *)
WorkerTimeout ==
  /\ HasWorker /\ workerStore = "none" /\ queue = << >>
  /\ toneOn' = FALSE
  /\ deadline' = FALSE
  /\ workerStore' = "false"
  /\ UNCHANGED <<railOn, owner, todo, playing, queue, buzzerCalls, wanted>>

WorkerFinish ==
  /\ workerStore # "none"
  /\ playing' = (workerStore = "true")
  /\ workerStore' = "none"
  /\ UNCHANGED <<railOn, owner, todo, queue, toneOn, deadline, buzzerCalls, wanted>>

-----------------------------------------------------------------------------
ThreadStep(t) ==
  CheckPower(t) \/ Lock(t) \/ Unlock(t) \/ Send(t) \/ Store(t)

BuzzerNext ==
  \/ \E t \in Callers, tone \in {"timed", "none"} : BuzzerBeep(t, tone)
  \/ \E t \in Callers : BuzzerStop(t)
  \/ \E high \in BOOLEAN : DigitalWriteRail(high)
  \/ \E tone \in {"held", "none"} : LedcWriteBuzzer(tone)
  \/ \E t \in Threads : ThreadStep(t)
  \/ \E high \in BOOLEAN : SetRail(high)
  \/ WorkerReceive
  \/ WorkerTimeout
  \/ WorkerFinish

BuzzerSpec == BuzzerInit /\ [][BuzzerNext]_buzzerVars

(* Threads are scheduled, the worker runs, and a deadline comes. *)
BuzzerFairSpec ==
  /\ BuzzerSpec
  /\ \A t \in Threads : WF_buzzerVars(ThreadStep(t))
  /\ \A high \in BOOLEAN : WF_buzzerVars(SetRail(high))
  /\ WF_buzzerVars(WorkerReceive)
  /\ WF_buzzerVars(WorkerFinish)
  /\ WF_buzzerVars(deadline /\ WorkerTimeout)

-----------------------------------------------------------------------------
(* Properties. *)

(* Types; whoever is inside a call's critical section owns the mutex, so   *)
(* two calls never mix their commands.                                     *)
BuzzerTypeOK ==
  /\ railOn \in BOOLEAN /\ playing \in BOOLEAN
  /\ toneOn \in BOOLEAN /\ deadline \in BOOLEAN
  /\ queue \in Seq(Commands)
  /\ workerStore \in {"none", "true", "false"}
  /\ wanted \in Tones
  /\ \A t \in Threads :
       \/ todo[t] = << >> \/ NextStep(t) \in {"checkPower", "railUp", "railDown", "lock"}
       \/ owner = t

(* Nobody is inside a call and the worker has nothing left to do. *)
Settled ==
  /\ \A t \in Threads : todo[t] = << >>
  /\ queue = << >>
  /\ workerStore = "none"

(* A tone that sounds when everything has come to rest is reported, though *)
(* threads and worker write `playing` in any order.                        *)
SoundIsReported == Settled /\ toneOn => playing

(* The last call under the mutex has its way: after a stop, no command of  *)
(* an earlier call makes a sound.                                          *)
LastCallDecides == Settled /\ wanted = "none" => ~toneOn

(* A timed tone ends by itself, and is reported to have ended, unless      *)
(* another call replaces it ("Timed tones stop independently").            *)
TimedTonesEnd ==
  wanted = "timed" ~> (wanted # "timed" \/ (~toneOn /\ ~playing))

(* is_playing "reports whether a tone is active", buzzer.rs:233. *)
ReportIsExact == Settled => (playing <=> toneOn)

(* GPIO10 gates the buzzer: no tone with the rail down (lib.rs:858, 870).  *)
RailGatesBuzzer == Settled /\ ~railOn => ~toneOn
=============================================================================
