----------------------------- MODULE InputQueues -----------------------------
(***************************************************************************)
(* The input manager of one instance (core/input/src/manager.rs, with      *)
(* keyboard.rs, trackball.rs and touch.rs): the host's pointer and keys,   *)
(* the three event queues that firmware polls, the pins of the trackball,  *)
(* and the devices it drives, which Wire shims share (i2c_keyboard.rs).    *)
(* A manager comes with a window of the host (display/src/manager.rs) or   *)
(* with the first call that names the instance, and goes with the window.  *)
(*                                                                         *)
(* One key of each kind stands for the keymap: a letter, Shift, which has  *)
(* no byte, and a direction of the trackball.  A position is on the screen *)
(* or beside it.  Of the GT911, which is module Gt911, there is its        *)
(* contact.  A key byte is the number of its injection, with its case; a    *)
(* keyboard that has none to give answers 0.                               *)
(***************************************************************************)
EXTENDS Integers, Sequences

CONSTANTS
  Letter, Shift, Up, Pointer,   \* what the host has under its fingers
  QueueCapacity,                \* INPUT_EVENT_QUEUE_CAPACITY
  Lights, Dark,                 \* brightness of the keyboard
  MaxHostEvents, MaxDevices,    \* bounds
  None

Keys == {Letter, Shift, Up}
Sources == Keys \cup {Pointer}

ASSUME InputAssumption ==
  /\ Letter # Shift /\ Up \notin {Letter, Shift} /\ Pointer \notin Keys
  /\ QueueCapacity \in Nat \ {0} /\ MaxHostEvents \in Nat /\ MaxDevices \in Nat
  /\ Dark \in Lights /\ None \notin Lights

VARIABLES
  manager,          \* the instance's entry in INPUT_MANAGERS, or None
  window,           \* the host has a window for it, which holds the manager
  devices,          \* every keyboard controller made, with the GT911 beside it
  retained,         \* the instance's entry in PERSISTED_BACKLIGHT, or None
  told,             \* the state of keys and pointer that firmware was told
  missed,           \* those of which an event met a full queue
  injected,         \* key bytes given to a keyboard so far
  finger,           \* what the host did last: the pointer is down on the screen
  hostEvents

inputVars == <<manager, window, devices, retained, told, missed, injected, finger, hostEvents>>

(* InputManager, without its touch controller. *)
Events == [of : Sources, pressed : BOOLEAN]
InputManager ==
  [device : Nat \ {0}, pressing : BOOLEAN, known : BOOLEAN, held : SUBSET Keys,
   touches : Seq(Events), keys : Seq(Events), ball : Seq(Events), edges : Nat, intr : BOOLEAN]

ASSUME NoneIsNoManager == None \notin InputManager

-----------------------------------------------------------------------------
(* The keyboard controller. *)

NewDevice ==
  [owned |-> TRUE, queue |-> << >>, keyMode |-> FALSE, persist |-> TRUE, contact |-> FALSE,
   backlight |-> IF retained = None THEN Dark ELSE retained]

(* I2cKeyboardBus::new: a device of no instance, with the light that any   *)
(* such device of the process left behind.                                 *)
LegacyDevice(light) == [NewDevice EXCEPT !.owned = FALSE, !.backlight = light]

InjectKeyByte(device, upper) ==
  [device EXCEPT !.queue = Append(@, [at |-> injected + 1, upper |-> upper])]

(* write_transaction: "mode" stands for the key mode command, "light" for  *)
(* the brightness command, which takes effect with its argument.           *)
WrittenTo(device, bytes) ==
  CASE bytes # << >> /\ bytes[1] = "mode" -> [device EXCEPT !.keyMode = TRUE]
    [] Len(bytes) > 1 /\ bytes[1] = "light" -> [device EXCEPT !.backlight = bytes[2]]
    [] OTHER -> device

RetainedBy(device, bytes) ==
  IF Len(bytes) > 1 /\ bytes[1] = "light" /\ device.persist /\ device.owned
  THEN bytes[2] ELSE retained

KeyByte(device) ==
  IF device.keyMode /\ device.queue # << >> THEN Head(device.queue).at ELSE 0
AfterKeyByte(device) ==
  IF device.keyMode /\ device.queue # << >> THEN [device EXCEPT !.queue = Tail(@)] ELSE device

-----------------------------------------------------------------------------
(* The input manager. *)

NewManager(d) ==
  [device |-> d, pressing |-> FALSE, known |-> FALSE, held |-> {},
   touches |-> << >>, keys |-> << >>, ball |-> << >>, edges |-> 0, intr |-> TRUE]

(* input_manager(id, true) and register_input_manager: the entry there is, *)
(* or a new one with devices of its own.                                   *)
Manager == IF manager = None THEN NewManager(Len(devices) + 1) ELSE manager
Devices == IF manager = None THEN Append(devices, NewDevice) ELSE devices
MayCreate == manager = None => Len(devices) < MaxDevices

Event(of, pressed) == [of |-> of, pressed |-> pressed]
EnqueueAlways(queue, event) == Append(queue, event)  \* mutant: no bound
Enqueue(queue, event) ==
  IF Len(queue) < QueueCapacity THEN Append(queue, event) ELSE queue
Full(queue) == Len(queue) >= QueueCapacity

(* handle_keycode: a key that changes makes one event. *)
KeyChanges(m, k, pressed) == pressed # (k \in m.held)
WithKey(m, k, pressed) ==
  LET held == IF pressed THEN m.held \cup {k} ELSE m.held \ {k} IN
  CASE ~KeyChanges(m, k, pressed) -> m
    [] KeyChanges(m, k, pressed) /\ k = Up ->
         [m EXCEPT !.held = held, !.ball = Enqueue(@, Event(k, pressed)),
                   !.edges = IF pressed /\ m.intr THEN @ + 1 ELSE @]
    [] KeyChanges(m, k, pressed) /\ k # Up ->
         [m EXCEPT !.held = held, !.keys = Enqueue(@, Event(k, pressed))]

(* The keyboard of handle_keycode: a letter's byte, in the case of Shift.  *)
TypedOn(m, k, pressed, device) ==
  IF k = Letter /\ pressed /\ KeyChanges(m, k, pressed)
  THEN InjectKeyByte(device, Shift \in m.held) ELSE device

HandleKeycode(m, all, k, pressed) ==
  /\ manager' = WithKey(m, k, pressed)
  /\ devices' = [all EXCEPT ![m.device] = TypedOn(m, k, pressed, @)]
  /\ injected' = IF k = Letter /\ pressed /\ KeyChanges(m, k, pressed) THEN injected + 1 ELSE injected
  /\ missed' = IF KeyChanges(m, k, pressed) /\ Full(IF k = Up THEN m.ball ELSE m.keys)
               THEN missed \cup {k} ELSE missed

(* A touch event, and update_gt911: the queue and the GT911 get it         *)
(* together, and neither does while the manager knows no position.         *)
Touched(m, all, pressed) ==
  /\ manager' = [m EXCEPT !.pressing = pressed,
                          !.touches = IF m.known THEN Enqueue(@, Event(Pointer, pressed)) ELSE @]
  /\ devices' = [all EXCEPT ![m.device].contact = IF m.known THEN pressed ELSE @]
  /\ missed' = IF m.known /\ Full(m.touches) THEN missed \cup {Pointer} ELSE missed
  /\ UNCHANGED injected

Untouched(m, all) == manager' = m /\ devices' = all /\ UNCHANGED <<missed, injected>>
Positioned(m, inside) == [m EXCEPT !.known = @ \/ inside]

-----------------------------------------------------------------------------
InputInit ==
  /\ manager = None /\ window = FALSE /\ devices = << >> /\ retained = None
  /\ told = [s \in Sources |-> FALSE] /\ missed = {}
  /\ injected = 0 /\ finger = FALSE /\ hostEvents = 0

(* DisplayManager::create_window and destroy_window. *)
CreateWindow ==
  /\ ~window /\ MayCreate
  /\ window' = TRUE
  /\ manager' = Manager /\ devices' = Devices
  /\ UNCHANGED <<retained, told, missed, injected, finger, hostEvents>>

(* What firmware was told of the keys is what a new manager knows nothing  *)
(* of; the history starts again with it.                                   *)
DestroyWindow ==
  /\ window
  /\ window' = FALSE /\ manager' = None
  /\ told' = [s \in Sources |-> FALSE] /\ missed' = {} /\ finger' = FALSE
  /\ UNCHANGED <<devices, retained, injected, hostEvents>>

HostEvent == hostEvents < MaxHostEvents /\ hostEvents' = hostEvents + 1

(* handle_events: an event goes to the manager of the window it belongs    *)
(* to; one of no window to nobody.                                         *)
HandleEvent == window /\ HostEvent

(* handle_sdl_event; a motion beside the screen moves nothing. *)
MouseMotion ==
  /\ HandleEvent
  /\ LET m == Positioned(manager, TRUE) IN
     IF m.pressing THEN Touched(m, devices, TRUE) ELSE Untouched(m, devices)
  /\ UNCHANGED <<window, retained, told, finger>>

(* A press beside the screen is ignored, a release counts where the        *)
(* pointer was last.                                                       *)
Tapped(pressed, inside) == finger' = IF pressed /\ ~inside THEN finger ELSE pressed

MouseButtonOnScreen(pressed, inside) ==  \* mutant: a release beside the screen is lost
  /\ HandleEvent
  /\ LET m == Positioned(manager, inside) IN
     IF inside /\ m.pressing # pressed THEN Touched(m, devices, pressed) ELSE Untouched(m, devices)
  /\ Tapped(pressed, inside)
  /\ UNCHANGED <<window, retained, told>>
MouseButton(pressed, inside) ==
  /\ HandleEvent
  /\ LET m == Positioned(manager, inside) IN
     IF (inside \/ ~pressed) /\ m.pressing # pressed
     THEN Touched(m, devices, pressed) ELSE Untouched(m, devices)
  /\ Tapped(pressed, inside)
  /\ UNCHANGED <<window, retained, told>>

KeyEvent(k, pressed) ==
  /\ HandleEvent
  /\ HandleKeycode(manager, devices, k, pressed)
  /\ UNCHANGED <<window, retained, told, finger>>

(* meshemu_input_inject_touch and _key: they need no window, and a touch   *)
(* is not compared with the one before.                                    *)
InjectTouch(inside, pressed) ==
  /\ HostEvent /\ MayCreate
  /\ IF inside THEN Touched(Positioned(Manager, TRUE), Devices, pressed)
     ELSE Untouched(Manager, Devices)
  /\ finger' = IF inside THEN pressed ELSE finger
  /\ UNCHANGED <<window, retained, told>>

InjectKey(k, pressed) ==
  /\ HostEvent /\ MayCreate
  /\ HandleKeycode(Manager, Devices, k, pressed)
  /\ UNCHANGED <<window, retained, told, finger>>

(* meshemu_input_poll_touch, _key and _trackball. *)
Polled(queue) == told' = [told EXCEPT ![Head(queue).of] = Head(queue).pressed]

PollTouch ==
  /\ manager # None /\ manager.touches # << >>
  /\ Polled(manager.touches)
  /\ manager' = [manager EXCEPT !.touches = Tail(@)]
  /\ UNCHANGED <<window, devices, retained, missed, injected, finger, hostEvents>>

PollKeyboard ==
  /\ manager # None /\ manager.keys # << >>
  /\ Polled(manager.keys)
  /\ manager' = [manager EXCEPT !.keys = Tail(@)]
  /\ UNCHANGED <<window, devices, retained, missed, injected, finger, hostEvents>>

PollTrackball ==
  /\ manager # None /\ manager.ball # << >>
  /\ Polled(manager.ball)
  /\ manager' = [manager EXCEPT !.ball = Tail(@)]
  /\ UNCHANGED <<window, devices, retained, missed, injected, finger, hostEvents>>

(* The pins: their level follows the key, their edges are counted while    *)
(* the interrupt is enabled, and taken once.                               *)
DigitalRead == Up \notin manager.held

TakeFallingEdges ==
  /\ manager # None /\ manager.edges > 0
  /\ manager' = [manager EXCEPT !.edges = 0]
  /\ UNCHANGED <<window, devices, retained, told, missed, injected, finger, hostEvents>>

SetGpioIntrEnabled(enabled) ==
  /\ manager # None /\ HostEvent
  /\ manager' = [manager EXCEPT !.intr = enabled]
  /\ UNCHANGED <<window, devices, retained, told, missed, injected, finger>>

InputNext ==
  \/ CreateWindow \/ DestroyWindow
  \/ MouseMotion
  \/ \E pressed, inside \in BOOLEAN : MouseButton(pressed, inside) \/ InjectTouch(inside, pressed)
  \/ \E k \in Keys, pressed \in BOOLEAN : KeyEvent(k, pressed) \/ InjectKey(k, pressed)
  \/ PollTouch \/ PollKeyboard \/ PollTrackball \/ TakeFallingEdges
  \/ \E enabled \in BOOLEAN : SetGpioIntrEnabled(enabled)

-----------------------------------------------------------------------------
(* Properties. *)

(* Once firmware has polled all that is queued, whichever queue it polls   *)
(* first, it will believe this of a key or of the pointer.                 *)
Queues == {manager.touches, manager.keys, manager.ball}
WillBelieve(s, state) ==
  /\ \A queue \in Queues : \A i \in 1..Len(queue) :
       queue[i].of = s /\ (\A j \in 1..Len(queue) : j > i => queue[j].of # s)
       => queue[i].pressed = state
  /\ (\A queue \in Queues : \A i \in 1..Len(queue) : queue[i].of # s) => told[s] = state

(* A queue tells a source in turn: each event of it differs from the one   *)
(* before, and the first (here after event 0) from what was told already.  *)
ToldInTurn(queue, s, old) ==
  \A j \in 1..Len(queue), i \in 0..Len(queue) :
    /\ i < j /\ queue[j].of = s /\ (i = 0 \/ queue[i].of = s)
    /\ \A l \in 1..Len(queue) : i < l /\ l < j => queue[l].of # s
    => queue[j].pressed # IF i = 0 THEN old ELSE queue[i].pressed

(* "must not be able to grow host memory without bound" (manager.rs:21):   *)
(* the queues are bounded, and that is the only way to lose an event: with *)
(* SDL and the bridge both driving it, firmware that polls ends up with    *)
(* the state of every key and of the pointer, unless an event of it met a  *)
(* full queue; and until then a key is told pressed and released in turn,  *)
(* never twice the same, also when the host repeats a key that is held.    *)
OnlyFullQueuesMisreport ==
  manager # None =>
    /\ \A queue \in Queues : Len(queue) <= QueueCapacity
    /\ \A k \in Keys \ missed :
         /\ WillBelieve(k, k \in manager.held)
         /\ \A queue \in Queues : ToldInTurn(queue, k, told[k])
    /\ Up \notin missed => WillBelieve(Up, ~DigitalRead)
    /\ Pointer \notin missed => WillBelieve(Pointer, manager.pressing)

(* "an out-of-bounds release still releases an active contact at its last  *)
(* valid position" (touch.rs:55): the touch controller has a contact       *)
(* exactly while the last the host did to the pointer was to put it down   *)
(* on the screen, with SDL and the bridge in any mixture, events beside    *)
(* the screen and dropped ones among them, and on a manager of any age; a  *)
(* contact has a position.                                                 *)
ContactFollowsPointer ==
  manager # None =>
    /\ devices[manager.device].contact = finger
    /\ manager.pressing = finger
    /\ manager.pressing => manager.known
=============================================================================
