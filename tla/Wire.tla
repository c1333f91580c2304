-------------------------------- MODULE Wire --------------------------------
(***************************************************************************)
(* The Arduino Wire buses that firmware opens for an instance              *)
(* (core/input/src/wire_shim.rs) and the keyboard handles it may attach to *)
(* them, on top of the input manager.  A transaction takes several calls,  *)
(* and between them the host types, closes the window or cuts the power,   *)
(* and other wires use the devices.  One lock lets one call at a time work *)
(* on any wire.  A call that looks at its wire only is one step; one that  *)
(* goes on to a device is two, since neither the rail nor the devices are  *)
(* under that lock.                                                        *)
(*                                                                         *)
(* A register of the GT911 is the status register or not; what it answers  *)
(* is module Gt911's matter, here it is the contact or a failed read.      *)
(***************************************************************************)
EXTENDS InputQueues, FiniteSets

CONSTANTS
  Wires,
  KeyboardAt, TouchAt, Nowhere,   \* addresses on the bus
  TxCapacity,                     \* WIRE_TX_BUFFER_CAPACITY
  MaxWireCalls                    \* bound

Clocks == {"slow", "fast", "odd"}   \* 100 kHz, 400 kHz, any other

ASSUME WireAssumption == TxCapacity \in Nat /\ MaxWireCalls \in Nat /\ None \notin {KeyboardAt, TouchAt, Nowhere}

VARIABLES
  wires,            \* wires[w]: the shim, or None
  handles,          \* keyboards that firmware holds a handle of
  powered,          \* the rail of the instance (board/src/lib.rs)
  got,              \* got[w]: the key bytes that read() returned
  calling,          \* the call inside WIRE_HANDLE_LOCK that found its bus in order
  late,             \* the rail fell after that
  wireCalls

busVars == <<wires, handles, powered, got, calling, late>>
wireVars == <<inputVars, busVars, wireCalls>>
hostVars == <<manager, window, told, missed, finger, hostEvents>>

(* WireShim; a byte that was read is noted with the keyboard it is of. *)
Bytes == {"mode", "light"} \cup Lights
Shim ==
  [keyboard : Nat, gt911 : Nat, checked : BOOLEAN, begun : BOOLEAN, clock : Clocks,
   to : {KeyboardAt, TouchAt, Nowhere, None}, tx : Seq(Bytes), status : BOOLEAN,
   rx : Seq([of : Nat, at : Nat]), at : Nat, stuck : BOOLEAN]

ASSUME NoneIsNoShim == None \notin Shim

(* end_transmission, which asks for nothing, or request_from. *)
Calls == [wire : Wires, asks : {KeyboardAt, TouchAt, None}]

ASSUME NoneIsNoCall == None \notin Calls

NewWire(d, checked) ==
  [keyboard |-> d, gt911 |-> d, checked |-> checked, begun |-> FALSE, clock |-> "slow", to |-> None,
   tx |-> << >>, status |-> FALSE, rx |-> << >>, at |-> 0, stuck |-> FALSE]

Open == {w \in Wires : wires[w] # None}

WireInit ==
  /\ InputInit
  /\ wires = [w \in Wires |-> None] /\ handles = {} /\ powered = TRUE
  /\ got = [w \in Wires |-> << >>] /\ calling = None /\ late = FALSE /\ wireCalls = 0

WireCall == wireCalls < MaxWireCalls /\ wireCalls' = wireCalls + 1

(* A call on one wire that leaves the devices alone. *)
OnWire(w, shim) ==
  /\ w \in Open /\ calling = None /\ WireCall
  /\ wires' = [wires EXCEPT ![w] = shim]
  /\ UNCHANGED <<inputVars, handles, powered, got, calling, late>>

(* peripherals_powered: a shim without a check takes the rail for on. *)
Powered(s) == s.checked => powered
BusReady(s) == Powered(s) /\ s.begun /\ ~s.stuck /\ s.clock # "odd"

ClearedRead(s) == [s EXCEPT !.rx = << >>, !.at = 0]
Stopped(s) == ClearedRead([s EXCEPT !.to = None, !.tx = << >>])

-----------------------------------------------------------------------------
(* Handles. *)

(* meshemu_wire_shim_create_for_instance: the devices of the input manager *)
(* there is, or of one made for it.                                        *)
WireCreate(w) ==
  /\ w \notin Open /\ MayCreate /\ WireCall
  /\ manager' = Manager /\ devices' = Devices
  /\ wires' = [wires EXCEPT ![w] = NewWire(Manager.device, TRUE)]
  /\ got' = [got EXCEPT ![w] = << >>]
  /\ UNCHANGED <<window, retained, told, missed, injected, finger, hostEvents,
                 handles, powered, calling, late>>

(* meshemu_wire_shim_create: devices of no instance, and no power check.   *)
WireCreateLegacy(w) ==
  /\ w \notin Open /\ Len(devices) < MaxDevices /\ WireCall
  /\ \E light \in Lights : devices' = Append(devices, LegacyDevice(light))
  /\ wires' = [wires EXCEPT ![w] = NewWire(Len(devices) + 1, FALSE)]
  /\ got' = [got EXCEPT ![w] = << >>]
  /\ UNCHANGED <<hostVars, retained, injected, handles, powered, calling, late>>

(* Its caller promises that no call on the wire is under way. *)
WireDestroy(w) ==
  /\ w \in Open /\ (calling # None => calling.wire # w) /\ WireCall
  /\ wires' = [wires EXCEPT ![w] = None]
  /\ UNCHANGED <<inputVars, handles, powered, got, calling, late>>

(* meshemu_i2c_keyboard_create_for_instance, and meshemu_i2c_keyboard_     *)
(* create: a keyboard beside the manager's; a wire that uses it keeps it   *)
(* when the handle goes.                                                   *)
KeyboardCreate ==
  /\ Len(devices) < MaxDevices /\ WireCall
  /\ \E device \in {NewDevice} \cup {LegacyDevice(light) : light \in Lights} :
       devices' = Append(devices, device)
  /\ handles' = handles \cup {Len(devices) + 1}
  /\ UNCHANGED <<hostVars, retained, injected, wires, powered, got, calling, late>>

KeyboardDestroy(d) ==
  /\ d \in handles /\ WireCall
  /\ handles' = handles \ {d}
  /\ UNCHANGED <<inputVars, wires, powered, got, calling, late>>

KeyboardInject(d) ==
  /\ d \in handles /\ HostEvent
  /\ devices' = [devices EXCEPT ![d] = InjectKeyByte(@, FALSE)]
  /\ injected' = injected + 1
  /\ UNCHANGED <<manager, window, retained, told, missed, finger, busVars, wireCalls>>

(* A keyboard that forgets takes the retained light with it. *)
SetCrossReset(d, persist) ==
  /\ d \in handles /\ WireCall
  /\ devices' = [devices EXCEPT ![d].persist = persist]
  /\ retained' = CASE ~devices[d].owned -> retained
                   [] devices[d].owned /\ persist -> devices[d].backlight
                   [] devices[d].owned /\ ~persist -> None
  /\ UNCHANGED <<hostVars, injected, busVars>>

SetKeyboard(w, d) ==
  /\ w \in Open /\ d \in handles
  /\ OnWire(w, ClearedRead([wires[w] EXCEPT !.keyboard = d]))

-----------------------------------------------------------------------------
(* The bus. *)

Begin(w) == w \in Open /\ OnWire(w, [wires[w] EXCEPT !.begun = TRUE])
SetClock(w, clock) == w \in Open /\ OnWire(w, [wires[w] EXCEPT !.clock = clock])

EmitStop(w) == w \in Open /\ OnWire(w, Stopped(wires[w]))

SetSdaStuck(w, stuck) ==
  /\ w \in Open
  /\ OnWire(w, IF stuck THEN Stopped([wires[w] EXCEPT !.stuck = TRUE])
               ELSE [wires[w] EXCEPT !.stuck = FALSE])

(* Nine clocks free the line if the devices have power. *)
ClockOutRecovery(w) ==
  w \in Open /\ OnWire(w, IF Powered(wires[w]) THEN [wires[w] EXCEPT !.stuck = FALSE] ELSE wires[w])

BeginTransmission(w, address) ==
  w \in Open /\ OnWire(w, [wires[w] EXCEPT !.to = address, !.tx = << >>])

Write(w, byte) ==
  /\ w \in Open /\ wires[w].to # None /\ Powered(wires[w]) /\ ~wires[w].stuck
  /\ Len(wires[w].tx) < TxCapacity
  /\ OnWire(w, [wires[w] EXCEPT !.tx = Append(@, byte)])

(* end_transmission: what ends the transaction before a device has it. *)
FailsUnlessBegun(s) == s.to = None \/ ~s.begun  \* mutant: only begin is looked at
Fails(s) == s.to = None \/ ~Powered(s) \/ s.stuck \/ ~s.begun

EndFails(w) ==
  /\ w \in Open /\ Fails(wires[w]) /\ wires[w].to # None
  /\ OnWire(w, LET s == [wires[w] EXCEPT !.to = None, !.tx = << >>]
               IN  IF ~Powered(s) \/ s.stuck THEN ClearedRead(s) ELSE s)

(* A call that found its bus in order goes on to the device, and returns.  *)
InCall(w, address) == calling = [wire |-> w, asks |-> address]
Returns ==
  /\ calling' = None /\ late' = FALSE
  /\ UNCHANGED <<hostVars, injected, handles, powered, got, wireCalls>>

EndPasses(w) ==
  /\ w \in Open /\ calling = None /\ ~Fails(wires[w]) /\ WireCall
  /\ calling' = [wire |-> w, asks |-> None]
  /\ UNCHANGED <<inputVars, wires, handles, powered, got, late>>

Ended(w) == [wires[w] EXCEPT !.to = None, !.tx = << >>]

EndToKeyboard(w) ==
  /\ InCall(w, None) /\ wires[w].to = KeyboardAt
  /\ LET d == wires[w].keyboard bytes == wires[w].tx IN
     /\ devices' = [devices EXCEPT ![d] = WrittenTo(@, bytes)]
     /\ retained' = RetainedBy(devices[d], bytes)
  /\ wires' = [wires EXCEPT ![w] = Ended(w)]
  /\ Returns

(* Two bytes select a register; more acknowledge a frame, which the        *)
(* contact does not depend on.                                             *)
EndToGt911(w) ==
  /\ InCall(w, None) /\ wires[w].to = TouchAt
  /\ \E status \in BOOLEAN :
       wires' = [wires EXCEPT ![w] =
         [Ended(w) EXCEPT !.status = IF Len(wires[w].tx) < 2 THEN @ ELSE status]]
  /\ Returns /\ UNCHANGED <<devices, retained>>

EndToNobody(w) ==
  /\ InCall(w, None) /\ wires[w].to = Nowhere
  /\ wires' = [wires EXCEPT ![w] = Ended(w)]
  /\ Returns /\ UNCHANGED <<devices, retained>>

(* request_from: what was read before goes in any case, and a count of     *)
(* zero, or one that is too large, is refused.                             *)
CanRequest(s, address) ==
  BusReady(s) /\ (address = KeyboardAt => s.clock = "slow")

RequestFails(w) == w \in Open /\ OnWire(w, ClearedRead(wires[w]))

RequestPasses(w, address) ==
  /\ w \in Open /\ calling = None /\ CanRequest(wires[w], address) /\ WireCall
  /\ wires' = [wires EXCEPT ![w] = ClearedRead(@)]
  /\ calling' = [wire |-> w, asks |-> address]
  /\ UNCHANGED <<inputVars, handles, powered, got, late>>

Received(w, of, at) == wires' = [wires EXCEPT ![w].rx = <<[of |-> of, at |-> at]>>]

RequestKeyLeavesIt(w) ==  \* mutant: the key stays in the keyboard's queue
  /\ InCall(w, KeyboardAt)
  /\ LET d == wires[w].keyboard IN Received(w, d, KeyByte(devices[d]))
  /\ Returns /\ UNCHANGED <<devices, retained>>
RequestKey(w) ==
  /\ InCall(w, KeyboardAt)
  /\ LET d == wires[w].keyboard IN
     /\ Received(w, d, KeyByte(devices[d]))
     /\ devices' = [devices EXCEPT ![d] = AfterKeyByte(@)]
  /\ Returns /\ UNCHANGED retained

RequestContact(w) ==
  /\ InCall(w, TouchAt)
  /\ LET shown == wires[w].status /\ devices[wires[w].gt911].contact IN
     \/ Received(w, 0, IF shown THEN 1 ELSE 0)
     \/ UNCHANGED wires                         \* the read itself may fail
  /\ Returns /\ UNCHANGED <<devices, retained>>

(* read: a key byte is noted, with the keyboard it came from. *)
Available(s) == IF Powered(s) THEN Len(s.rx) - s.at ELSE 0

ReadByte(w) ==
  /\ w \in Open /\ calling = None /\ Available(wires[w]) > 0 /\ WireCall
  /\ LET s == wires[w] byte == s.rx[s.at + 1] IN
     /\ wires' = [wires EXCEPT ![w].at = @ + 1]
     /\ got' = IF byte.of = 0 \/ byte.at = 0 THEN got
               ELSE [got EXCEPT ![w] = Append(@, byte)]
  /\ UNCHANGED <<inputVars, handles, powered, calling, late>>

(* meshemu_board_digital_write, from anywhere, also inside a call. *)
SwitchRail ==
  /\ WireCall
  /\ powered' = ~powered
  /\ late' = (calling # None /\ powered)
  /\ UNCHANGED <<inputVars, wires, handles, got, calling>>

-----------------------------------------------------------------------------
BusNext(w) ==
  \/ WireCreate(w) \/ WireCreateLegacy(w) \/ WireDestroy(w)
  \/ Begin(w) \/ EmitStop(w) \/ ClockOutRecovery(w)
  \/ \E clock \in Clocks : SetClock(w, clock)
  \/ \E stuck \in BOOLEAN : SetSdaStuck(w, stuck)
  \/ \E address \in {KeyboardAt, TouchAt, Nowhere} : BeginTransmission(w, address)
  \/ \E byte \in Bytes : Write(w, byte)
  \/ EndFails(w) \/ EndPasses(w) \/ EndToKeyboard(w) \/ EndToGt911(w) \/ EndToNobody(w)
  \/ RequestFails(w) \/ \E address \in {KeyboardAt, TouchAt} : RequestPasses(w, address)
  \/ RequestKey(w) \/ RequestContact(w) \/ ReadByte(w)
  \/ \E d \in handles : SetKeyboard(w, d)

WireNext ==
  \/ InputNext /\ UNCHANGED <<busVars, wireCalls>>
  \/ KeyboardCreate \/ SwitchRail
  \/ \E d \in handles : KeyboardDestroy(d) \/ KeyboardInject(d)
  \/ \E d \in handles, persist \in BOOLEAN : SetCrossReset(d, persist)
  \/ \E w \in Wires : BusNext(w)

WireSpec == WireInit /\ [][WireNext]_wireVars

-----------------------------------------------------------------------------
(* Properties. *)

(* "each I2C read returns one key byte" (i2c_keyboard.rs:19): whatever     *)
(* wires share a keyboard, are attached elsewhere, stopped or unpowered,   *)
(* no key byte is read twice, and no wire reads a keyboard's out of order. *)
EachKeyOnce ==
  /\ \A w \in Wires : \A i, j \in DOMAIN got[w] :
       i < j /\ got[w][i].of = got[w][j].of => got[w][i].at < got[w][j].at
  /\ \A v, w \in Wires : v # w =>
       {got[v][i].at : i \in DOMAIN got[v]} \cap {got[w][i].at : i \in DOMAIN got[w]} = {}
  /\ \A w \in Open : \A i \in DOMAIN got[w] : \A d \in DOMAIN devices :
       \A k \in DOMAIN devices[d].queue : devices[d].queue[k].at # got[w][i].at

(* A keyboard answers to a wire that reaches it: it gives up a key,        *)
(* changes its mode or its light only for a call on a wire that is         *)
(* attached to it, was begun and is not stuck, however the calls before    *)
(* left them.  Its rail is on, or fell inside that very call; only a wire  *)
(* of no instance, which has no power check, reaches it without power.     *)
DevicesObeyTheBus ==
  [][\A d \in DOMAIN devices :
       LET old == devices[d] new == devices'[d] IN
       Len(new.queue) < Len(old.queue) \/ new.keyMode # old.keyMode \/ new.backlight # old.backlight
       => /\ calling # None
          /\ LET s == wires[calling.wire] IN
             s.keyboard = d /\ s.begun /\ ~s.stuck /\ (powered \/ late \/ ~s.checked)]_wireVars

(* "attached to the same peripherals as an SDL input manager"              *)
(* (ffi.rs:1774): firmware's wire shows what the host's pointer does.      *)
AttachedToTheInputManager ==
  manager # None => \A w \in Open : wires[w].checked => wires[w].gt911 = manager.device
=============================================================================
