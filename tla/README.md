# Project Mycelium in TLA+

A verification development of the Project Mycelium emulator (`src/core`), which
runs LilyGo T-Deck firmware as shared objects against virtual peripherals and
connects the instances by a virtual LoRa network. The modules here model its
components, TLC checks them on small instances, and TLAPS proves the main
safety properties for every instance.

Contents: [the system](#1-the-system), [modules](#2-modules),
[runs](#3-what-is-checked), [fairness](#4-fairness),
[proofs](#5-what-is-proved), [disagreements](#6-disagreements-between-code-and-documents),
[limits](#7-what-is-not-modelled), [plan](#8-plan).
`PROJECT.json` lists components, runs, mutants, hazards and, under `map`, the
source lines each definition stands for.

## 1. The system

One process loads the firmware of every instance. `main.rs` runs a frame: it
lets each instance's loop run (`InstanceManager::tick_all_with_delta`), then
ticks the radio bus with the frame's time. Firmware reaches its peripherals
through C functions (`bridge/src/ffi.rs`, `flash_ffi.rs`), possibly from several
threads of its own; peripherals are process-wide registries of objects keyed by
instance id, most behind one mutex each.

| Component (source under `src/core`) | State | Operations | Talks to | What is hard | What makes it correct |
|---|---|---|---|---|---|
| Radio network (`radio_bus/src/bus.rs`) | nodes with settings and FIFO, list of transmissions, decided or not | register, unregister, broadcast, poll, settings, tick | bridge, under one mutex | late ticks decide several packets at once; history is pruned; half duplex and capture refer to the past | no packet is received that the whole past would garble; verdicts are final; order |
| Radio handles, deep sleep, bus tick (`bridge/src/ffi.rs`, `src/main.rs`) | handles with packets already polled, the bus lock, three clocks | create, destroy, send, read, sleep, frame | radio network, GT911 | two queues per radio; a sleep moves everybody's clock in the middle of a frame | packets once and in order; a sleeper hears nothing; every send ends |
| Buzzer (`board/src/buzzer.rs`) | `playing`, command channel, the worker's tone and deadline, rail | beep, PWM, stop, rail, worker loop | board rail | flag written by callers and worker | the last call decides; timed tones end; sound is reported |
| SPI arbiter (`display/src/shared_spi.rs`) | registry, owner of each bus | transaction, drop, remove | SD card, ST7789 | registry entry replaced while clones are in use | one driver of the pins |
| SD card and SPIFFS (`storage/src`) | mount, personality, files, handle table | mount, open, read, write, remove, end, destroy | SPI arbiter, board rail | several handles and threads on a file; two-part teardown | capacity, handles are exclusive, appends keep data, calls return |
| Non-volatile storage (`board/src/nvs.rs`) | image on disk, image in memory, temporary files, registry | init, put, remove, destroy, save calibration | host file system | crash and host faults between the steps of a write; object outlives its registration | acknowledged values are on disk; refused ones nowhere |
| Flash partitions (`board/src/partition.rs`) | table per instance, thread-local active copy | register, activate, switch mode | NVS size | copy is stale after a switch | geometry is the instance's own |
| Touch controller GT911 (`input/src/gt911.rs`) | contacts, frame flag, failure modes and watchdogs | inject, tick, register reads and writes, failure modes | Wire, frame clock | modes switched in any order; registry and controller updated apart | a lift is always reported; configuration reaches the controller |
| Input queues (`input/src/manager.rs`, keyboard, trackball) | three bounded FIFOs, pressed state | SDL events, inject, poll | display windows, GT911, I2C keyboard | overflow, removal while in use | bounded, in order, newest dropped |
| I2C keyboard and Wire (`i2c_keyboard.rs`, `wire_shim.rs`) | transaction buffers, register pointer, stuck line, key queue | begin, write, end, request, recover | GT911, keyboard, rail | state of a transaction when power, clock or line change | no stale byte is read |
| GPS (`gps/src`) | position, movement, epoch buffer, UART allowance | tick, read, configure | rail, frame clock | an epoch replaces an unread one | whole sentences, allowance kept |
| Board (`board/src/lib.rs`) | rail, battery, watchdog, reset reason, RTC memory | digital write, quiesce, sleep, charge, watchdog | buzzer, SD, Wire | order of the shutdown, what survives a restart | peripherals quiet before the rail drops |
| Instances and loader (`src/instance.rs`, `src/loader.rs`) | instances, life of each firmware, clock | spawn, kill, tick | everything above | failed start, two ABIs, order of teardown | started and destroyed at most once; resources released |
| Display windows and bridges (`display/src`) | windows, framebuffers, panel state | create, draw, capture, destroy | SPI arbiter, input | foreign callbacks, destruction while drawing | a frame is whole |
| Channel occupancy helper (`radio_bus/src/channel.rs`) | list of busy intervals | reserve, query | nothing | nothing: unused | - |

## 2. Modules

| Module | Models | State and actions |
|---|---|---|
| `RadioAir` | pure functions of `types.rs`, `propagation.rs` and the verdict of `bus.rs` | overlap, half duplex, levels, capture, `Receives`, the received packet |
| `RadioBus` | `RadioBus` of `bus.rs` | `nodes`, `unfinished`/`finished` (the two values of the flag in the list), `nowMs`; one action per method. `air` and `received` are history |
| `IdealRadio` | what the network promises | every transmission is remembered and decided once against all of them |
| `RadioBridge` | radio calls of `ffi.rs`, deep sleep, frame of `main.rs` | extends `RadioBus` by handles, `busLock` (who sleeps with the lock), `simNow`, `phase` |
| `Instances` | `instance.rs`, `loader.rs`, `partition.rs`, the mode switch of `flash_ffi.rs` | `inst` (the manager's map), `dropping` (an instance between the map and nothing), `entered` (the call into firmware), `clock` and `due`, the registries `tables`, `stores`, `buzzers`, the counts `displays`; the store calls of `flash_ffi.rs` from any thread; every call into firmware is a step in and a step out. `lost`, `disturbed`, `made`, `unmade`, `since`, `elapsed` are history |
| `Board` | `board/src/lib.rs` with the board calls of `ffi.rs` | `boards[h]` (rail, pins, battery, external memory, watchdog), `power`, `holds`, `retained`, `reason`, `phases` (what outlives a board); one action per call |
| `Gps` | `gps/src` on the rail of `Board` | `gps` (movement, buffer, allowance, switches). `got`, `epochs`, `discarded`, `uptime`, `origin` are history |
| `InputQueues` | `input/src/manager.rs`, `keyboard.rs`, `trackball.rs`, the keyboard controller of `i2c_keyboard.rs`, and the window's part in `display/src` | `manager` (queues, held keys, pointer), `window`, `devices`. `told`, `missed`, `finger` are firmware's view and history |
| `Wire` | `wire_shim.rs` and the keyboard handles of `ffi.rs`, on `InputQueues` | `wires[w]` (transaction buffers, clock, line, power check or none), `handles`, `powered`, `calling` (the call inside the lock that goes on to a device); four calls to a transaction. `late` (the rail fell inside that call) is history |
| `St7789` | `st7789.rs` | the controller as a record; each command is a function that returns it, accepted or refused |
| `Displays` | `lvgl_v8.rs`, `lvgl_v9.rs`, `lib.rs` of `display/src`, on `St7789` and the arbiter | `displays[t]` (the thread-local table), `lvgl` and `busy` (LVGL's side, external), `owner` of the bus, `work[t]` (the transactions a thread has still to make). `due` is history |
| `Buzzer` | `buzzer.rs`, callers step by step and the worker | `owner` (mutex), `todo` (rest of each call), `queue`, `playing`, `toneOn`, `deadline` |
| `SdStorage` | SD calls of `ffi.rs`, `sdcard.rs`, `shared_spi.rs`; the storage manager's life | `todo` is the rest of each call: locks, arbiter, transfer and unlock are steps of their own |
| `Spiffs` | `spiffs.rs`, its object in the storage manager | `spiffs` (mounted, wear), `contents` (sizes on the host); one action per call |
| `Gt911` | `gt911.rs`, and those who call it | `ctl[i]` (a controller as a record; its methods are functions of it), `globalConfig`, `ownConfig`, `pending` (controllers a failure mode has still to be given to). `seen`, `reads`, `failed` are firmware's view and history |
| `DurableMap` | what the non-volatile storage promises | a map, what was acknowledged of it, and the requests; a request is stored at one moment, then reported, or refused; a restart forgets requests only |
| `Nvs` | `nvs.rs`, NVS calls of `flash_ffi.rs`, `save_calibration` | `disk`, `temps`, `memory`, `registry`; one step per file operation; `Crash` and `HostFault` anywhere. `acked` and `stale` are history |
| `RadioProofs`, `DisplaysProofs`, `InstancesProofs`, `DevicesProofs`, `WireProofs`, `SdStorageProofs`, `Gt911Proofs`, `NvsProofs` | - | the theorems of section 5 |

What composes what: `RadioBridge` extends `RadioBus`, `Gps` extends `Board`, `Wire`
extends `InputQueues`, `Displays` extends `St7789`. `Instances` has the objects
that are torn down with an instance as entries of their registries; what each of
them does is in its own module. The rail is a variable of `Board`, and an input
that `Buzzer`, `SdStorage` and `Wire` let change at any time.

`MC...` modules give the instances; `MCDevices`, `MCWire` and
`MCDisplays` hold parts that do not meet in one behaviour (the battery, a GPX
track, the SPIFFS partition), and choose the part in the initial
state. Operators commented `mutant` are plausible
bugs; no specification uses them, and substituting one for the definition it
follows makes the property named in `PROJECT.json` fail.

How data is abstracted. Radio levels are natural numbers (linear power) and
path loss and airtime are constants: the modules need only comparisons and
sums. Events carry a serial number, which stands for their place in the `Vec`.
Two transmissions that agree in sender, start and channel are one to the code
(`same_transmission`), and so in the model. A file is a sequence of blocks; an
NVS image gives each key a value whose weight is its encoded size. Personalities
of the SD card are wake-up delays against the seven attempts of the mount
ladder. The receiver's earth is a line with whole distances, a byte of its output
is its epoch and its place in it. The board's converter keeps the shape of its
calibration curve, on few counts. A colour is one of two, and the panel is three
by two: one of the areas flushed to it has room when axes are exchanged and
mirrored, and two have not, so that transfers succeed and are refused in every
orientation. A partition table keeps addresses and sizes, as multiples of a page.

How atomicity follows the code. A radio call holds the one bus mutex from beginning to end,
so it is one action; deep sleep holds it too, but makes three bus calls under it between
which the frame loop may advance its own clock, so it is three actions and a lock. The
buzzer, SD and NVS modules split calls at every lock, atomic, registry lookup and file
operation. A call of a board, receiver, input manager or SPIFFS partition is made under one
lock and is one action. So is a call of a wire, unless it goes on to a device: the lock of
the wires (ffi.rs:76) covers neither the rail nor the devices, so such a call tests its bus
in one step (wire_shim.rs:160, 200), reaches the device in another (178, 213), and the rail,
the host and keyboard handles may act in between. A flush of a display is a transaction of
the bus for each command, which another device may refuse. Calls into firmware are two
steps, since firmware calls back in between.

## 3. What is checked

| Run | Instance | Shows |
|---|---|---|
| `bus_collisions` | 3 standing nodes, 2 channels, 2 places, 4 sends | with overlaps of three packets: pruning loses nothing, a radio that stands still never receives both of two overlapping packets, in one tick or in two, verdicts are final |
| `bridge_full` | 2 instances, every bridge and bus call, sleeps of 0 and 2 ms | half duplex over the whole past; through two queues, short reads and sleeps firmware gets each packet once and in order; nothing received during a sleep survives it in the bus; the bus under the bridge implements `IdealRadio` |
| `bridge_liveness` | 2 instances, fair frames | every send completes, whatever sleeps and re-creations happen |
| `instances` | 2 names, both ABIs, with and without a display getter; 3 spawns and 2 calls from firmware, or 2 spawns and 2 calls from two threads, or 3 spawns and 2 ms | refused, failed, panicked, killed: nothing outlives its instance but what firmware put there or the host is never told of, contexts are destroyed once, the deltas add up, table and store agree |
| `devices` | 2 handles, 5 calls; or a receiver, 7 calls, 2 rail calls; or a SPIFFS partition of 3 blocks, 2 files, 6 calls | the rail stays dark until driven, the converter is nearest, an expired watchdog stays so; epochs come out as prefixes, movement depends on time alone; free space and wear of the SPIFFS partition account for its files |
| `wire` | queues of 1, 4 host events; or 2 wires on one keyboard, or one of them of no instance, 4 calls, 1 host event, the rail at any time | only full queues lose events, and until then a key is told in turn; the contact follows what the host does on and beside the screen; each key is read once; no device answers a bus that is not in order |
| `displays` | 2 threads, 2 handles, panel of 3x2, 3 areas, 2 creations, 2 flushes; or a controller driven by hand in every orientation; fair | a capture is a whole picture, nothing is half created, every flush is answered, pixels read back where they were written |
| `buzzer_calls` | 2 callers, board owner, worker, 3 calls, fair | the last call has its way; a sounding tone is reported; timed tones end |
| `sd_files` | 2 threads, 2 files, 2 handles, 2 different blocks, room for 2, 4 calls, destroy | capacity, exclusive handles, appends |
| `sd_control` | 2 threads, display, board, 3 calls from power-on, fair | one driver of the pins; every call returns with its locks released |
| `nvs_calls` | 2 threads, 2 keys, 2 sizes, 5 calls, 1 fault, 1 crash, old or new pid | until a store is destroyed under a call, each call takes effect at one moment or not at all and is reported for what it did: the steps are those of `DurableMap`; what was refused is nowhere |
| `touch_frames` | 1 instance, 1 caller, 2 points, rates 3 and 9 of 4, 3 touches, 4 polls acknowledged at once or later, 2 settings, 3 ms | whatever is switched, touched, created and destroyed in between: the contact shown, the exact share of failed reads and the settings are right, and only a late acknowledgement loses a lift |

Why the bounds are enough. Every verdict of the radio depends on one packet, a
receiver and the packets overlapping the first; three nodes and four sends give
a wanted packet, an interferer, the receiver's own packet and one that is
pruned. `MaxTime` allows a late tick that decides two packets which do not
overlap each other and a third that overlaps both. The theorems remove these
bounds. For calls, two threads on two objects give every pair of critical
sections; `MaxCalls` lets each thread use what the other left behind (three to
five calls: open, write, and a destructive call with a repetition). The NVS
runs need one crash because nothing but `disk` and `temps` survives it. For a touch
controller, three touches are a press, a move or a second press, and a release;
two settings switch a mode on and off, or two modes at once; three ticks of
1 ms pass a frame watchdog and a stall scaled to 1 and 3 ms; four reads at a
rate of 3 in 4 wrap the accumulator and come back to its start. The theorems
remove these bounds too.

Three spawns with two names are a running instance, a refused second one of the same name
(or, for legacy firmware, of any), and one that takes the place of an instance that is gone;
two milliseconds in steps of one let an instance join between frames. A behaviour of
`MCInstances` is about the clock, about firmware's calls on the manager's thread, or about
the calls of two threads, each without what the others vary; two calls are a switch of the
mode that meets another or a store set by itself, and with two threads two spawns
(`MaxThreadSpawns`) are one beside them and one after. Five board calls are a hold, a
shutdown, a second board, and two writes on either; the converter's curve has six counts and
every voltage from nothing to above full. A receiver's seven calls reach two epochs with a
partial read and a change of the baud rate between them; deltas of 1, 3 and 9 at an epoch of
4 are below, across and twice across its end, and a track has a point passed in no time and
one at no distance. Queues of one are full after one event, so that a release meets a queue
its press filled. Wires begin with two typed keys, so that two wires can take them
alternately; four calls are a transaction with one of another wire inside it. A wire of no
instance has devices of its own, which the host does not reach, so beside one the instance's
input stands still. Two creations and two flushes give a display removed and its address
used again, and a flush after one that was refused in the middle; of the three areas one is
off the panel, one has room in every orientation and one only with the axes as they are. Six
SPIFFS calls are a mount, two writes, a removal or format, and a new object over old files;
its files fill the partition, and one goes around its end.

Sends, time, calls, crashes, faults, touches, polls,
settings, spawns, events, devices, creations and flushes are the only bounded counters
(`MaxSends`, `MaxTime`, `MaxCalls`, `MaxCrashes`, `MaxFaults`, `MaxTouches`,
`MaxReads`, `MaxSettings`, `MaxSpawns`, `MaxThreadSpawns`, `MaxClock`, `MaxGpsCalls`,
`MaxReceiverBoardCalls`, `MaxHostEvents`, `MaxEventsOnWires`, `MaxDevices`,
`MaxWireCalls`, `MaxBuzzerCalls`, `MaxCreates`, `MaxFlushes`, `MaxSpiffsCalls`), each a guard
of the action that counts. The instances of bus, touch, boards, wires, displays
and manager can only stop at their bounds, so their runs do not look for
deadlock where they say `CHECK_DEADLOCK FALSE`; the SD and NVS instances say when all calls have
returned, and anything else that cannot go on is an error.

Beside the runs, the configurations named `...Disagreements.cfg` reproduce the
counterexamples of section 6. Each lists its claims; with one left in at a time,
TLC refutes that one (`tlc -config SdDisagreements.cfg MCSdStorage.tla`, and
likewise `MCRadioBus`, `MCRadioBridge`, `MCBuzzer`, `MCNvs`, `MCGt911`,
`MCInstances`).

## 4. Fairness

Safety is checked without fairness. `RadioBridge` assumes that frames go on
(`main.rs` runs them from a timer as long as the process lives) and that a deep
sleep, one call without a loop that waits, gets through its three steps; nothing
is assumed of firmware. `Buzzer` and `SdStorage` assume that the operating
system schedules each thread and the worker, and that a deadline comes. Weak
fairness per thread suffices for their mutexes because an instance makes
finitely many calls, so no thread can be overtaken for ever; for an unbounded
stream of calls the code would need a fair mutex, which Rust's is not
guaranteed to be. `Displays` assumes that a thread inside a call of the bridge
runs on until it returns: no such call waits, since a transaction on an owned bus
is refused, not queued. Nothing is assumed of the other device, which may keep
the bus for ever.

## 5. What is proved

Every theorem is for all values of the constants, subject to the assumptions the modules
name. Most of these say that types are types: that bounds and times are natural numbers and
that the value for "nothing" is not also a node, instance, handle, thread or board
(`NoNodeAssumption`, `NoneAssumption`, `NoEntryIsNone`, `NoneIsNoManager`, `NoneIsNoShim`,
`NoneIsNoBoard`, `NoneIsNoSpiffs`, and the parts of `FrameAssumption`, `SdAssumption` and
`DisplayAssumption` about it). The others are given below, as are the hypotheses of theorems
about code that does what it says only under them.

### The radio bus

`RadioProofs`. Airtimes, gains and sensitivities are natural numbers and the
losses are not zero (`LevelsAssumption`).

- `TypeCorrect`: `TypeOK` always holds.
- `PruningIsSafe`: everything that ever overlapped an undecided packet is still
  in the list.
- `VerdictsAreFinal`: no transmission accepted later overlaps one decided.
- `NobodyHearsWhileSending`: no node ever received a packet overlapping one it
  sent, forgotten ones included.
- `CaptureDecides`: if no radio is moved, retuned or removed (`[][StandsStill]_vars`), none
  ever receives both of two packets that overlap, whichever ticks decide them; but for two
  that the bus takes for one transmission (item 4 of section 6).
- `MovingRadiosToo`: without that hypothesis, one tick does not give a radio both.
- `BusImplementsIdealRadio`: the bus implements the network that never forgets.

The argument. `HistorySuffices` is not inductive by itself: a tick drops a
decided packet when no undecided one overlaps it, and a later send could overlap
it if it could start in its past. `IInv` therefore adds that nothing in the air
starts in the future, that what is decided has ended (`PastOnly`), that serial
numbers identify events, and that only decided packets have been received. Then
a new send starts at `nowMs`, at or after the end of all that was decided, and
overlaps none of it (`NewIsLate`), which is also the proof of
`VerdictsAreFinal`. Half duplex adds one step: when a packet is delivered, the
receiver's own packets are either in the list, where the tick tests them, or
dropped, and then by `HistorySuffices` they do not overlap. For the refinement
the mapping drops receive queues and the list; `ReceivesAlike` shows that the
verdict against the list equals the verdict against the whole past.

`CaptureIsExclusive` needs arithmetic besides: of two packets received, each would
have to be stronger than a sum of levels that contains the other. That a sum
contains its summands is shown by the least subset for which it does not; there is no
induction theorem to cite (`SumsExist`, `InterferenceBounds`). The two may be decided in
different ticks, so the invariant says that whatever was received dominates, at the
receiver's place and channel, everything in the air that overlaps it
(`ReceivedDominates`): `HistorySuffices` gives it when the tick decides, `NewIsLate` keeps
it when something is sent afterwards, and a radio that stands still hears the same levels
as then.

### The bridge

`RadioProofs`. Every airtime is positive, since handles exist only for
settings that `RadioChannel::new` accepts (`SendAssumption`, types.rs:33).

- `BridgeTypeCorrect`: handles, queues and the bus lock are what they should be.
- `BridgeKeepsTheBus`: every behaviour of the bridge is one of the bus.
- `FirmwareReadsInOrder`: what firmware reads is what was received, once and in
  order, through two queues and truncated reads (`StreamInOrder`).
- `SleepersHearNothing`: nothing on the bus survives that arrived in a sleep.
- `BridgeImplementsIdealRadio`: the bus under the bridge implements the ideal
  network, and keeps half duplex.

The argument. A deep sleep moves the bus clock itself. `BridgeInv` says that the lock it
holds keeps everybody else from the bus meanwhile, so the time it wakes at is not in
the bus's past, and its three calls are three steps of `RadioBus`. Whatever
is undecided ends later than now, because airtimes are positive, and whatever firmware
has or can read has ended by now: a tick can only append later packets. The list is
in order of start, and a tick does not give one node both of two overlapping packets.

### Touch controllers

`Gt911Proofs`. Rates and times are natural numbers, a whole is positive, and a
stall of 0 means none (`TouchAssumption`).

- `TouchTypes`: `TouchTypeOK` always holds.
- `ShownContact`: the contact shown is the frozen one while there is one, and
  otherwise what the host's pointer does.
- `ExactFailures`: of any number of reads at one rate, exactly that share fails,
  rounded down.
- `LiftsSurviveFailureModes`: no release, movement, failure mode, failed read or
  frame makes a lift unheard; only an acknowledgement later than its read does.
- `NoLiftIsLost`: if firmware acknowledges a frame before anything else happens
  to the controller (`~SplitPolls`), it is told of every lift.
- `SettingsArrive`: if one thread at a time switches failure modes
  (`\A c, d \in Callers : c = d`; two of them may cross, item 15 of section 6), each
  living controller has the registry's settings whenever no call is at work.

The argument. `Kept(i)` is what holds of each controller that lives. Its first
part, `Good`, is about the record alone, so each method has a lemma of its own:
its result `Follows` its argument, that is, it is good, owes the same to the
failure account, and is silent (no contact and no frame that says so) only if
the argument was. `Account` makes the accumulator inductive: what the reads were
charged is what failures paid and what is still owed; a new rate opens a new
account. `Told` says that firmware believes in no contact while the controller
is silent; only a read with its acknowledgement makes a controller silent, and
that read has told firmware. For `LiftsSurviveFailureModes` each step is shown,
with the invariant, to satisfy `Announces`: a controller falls silent only by an
acknowledgement (`QuietStep`). The actions then need no knowledge of the methods
beyond these lemmas. For `SettingsArrive`, `ConfigInv` says that a controller has
what the registry has for it, or the one call at work will give it just that.

### Instances

`InstancesProofs`.

- `InstancesInvariant`, `InstancesTypes`: the inductive invariant and the types in it.
- `ContextsAreBalanced`: every context made is destroyed, once, by whichever of
  the four ways out an instance takes.
- `NothingIsLeftBehind`: what the process keeps under an id is there because the
  instance is, or because firmware that calls on a thread of its own put it there; and the
  displays that stay are just those the host is never told of (item 19 of section 6).
- `DeltasAreComplete`: the frames of an instance add up to the time since its spawn.
- `GeometryIsCoherent`: table and store have one size outside of a mode switch, for any
  number of threads, unless what set the store last did not set its table with it: a switch
  or a spawn that ran into another switch, or firmware's own `meshemu_nvs_init`
  (`disturbed`; item 18 of section 6).
- `ContextfulDropsTouchNoOther`: an instance of contextful firmware takes only its own display
  with it (for legacy firmware, see item 17).

The argument. An id is `Present` from its spawn to the end of its teardown, which passes
through the manager's map, `dropping`, and calls into firmware. Of the manager's work only
one thing is going on at a time (`OneThing`): a call that destroys is about the instance
being dropped, a frame about instances in the map. With that, `Registered` ties each
registry to `Present`, and `Contexts` ties the count of contexts to the map. `DisplaysOwned`
counts: the displays under an id are the one in its context and those `lost`, or, where
legacy firmware has a getter, at most one, which is in the library's global. For the
geometry, `StoresFit` says that a store that is not `disturbed` has the size its table gives
it, or that of the one switch that is about to write the table. Each holds at every step
inside a call, not only between calls.

### SD card and SPIFFS

`SdStorageProofs`. There are finitely many files.

- `SdStorageInvariant`: the types, who has which lock, and what each thread has still to do.
- `OpenHandlesStay`: no open is given a handle another one holds.
- `AppendedDataStays`: a write through an appending handle only adds to its file.
- `OneDriverOfTheBus`: two threads do not drive the pins at once, if nobody
  destroys the storage (`"destroy" \notin Kinds`; item 2 of section 6 is what happens then).
- `CardIsNeverOverfull`: whatever several handles write, the card holds it.
- `SpiffsInvariant`, `PartitionAddsUp`: free space of a mounted partition is what its files
  leave, and every block under a file of this object was counted as worn, for any hash,
  sizes and block size.

The argument. A call is the rest of a fixed program; the proof follows suffixes
of these programs. `Control` says that whoever is between `lock` and
`unlock` is the owner of the handle table, so what `pick` and `find` chose is still so at
`insert` and at the transfer. `BusInv` says that there is one arbiter, that who is
between `acquire` and `release` has it, and that nobody else does. Sums of sizes are
taken apart element by element; that this can be done in any order is shown by a
least counterexample, since induction theorems cannot be cited (`SumTakesAny`,
`SumLaws`). Wear counters only grow, and a change of more bytes wears all the blocks a
change of fewer does (`StretchGrows`), so a file that shrinks stays on worn blocks.

### Non-volatile storage

`NvsProofs`, if the change of a file's permissions, the last step of `persist`,
does not fail after the rename (`"private" \notin Faults`: items 12 and 13).

- `NvsInvariant`: the types, one writer at a time, and, unless a stale object has
  written, memory and disk differ only by the change of the call that is in between.
- `RefusedLeavesNoTrace`: with no call at work, the registered store is the image on disk.
- `AcknowledgedIsDurable`: with no call at work, each key has on disk the value that was
  acknowledged last, through crashes at any point, if nobody saves a calibration
  (`"save" \notin Kinds`: it reports success for values that were refused).

The argument. Between the rename and the answer the disk is ahead of what was
acknowledged, and a crash there makes the new image the acknowledged one; before the
rename it is the temporary file that differs, and a restart discards it. `Agreeing` says
so for each place in the call.

- `EveryCallIsAtomic`: a step of the storage is a step of `DurableMap` or changes nothing of
  it, unless a stale object is at work.
- `NvsImplementsDurableMap`: if none ever is (`[]~stale`), the storage implements `DurableMap`.

A key's stored value is the one on disk, and a request is stored when the change is on disk
and not yet answered. The rename is the one step that stores; `Agreeing` gives that it
changes the one key asked for, and nothing when it only makes the namespace, and the mutex
that no other request is stored meanwhile. Both theorems are without the
permissions' fault and calibration saves, as above.

### Input and wires

`WireProofs`.

- `WireInvariant`: the invariant of queues, devices and wires together.
- `QueuesTellTheTruth`: firmware that has read its queues is wrong about what is
  held only if a full queue dropped something; until then a key is told pressed and released
  in turn, never twice the same.
- `ContactsFollowThePointer`: the controller has a contact exactly if the last the host did to
  the pointer was to put it down on the screen, with events of SDL and of the bridge in any
  mixture, releases beside the screen and on a manager that knows no position yet among
  them, and whatever the queue dropped (`finger` is the host's side of it).
- `KeysAreReadOnce`: no key is read twice or out of order, on whichever wires.
- `DevicesAnswerTheirBus`: a keyboard gives up a key, or changes its mode or light, only for a
  call on a wire that is attached to it, begun and not stuck; its rail is on, or fell inside that
  very call, unless the wire is one of no instance, which has no power check
  (ffi.rs:1770).

The argument. What firmware was told, followed by what is queued, ends in the present state
of keys and trackball, unless something was missed; a key that changes differs from what
was queued of it last, so its events alternate. For the wires, what was read, what
is fetched into a receive buffer and what is still in the controller's queue are
disjoint and in the order typed; a request moves the head of the queue, and a
buffer that is given up loses a key but does not put it back. `CallInv` carries what a call
tested to the step that reaches the device: nobody else changes a wire inside the lock,
and of the rail it remembers that it was on or has fallen since.

### Boards, receiver and buzzer

`DevicesProofs`.

- `BoardInvariant`, `GpsInvariant`: the inductive invariants.
- `ExpiredWatchdogsStay`: a watchdog that expired is expired, and has left its reason, until a restart.
- `ShutdownStaysDark`: after a shutdown the rail is dark until firmware drives the pin high.
- `ReadsArePrefixes`: what is read from the receiver is a prefix of an epoch, then
  of a later one, and no more in a second than the UART carries.
- `ReceiverKeepsBoards`: the receiver leaves the board alone, so what is proved of
  boards holds beside it.
- `AdcReadsTheNearest`: the bisection finds the raw count with the voltage nearest to the
  battery's, for any calibration curve that starts at 0 and rises (`BoardAssumption`,
  as the code's does, lib.rs:54).
- `MovementIsByTime`: a simulated receiver is where the time that ticked with power puts
  it, for any tracks, legs, points and speeds (forwards or back, once or twice as fast), and
  however the ticks cut that time.
- `BuzzerInvariant`: the buzzer's types and the invariant below, with or without a worker.
- `SoundsAreReported`: a tone that sounds when everything has come to rest is reported.
- `LastCallHasItsWay`: a stop that was the last call is followed by silence.

The argument. A rail latched dark is dark and held; a watchdog that is fed has a gap below
its timeout; what is buffered is the rest of the latest epoch and continues what was read of
it. That a bisection ends between two neighbours around the value it looks for is shown by
the least interval for which it does not (`Bisects`); of two neighbours on a rising curve
one is nearest of all. The loops that advance a receiver are functions because their
argument comes down (`RecursionEnds`: the time left and the points left); a walk is on the
leg to its next point with the whole way so far behind it, and a leg or an interval at a
time adds what it takes to that way (`WalksAreOnTheWay`, `ReplaysAreThere`), so ticks add
up. `GpsAssumption` says for it that places are integers, tracks sequences of points, and
how long a leg or interval takes at least. For the buzzer, `ToneInv` says that while the
calls want silence the queue ends with a stop, or is empty and the worker is silent; and
that a tone whose queue is worked off is reported, since the worker stores the flag with
each tone and lowers it only in silence. `CallsInv` says who may be between lock and unlock,
and that whoever has queued its stop there is alone.

### Displays

`DisplaysProofs`, for a panel of any size. Areas have as many pixels as they have
places (`FlushAssumption`: LVGL packs them tightly, lvgl_v9.rs:141).

- `DisplayInvariant`: the invariant of displays, flushes and creations, and of a
  controller driven by hand.
- `NoDisplayIsHalfCreated`: LVGL renders to exactly the displays some thread keeps the
  state of, whatever the bus refused, and no two threads keep one.
- `CapturesAreWhole`: a capture shows every area that went through all its transactions,
  and nothing of one that did not.
- `CompletionsAreCounted`: LVGL is never told more often than it asked.
- `TransfersReadBack`: what the controller took is where it was sent, in every orientation.

The argument. `Holds(t)` is what a thread keeps and what it is creating; these sets are
disjoint, and each is all that `ThreadInv(t)` looks at, so a step of another
thread cannot disturb it (`StepKeeps`). A flush is the rest of a program of four
transactions; `Sending` says for each rest what the controller has been told, and that
its memory is the old picture up to the last transaction and the new one after it. In a
window, the number of a pixel and its place determine each other (`AddressedOnce`,
`AddressedAll`), and an orientation sends no two places to one (`MappedOnce`): the two
together are `TransferArrives` and `WhatIsWritten`.

### What is not proved

Every safety property of the runs is a theorem. Only model-checked is what must
eventually happen, which the prover cannot show: `FlushIsAnswered`, `TimedTonesEnd`, the calls
that return (`EveryCallReturns`) and the sends that complete (`SendsComplete`).

## 6. Disagreements between code and documents

The configurations named reproduce 1 to 19. The others follow from
definitions of the modules, which have the behaviour.

1. `is_playing` (buzzer.rs:233, "whether a tone is active") stays true in
   silence when a stop stores its flag before the worker receives the beep
   (`BuzzerDisagreements`, `ReportIsExact`).
2. "The display and SD paths therefore cannot silently drive the same instance
   SPI pins at the same time" (ffi.rs:235): destroying the storage removes an
   arbiter the display still uses, and the next card gets another (`SdDisagreements`, `OneDriver`).
3. "Values are persisted after every successful mutation" (nvs.rs:52): a put that
   holds the object of a destroyed store overwrites what its successor stored
   (`NvsDisagreements`, `EveryAckIsOnDisk`).
4. plan.md:171, two overlapping packets are not both received: two packets of
   one sender, start and channel count as one, which a radio that is removed,
   registered again and keyed in the same millisecond produces
   (`RadioBusDisagreements`).
5. instance.rs:82, one clock: a deep sleep moves the bus ahead of the touch
   controllers (`RadioBridgeDisagreements`, `OneClock`).
6. bus.rs:146, deep sleep clears the receive FIFO: packets already polled into
   the handle survive (`RadioBridgeDisagreements`, `SleepClearsReceiveQueue`).
7. lib.rs:870, the rail gates the buzzer: a beep that has tested the rail sounds
   after it goes down (`BuzzerDisagreements`, `RailGatesBuzzer`).
8. buzzer.rs:28, tones keep their life cycle without audio: without a worker a
   timed tone never ends (`BuzzerDisagreements` with `HasWorker = FALSE`, `TimedTonesEnd`).
9. ffi.rs:771, end unmounts: not when the arbiter refuses (`SdDisagreements`, `EndUnmounts`).
10. ffi.rs:442, a process-wide personality: a card may be mounted with the old
    one after a change (`SdDisagreements`, `PersonalityIsProcessWide`).
11. ffi.rs:859, destroy removes all storage state: a file opened between its two
    halves stays open (`SdDisagreements`, `DestroyLeavesNoHandle`).
12. AUDIT_FULL.md:338, a refused mutation is rolled back: not on disk when only
    the last step of `persist` fails (`NvsDisagreements`, `RefusedIsRolledBack`).
13. ffi.rs:2210, the calibration is saved so that it can be restored: success is
    reported also when the value was refused (`NvsDisagreements`, `SavedIsOnDisk`).
14. gt911.rs:257, "a zero-contact frame is the real GT911 lift notification":
    a release that falls between firmware's read of a frame and its
    acknowledgement shares the flag of that frame and is acknowledged with it;
    a controller without a contact makes no further frame (`TouchDisagreements`, `LiftIsAnnounced`).
15. gt911.rs:489 and 516, a failure mode is for "live and future controllers":
    two callers that store a mode in one order and apply it in the other leave
    the controller with a setting the registry does not have (`TouchDisagreements`, `SettingsReachControllers`).
16. partition.rs:231, "The core calls this immediately before entering each
    firmware instance": the hook that destroys an instance is entered from
    `teardown` (instance.rs:141) without it, and finds whatever table was active
    (`InstancesDisagreements`, `EntryActivates`).
17. plan.md:105, "Each node's state is isolated": legacy firmware keeps its
    display in a global of the library; a second spawn of it that is refused
    (instance.rs:311) is torn down and destroys the display of the one that runs
    (`InstancesDisagreements`, `DropTouchesNoOther`).
18. instance.rs:489, coherent partition and NVS geometry: the launcher mode
    switches store and table in two critical sections (flash_ffi.rs:316), and two
    overlapping calls leave one with the size of the other
    (`InstancesDisagreements`, `LastSwitchFits`); and `meshemu_nvs_init`
    (flash_ffi.rs:74) sets a store of any size without a look at the table
    (`EveryStoreFits`).
19. instance.rs:127, a kill "centralizes teardown ordering": a display that a
    contextful `firmware_create` made before it failed has no context that leads to it
    (loader.rs:168), and one of a library without a getter is never found
    (loader.rs:103); both stay, with their registration at LVGL
    (`InstancesDisagreements`, `EveryDisplayGoesToo`).
20. ffi.rs:1774, a Wire shim is attached to the same peripherals as the input
    manager: after the window closed, wires keep the devices of the manager that
    went, and the next one makes others; what was held at the close is never
    released (`DestroyWindow`).
21. manager.rs:21, producers must not grow memory without bound: the key queue of
    the I2C keyboard has no bound (`InputQueues`, field `queue` of a device).
22. lvgl_v9.rs:5, capture is the logical framebuffer: with the panel controller
    it is the controller's memory, which the set-up mirrors on both axes
    (`Mirror` in `CaptureIsWhole`). A flush on a thread that did not create the
    display is not answered (`FlushIsAnswered` is about a display's own thread),
    and firmware whose LVGL 8 exports no removal keeps the freed driver
    registered (lvgl_v8.rs:500, not modelled).
23. st7789.rs:176: with exchanged and mirrored axes on a panel that is not square
    a window the controller accepts has places outside of it, and the code
    subtracts below zero in the middle of a transfer; the T-Deck's own
    orientation has none (`St7789`, the orientations the hand-driven controller takes).
24. ffi.rs:1636: a boot checkpoint set before any call has named an instance is
    kept for the instance `__legacy__` (`Board`, `current`).
25. A Wire shim's receive buffer survives a power-off of the rail; the watchdog is
    looked at only when it is fed or asked; a receiver switched off and on between
    two ticks and reads never notices. `Wire`, `Board` and `Gps` have these as they
    are; no document says otherwise.
26. The rail is a variable per instance and a field per board: a beep through one
    handle sounds while another has the rail low; creating a board under a LOW
    hold lowers the rail without stopping a tone; a write of HIGH to GPIO10 on a
    new board ends the darkness a hold was meant to keep (`DarkUntilDriven` states
    what is kept).

## 7. What is not modelled

Signal-to-noise reports, the formulas for path loss and airtime (floating point;
only comparisons matter here), the getters of the bridge, the audio device,
directories of the card, reads of the NVS and choice among its namespaces, JSON
that does not parse, symbolic links, and faults of the host file system under
card and SPIFFS. SDL (windows, textures, scaling), the search for LVGL's symbols
and `dlopen` are foreign code: `Displays` and `Instances` have what they call
back. `channel.rs` is used by nothing, and `bridge/src/lib.rs` is tests and
re-exports. Of the GT911, the contact slots only tests use, resolution, contact
size and the mapping of coordinates are left out; a read of status and contact
is one step, its acknowledgement another. Of the keyboard, the table of key
codes; of the receiver, the text of its sentences, speed, course and the time
tests pin; of the board, the temperature and what wakes it from light sleep; of
partitions, their contents. `PROJECT.json` says the same per component.

## 8. Plan

Modelled: every component but the two just named; proved: every safety property the
runs check. What is left is liveness, for which the runs stay the only evidence, and
the lines of `ffi.rs` that only convert arguments, which the models abstract.
