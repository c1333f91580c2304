----------------------------- MODULE SdStorage -----------------------------
(***************************************************************************)
(* The SD card of one virtual board: the C calls meshemu_sdcard_* and      *)
(* meshemu_storage_destroy (core/bridge/src/ffi.rs), the card              *)
(* (core/storage/src/sdcard.rs) and the arbiter that shares the SPI pins   *)
(* with the display (core/display/src/shared_spi.rs).                      *)
(*                                                                         *)
(* The calls may come from several host threads.  Each takes up to three   *)
(* locks, the table of file handles, the arbiter and the storage           *)
(* registry, and tests the power rail before any of them.  A step is what  *)
(* happens under one lock, or one access to something no lock covers; what *)
(* a thread has left of its call is the sequence todo[thread].  The        *)
(* arbiter is no mutex: a transaction on an owned bus is refused.          *)
(*                                                                         *)
(* A file is the sequence of its blocks.  Directories and faults of the    *)
(* host's file system are left out, SPIFFS is module Spiffs, and "peek"    *)
(* stands for the calls that only read the card, which are all alike.      *)
(***************************************************************************)
EXTENDS Naturals, Sequences, FiniteSets, FiniteSetsExt

CONSTANTS
  Firmware,       \* threads that make the SD calls
  Display,        \* the thread that draws
  Board,          \* the thread that owns the board handle
  Paths, Blocks,  \* file names, and the data of one write
  MaxHandle,      \* 255 in the code
  Capacity,       \* blocks the card holds
  Delays,         \* wake-up delays a card may be given, in ms
  MaxCalls,       \* bound: calls in one behaviour
  Kinds,          \* the calls that are made
  None            \* no value

Threads == Firmware \cup {Display, Board}
HandleIds == 1..MaxHandle
Buses == 1..MaxCalls      \* a call makes at most one

ASSUME SdAssumption ==
  /\ Display \notin Firmware /\ Board \notin Firmware /\ Display # Board
  /\ None \notin Threads
  /\ {MaxHandle, Capacity, MaxCalls} \cup Delays \subseteq Nat
  /\ 0 \in Delays /\ IsFiniteSet(Paths)

VARIABLES
  power,          \* PERIPHERAL_POWER of the instance
  registry,       \* INSTANCE_SPI_BUSES: its arbiter, 0 if it has none
  buses,          \* arbiters created so far
  spiOwner,       \* SharedSpiBus.owner of each arbiter
  screenBus,      \* the arbiter the display controller was created with
  card,           \* the card of the instance, None without a StorageManager
  behavior,       \* SDCARD_REQUIRES_SLOW_INIT and SDCARD_WAKE_DELAY_MS
  files,          \* files[path]: the blocks on the card, None if there is none
  handles,        \* SD_FILE_HANDLES
  handlesOwner,   \* the thread that holds their mutex
  todo, args,     \* what a thread has left of its call, and the call's values
  calls           \* calls made so far

cardVars == <<card, files>>
spiVars == <<registry, buses, spiOwner, screenBus>>
handleVars == <<handles, handlesOwner>>
sdVars == <<power, spiVars, cardVars, behavior, handleVars, todo, args, calls>>

Behavior == [slow : BOOLEAN, delay : Delays]
FreshCard == [mounted |-> FALSE, slow |-> FALSE, delay |-> 0]
Handle == [path : Paths, position : Nat, writable : BOOLEAN, append : BOOLEAN]

ASSUME NoneIsNoHandle == None \notin Handle

SdInit ==
  /\ power = TRUE
  /\ registry = 0 /\ buses = 0
  /\ spiOwner = [b \in Buses |-> None]
  /\ screenBus = 0
  /\ card = None
  /\ behavior = [slow |-> FALSE, delay |-> 0]
  /\ files = [p \in Paths |-> None]
  /\ handles = [h \in HandleIds |-> None]
  /\ handlesOwner = None
  /\ todo = [t \in Threads |-> << >>]
  /\ args = [t \in Threads |-> None]
  /\ calls = 0

-----------------------------------------------------------------------------
(* The card. *)

(* SD_INIT_LADDER: the clock of each attempt, and the time the card has    *)
(* had to wake up by then.                                                 *)
Ladder == << [clock |-> 4000, elapsed |-> 40],   [clock |-> 4000, elapsed |-> 160],
             [clock |-> 4000, elapsed |-> 360],  [clock |-> 1000, elapsed |-> 660],
             [clock |-> 1000, elapsed |-> 1110], [clock |-> 400, elapsed |-> 1760],
             [clock |-> 400, elapsed |-> 2660] >>

Mounts(b) ==
  \E i \in DOMAIN Ladder :
    ~b.slow \/ (Ladder[i].clock <= 400 /\ Ladder[i].elapsed >= b.delay)

(* set_behavior: a card that changes its personality loses its mount. *)
SetBehavior(c, b) ==
  [mounted |-> c.mounted /\ b.slow = c.slow /\ b.delay = c.delay,
   slow |-> b.slow, delay |-> b.delay]

Mounted == card # None /\ card.mounted

Size(p) == IF files[p] = None THEN 0 ELSE Len(files[p])
Used(ps) == MapThenSumSet(Size, ps)

(* write_file: what it leaves of the file system, or refuses. *)
FitsAlone(p, blocks) == Len(blocks) <= Capacity  \* mutant: other files not counted
Fits(p, blocks) == Used(Paths \ {p}) + Len(blocks) <= Capacity

-----------------------------------------------------------------------------
(* Calls, as the steps they are made of. *)

Program(kind) ==
  CASE kind = "init"    -> <<"power", "loadSlow", "loadDelay", "bus", "acquire", "transfer", "release">>
    [] kind = "behave"  -> <<"storeSlow", "storeDelay", "apply">>
    [] kind = "open"    -> <<"power", "lock", "pick", "bus", "acquire", "transfer", "release",
                             "insert", "unlock">>
    [] kind \in {"write", "read"} ->
         <<"lock", "find", "bus", "acquire", "transfer", "release", "unlock">>
    [] kind = "close"   -> <<"close">>
    [] kind \in {"put", "remove", "peek"} -> <<"power", "bus", "acquire", "transfer", "release">>
    [] kind = "end"     -> <<"closeAll", "bus", "acquire", "transfer", "release">>
    [] kind = "destroy" -> <<"closeAll", "dropCard", "dropBus">>
    [] kind = "spiffs"  -> <<"create">>
    [] kind = "attach"  -> <<"attach">>
    [] kind = "flush"   -> <<"acquire", "draw", "release">>
    [] kind = "quiesce" -> <<"unmount", "railDown">>
    [] kind = "powerOn" -> <<"railUp">>

Call(t, a) ==
  /\ todo[t] = << >>
  /\ calls < MaxCalls
  /\ a.kind \in Kinds
  /\ calls' = calls + 1
  /\ todo' = [todo EXCEPT ![t] = Program(a.kind)]
  /\ args' = [args EXCEPT ![t] = a]
  /\ UNCHANGED <<power, spiVars, cardVars, behavior, handleVars>>

(* The calls, with the values they may be given.  A bus of 0 is not yet    *)
(* looked up.                                                              *)
FirmwareCalls ==
  [kind : {"peek", "end"}, bus : {0}] \cup [kind : {"destroy", "spiffs"}]
  \cup [kind : {"init"}, bus : {0}, slow : {FALSE}, delay : {0}]
  \cup [kind : {"behave"}, slow : BOOLEAN, delay : Delays]
  \cup [kind : {"open"}, bus : {0}, path : Paths, mode : 0..2, handle : {0}, position : {0}]
  \cup [kind : {"write"}, bus : {0}, handle : HandleIds, block : Blocks]
  \cup [kind : {"read"}, bus : {0}, handle : HandleIds]
  \cup [kind : {"close"}, handle : HandleIds]
  \cup [kind : {"put"}, bus : {0}, path : Paths, block : Blocks]
  \cup [kind : {"remove"}, bus : {0}, path : Paths]
DisplayCalls == {[kind |-> "attach"]}
                \cup {[kind |-> "flush", bus |-> b] : b \in {screenBus} \ {0}}
BoardCalls == [kind : {"quiesce", "powerOn"}]

-----------------------------------------------------------------------------
(* Steps. *)

NextStep(t) == Head(todo[t])
At(t, step) == todo[t] # << >> /\ NextStep(t) = step
Go(t) == todo' = [todo EXCEPT ![t] = Tail(@)]

(* Return early, dropping the guard of the table if the call holds it. *)
AbortKeepsLock(t) == todo' = [todo EXCEPT ![t] = << >>]  \* mutant: the guard is leaked
Abort(t) ==
  todo' = [todo EXCEPT ![t] = IF handlesOwner = t THEN <<"unlock">> ELSE << >>]

CheckPower(t) ==
  /\ At(t, "power")
  /\ IF power THEN Go(t) ELSE Abort(t)
  /\ UNCHANGED <<power, spiVars, cardVars, behavior, handleVars, args, calls>>

(* The process-wide personality is two atomics: init loads one after the   *)
(* other, set_behavior stores one after the other and then reaches for the *)
(* cards.                                                                  *)
LoadBehavior(t) ==
  /\ At(t, "loadSlow") \/ At(t, "loadDelay")
  /\ args' = [args EXCEPT ![t] = IF At(t, "loadSlow")
                                 THEN [@ EXCEPT !.slow = behavior.slow]
                                 ELSE [@ EXCEPT !.delay = behavior.delay]]
  /\ Go(t)
  /\ UNCHANGED <<power, spiVars, cardVars, behavior, handleVars, calls>>

StoreBehavior(t) ==
  /\ At(t, "storeSlow") \/ At(t, "storeDelay")
  /\ behavior' = IF At(t, "storeSlow")
                 THEN [behavior EXCEPT !.slow = args[t].slow]
                 ELSE [behavior EXCEPT !.delay = args[t].delay]
  /\ Go(t)
  /\ UNCHANGED <<power, spiVars, cardVars, handleVars, args, calls>>

ApplyBehavior(t) ==
  /\ At(t, "apply")
  /\ card' = IF card = None THEN None ELSE SetBehavior(card, args[t])
  /\ Go(t)
  /\ UNCHANGED <<power, spiVars, files, behavior, handleVars, args, calls>>

(* The table of file handles. *)
LockHandlesAnyway(t) ==  \* mutant: the mutex does not exclude
  /\ At(t, "lock")
  /\ handlesOwner' = t
  /\ Go(t)
  /\ UNCHANGED <<power, spiVars, cardVars, behavior, handles, args, calls>>
LockHandles(t) ==
  /\ At(t, "lock")
  /\ handlesOwner = None
  /\ handlesOwner' = t
  /\ Go(t)
  /\ UNCHANGED <<power, spiVars, cardVars, behavior, handles, args, calls>>

UnlockHandles(t) ==
  /\ At(t, "unlock")
  /\ handlesOwner' = None
  /\ Go(t)
  /\ UNCHANGED <<power, spiVars, cardVars, behavior, handles, args, calls>>

(* open takes the first free handle; with none left it returns 0. *)
PickHandle(t) ==
  /\ At(t, "pick")
  /\ LET free == {h \in HandleIds : handles[h] = None} IN
     IF free = {} THEN Abort(t) /\ UNCHANGED args
     ELSE /\ args' = [args EXCEPT ![t].handle = Min(free)]
          /\ Go(t)
  /\ UNCHANGED <<power, spiVars, cardVars, behavior, handleVars, calls>>

(* write_file wants a writable handle, read_file one that is not, and both *)
(* the rail.                                                               *)
FindHandle(t) ==
  /\ At(t, "find")
  /\ LET file == handles[args[t].handle] IN
     IF file # None /\ power /\ (file.writable <=> args[t].kind = "write")
     THEN Go(t) ELSE Abort(t)
  /\ UNCHANGED <<power, spiVars, cardVars, behavior, handleVars, args, calls>>

InsertHandle(t) ==
  /\ At(t, "insert")
  /\ handles' = [handles EXCEPT ![args[t].handle] =
       [path |-> args[t].path, position |-> args[t].position,
        writable |-> args[t].mode # 0, append |-> args[t].mode = 2]]
  /\ Go(t)
  /\ UNCHANGED <<power, spiVars, cardVars, behavior, handlesOwner, args, calls>>

CloseHandle(t) ==
  /\ At(t, "close") /\ handlesOwner = None
  /\ handles' = [handles EXCEPT ![args[t].handle] = None]
  /\ Go(t)
  /\ UNCHANGED <<power, spiVars, cardVars, behavior, handlesOwner, args, calls>>

CloseAll(t) ==
  /\ At(t, "closeAll") /\ handlesOwner = None
  /\ handles' = [h \in HandleIds |-> None]
  /\ Go(t)
  /\ UNCHANGED <<power, spiVars, cardVars, behavior, handlesOwner, args, calls>>

(* spi_bus_for_instance finds the arbiter or makes one. *)
FindBus(t) ==
  /\ At(t, "bus") \/ At(t, "attach")
  /\ LET found == IF registry # 0 THEN registry ELSE buses + 1 IN
     /\ registry' = found
     /\ buses' = IF registry # 0 THEN buses ELSE buses + 1
     /\ IF At(t, "attach")
        THEN screenBus' = found /\ UNCHANGED args
        ELSE args' = [args EXCEPT ![t].bus = found] /\ UNCHANGED screenBus
  /\ Go(t)
  /\ UNCHANGED <<power, spiOwner, cardVars, behavior, handleVars, calls>>

(* transaction: take the bus, or be refused. *)
AcquireAnyway(t) ==  \* mutant: an owned bus is taken over
  /\ At(t, "acquire")
  /\ spiOwner' = [spiOwner EXCEPT ![args[t].bus] = t]
  /\ Go(t)
  /\ UNCHANGED <<power, registry, buses, screenBus, cardVars, behavior, handleVars, args, calls>>
Acquire(t) ==
  /\ At(t, "acquire")
  /\ IF spiOwner[args[t].bus] = None
     THEN spiOwner' = [spiOwner EXCEPT ![args[t].bus] = t] /\ Go(t)
     ELSE Abort(t) /\ UNCHANGED spiOwner
  /\ UNCHANGED <<power, registry, buses, screenBus, cardVars, behavior, handleVars, args, calls>>

Release(t) ==
  /\ At(t, "release")
  /\ spiOwner' = [spiOwner EXCEPT ![args[t].bus] = None]
  /\ Go(t)
  /\ UNCHANGED <<power, registry, buses, screenBus, cardVars, behavior, handleVars, args, calls>>

-----------------------------------------------------------------------------
(* What a transaction does with the card. *)

Transfer(t, kind) == At(t, "transfer") /\ args[t].kind = kind

MountCard(t) ==
  /\ Transfer(t, "init")
  /\ LET c == SetBehavior(IF card = None THEN FreshCard ELSE card, args[t]) IN
     card' = [c EXCEPT !.mounted = Mounts(args[t])]
  /\ Go(t)
  /\ UNCHANGED <<power, spiVars, files, behavior, handleVars, args, calls>>

(* spiffs_init makes the manager of both file systems. *)
CreateCard(t) ==
  /\ At(t, "create")
  /\ card' = IF card = None THEN FreshCard ELSE card
  /\ Go(t)
  /\ UNCHANGED <<power, spiVars, files, behavior, handleVars, args, calls>>

UnmountCard(t) ==
  /\ Transfer(t, "end") \/ At(t, "unmount")
  /\ card' = IF card = None THEN None ELSE [card EXCEPT !.mounted = FALSE]
  /\ Go(t)
  /\ UNCHANGED <<power, spiVars, files, behavior, handleVars, args, calls>>

(* open: read wants the file, write truncates or creates it, append        *)
(* creates it if it is missing.  A failed open releases the bus and leaves *)
(* no handle.                                                              *)
OpenFile(t) ==
  /\ Transfer(t, "open")
  /\ LET p == args[t].path
         exists == files[p] # None
         truncates == args[t].mode = 1 \/ (args[t].mode = 2 /\ ~exists)
         position == IF args[t].mode = 2 /\ exists THEN Len(files[p]) ELSE 0
     IN IF Mounted /\ (exists \/ args[t].mode # 0) /\ (truncates => Fits(p, << >>))
        THEN /\ files' = IF truncates THEN [files EXCEPT ![p] = << >>] ELSE files
             /\ args' = [args EXCEPT ![t].position = position]
             /\ Go(t)
        ELSE /\ todo' = [todo EXCEPT ![t] = <<"release", "unlock">>]
             /\ UNCHANGED <<files, args>>
  /\ UNCHANGED <<power, spiVars, card, behavior, handleVars, calls>>

Overwritten(contents, position, block) ==
  [i \in 1..(IF position < Len(contents) THEN Len(contents) ELSE Len(contents) + 1) |->
     IF i = position + 1 THEN block ELSE contents[i]]

(* write_file on a handle reads the file, replaces one block, and writes   *)
(* it back, all under the storage lock.  A handle that appends is at the   *)
(* end of the file by then, also when the write is refused.                *)
WriteAt(t, position) ==
  LET h == args[t].handle
      p == handles[h].path
      contents == Overwritten(files[p], position, args[t].block)
  IN IF Mounted /\ files[p] # None /\ position <= Size(p) /\ Fits(p, contents)
     THEN /\ files' = [files EXCEPT ![p] = contents]
          /\ handles' = [handles EXCEPT ![h].position = position + 1]
     ELSE /\ handles' = IF Mounted /\ files[p] # None
                        THEN [handles EXCEPT ![h].position = position] ELSE handles
          /\ UNCHANGED files

WriteHandleAtPosition(t) ==  \* mutant: an append handle keeps its own position
  /\ Transfer(t, "write")
  /\ WriteAt(t, handles[args[t].handle].position)
  /\ Go(t)
  /\ UNCHANGED <<power, spiVars, card, behavior, handlesOwner, args, calls>>
WriteHandle(t) ==
  /\ Transfer(t, "write")
  /\ LET file == handles[args[t].handle] IN
     WriteAt(t, IF file.append THEN Size(file.path) ELSE file.position)
  /\ Go(t)
  /\ UNCHANGED <<power, spiVars, card, behavior, handlesOwner, args, calls>>

ReadHandle(t) ==
  /\ Transfer(t, "read")
  /\ LET h == args[t].handle
         file == handles[h]
     IN handles' = IF Mounted /\ file.position < Size(file.path)
                   THEN [handles EXCEPT ![h].position = @ + 1] ELSE handles
  /\ Go(t)
  /\ UNCHANGED <<power, spiVars, cardVars, behavior, handlesOwner, args, calls>>

(* meshemu_sdcard_write and meshemu_sdcard_remove. *)
PutFile(t) ==
  /\ Transfer(t, "put")
  /\ files' = IF Mounted /\ Fits(args[t].path, <<args[t].block>>)
              THEN [files EXCEPT ![args[t].path] = <<args[t].block>>] ELSE files
  /\ Go(t)
  /\ UNCHANGED <<power, spiVars, card, behavior, handleVars, args, calls>>

RemoveFile(t) ==
  /\ Transfer(t, "remove")
  /\ files' = IF Mounted THEN [files EXCEPT ![args[t].path] = None] ELSE files
  /\ Go(t)
  /\ UNCHANGED <<power, spiVars, card, behavior, handleVars, args, calls>>

(* A call that only reads the card, or a screen transfer. *)
Peek(t) ==
  /\ Transfer(t, "peek") \/ At(t, "draw")
  /\ Go(t)
  /\ UNCHANGED <<power, spiVars, cardVars, behavior, handleVars, args, calls>>

(* storage_destroy: without a manager it returns before the arbiter goes.  *)
DropCard(t) ==
  /\ At(t, "dropCard")
  /\ card' = None
  /\ IF card = None THEN Abort(t) ELSE Go(t)
  /\ UNCHANGED <<power, spiVars, files, behavior, handleVars, args, calls>>

DropBus(t) ==
  /\ At(t, "dropBus")
  /\ registry' = 0
  /\ Go(t)
  /\ UNCHANGED <<power, buses, spiOwner, screenBus, cardVars, behavior, handleVars, args, calls>>

(* quiesce_peripherals lowers the rail; a board created anew with its RTC  *)
(* hold released raises it.                                                *)
SwitchRail(t) ==
  /\ At(t, "railDown") \/ At(t, "railUp")
  /\ power' = At(t, "railUp")
  /\ Go(t)
  /\ UNCHANGED <<spiVars, cardVars, behavior, handleVars, args, calls>>
-----------------------------------------------------------------------------
ThreadStep(t) ==
  \/ CheckPower(t) \/ LoadBehavior(t) \/ StoreBehavior(t) \/ ApplyBehavior(t)
  \/ LockHandles(t) \/ UnlockHandles(t) \/ PickHandle(t) \/ FindHandle(t)
  \/ InsertHandle(t) \/ CloseHandle(t) \/ CloseAll(t)
  \/ FindBus(t) \/ Acquire(t) \/ Release(t)
  \/ MountCard(t) \/ CreateCard(t) \/ UnmountCard(t) \/ OpenFile(t)
  \/ WriteHandle(t) \/ ReadHandle(t) \/ PutFile(t) \/ RemoveFile(t) \/ Peek(t)
  \/ DropCard(t) \/ DropBus(t) \/ SwitchRail(t)

AllReturned == calls = MaxCalls /\ \A t \in Threads : todo[t] = << >>

SdNext ==
  \/ \E t \in Firmware, a \in FirmwareCalls : Call(t, a)
  \/ \E a \in DisplayCalls : Call(Display, a)
  \/ \E a \in BoardCalls : Call(Board, a)
  \/ \E t \in Threads : ThreadStep(t)
  \/ AllReturned /\ UNCHANGED sdVars

SdSpec == SdInit /\ [][SdNext]_sdVars

(* Every thread is scheduled.  Weak fairness is enough for the mutex too:  *)
(* the calls are finitely many.                                            *)
SdFairSpec == SdSpec /\ \A t \in Threads : WF_sdVars(ThreadStep(t))

-----------------------------------------------------------------------------
(* Properties. *)

Idle == \A t \in Threads : todo[t] = << >>
Transferring(t) == todo[t] # << >> /\ NextStep(t) \in {"transfer", "draw", "release"}

(* Types; the mutex of the handle table has one owner, and whoever owes an *)
(* unlock is it; an arbiter is owned by the thread that will release it.   *)
SdTypeOK ==
  /\ power \in BOOLEAN /\ behavior \in Behavior
  /\ card \in {None} \cup [mounted : BOOLEAN, slow : BOOLEAN, delay : Delays]
  /\ \A p \in Paths : files[p] = None \/ files[p] \in Seq(Blocks)
  /\ registry \in 0..buses /\ screenBus \in 0..buses
  /\ \A t \in Threads : \A i \in DOMAIN todo[t] :
       todo[t][i] = "unlock" => ("lock" \in {todo[t][j] : j \in 1..i} \/ handlesOwner = t)
  /\ \A t \in Threads : Transferring(t) => spiOwner[args[t].bus] = t

(* The display and the card do not drive the same pins at the same time    *)
(* (ffi.rs:235).  It holds while no call destroys the storage.             *)
OneDriver == \A t, u \in Threads : Transferring(t) /\ Transferring(u) => t = u

(* Whatever the writes of several handles do, the card is never overfull.  *)
WithinCapacity == Used(Paths) <= Capacity

(* An open handle stays the file it was opened for until it is closed: no  *)
(* open is given a handle another one holds.                               *)
HandlesAreExclusive ==
  [][\A h \in HandleIds : handles[h] # None /\ handles'[h] # None =>
       /\ handles'[h].path = handles[h].path
       /\ handles'[h].writable = handles[h].writable
       /\ handles'[h].append = handles[h].append]_sdVars

(* Several append handles on one file never overwrite what another wrote:  *)
(* a write through one that is accepted makes its file longer.             *)
AppendsKeepData ==
  [][\A t \in Firmware :
       LET h == args[t].handle IN
       (/\ Transfer(t, "write") /\ todo'[t] # todo[t] /\ handles[h].append
        /\ files' # files)
       => \E block \in Blocks :
            files' = [files EXCEPT ![handles[h].path] = Append(@, block)]]_sdVars

(* Every call returns, with its locks released whatever it met: an owned   *)
(* bus, a missing file, a full table.                                      *)
EveryCallReturns ==
  /\ \A t \in Threads : todo[t] # << >> ~> todo[t] = << >>
  /\ handlesOwner # None ~> handlesOwner = None

(* meshemu_sdcard_end "closes instance file handles and unmounts its SD    *)
(* card" (ffi.rs:771): when the call has returned and no other one ran     *)
(* beside it, the card is not mounted.                                     *)
EndUnmounts ==
  [][\A t \in Firmware :
       todo[t] # << >> /\ args[t].kind = "end" /\ todo'[t] = << >> => ~Mounted']_sdVars

(* meshemu_sdcard_set_behavior "configures the process-wide virtual        *)
(* SD-card personality" (ffi.rs:442): a mounted card has it.               *)
PersonalityIsProcessWide ==
  Idle /\ Mounted => [slow |-> card.slow, delay |-> card.delay] = behavior

(* meshemu_storage_destroy "removes all storage state for an emulator      *)
(* instance" (ffi.rs:859): no file stays open without a card.              *)
DestroyLeavesNoHandle ==
  Idle /\ card = None => \A h \in HandleIds : handles[h] = None
=============================================================================
