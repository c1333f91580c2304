------------------------------ MODULE Instances ------------------------------
(***************************************************************************)
(* The firmware instances of one process: the manager that spawns, ticks   *)
(* and kills them (core/src/instance.rs), the loader that calls into their *)
(* libraries (loader.rs), and the flash partition tables that firmware     *)
(* finds active when it is called (partition.rs, flash_ffi.rs).            *)
(*                                                                         *)
(* The manager runs on one thread.  A call into firmware is a step in and  *)
(* a step out, between which firmware calls back.  A partition table is    *)
(* one of two layouts, and a store has the size it was registered with.    *)
(* All instances load one library: contextful firmware keeps its display   *)
(* in its context, legacy firmware in a global of the library.             *)
(***************************************************************************)
EXTENDS Integers, FiniteSets, Sequences

CONSTANTS
  Ids,
  Callers, Main,    \* threads that call the bridge; Main runs the manager
  Deltas,           \* steps of the clock, in ms
  MaxSpawns, MaxCalls, MaxClock,   \* bounds
  None

ASSUME InstancesAssumption ==
  /\ Main \in Callers
  /\ None \notin Ids
  /\ Deltas \subseteq Nat

VARIABLES
  contextful,       \* the library exports the contextful ABI, not the legacy one
  exports,          \* and a getter for its display, which it need not
  inst,             \* inst[i]: the instance in the manager's map, or None
  dropping,         \* an instance on its way out, as [id, instance], or None
  entered,          \* the call into firmware: [id, call], or None
  clock, due,       \* SimulationClock, and [ids, delta] of the frame at work
  tables, stores,   \* PARTITION_TABLES, and sizes in NVS_INSTANCES; or None
  buzzers,          \* ids in the registry of buzzers
  active,           \* ACTIVE_PARTITION_TABLE of the manager's thread
  pending,          \* pending[c]: a switch whose table is not written yet
  displays,         \* displays[i]: how many LVGL displays there are that i made
  libDisplay,       \* whose display is in the legacy library's global
  strays,           \* ids that a bridge call registered without an instance
  made, unmade,     \* contexts that were created and destroyed, per id
  since, elapsed,   \* when an instance joined, and what its receiver was ticked
  lost,             \* displays that were made and the host is never told of, per id
  disturbed,        \* stores whose size was last set apart from their table
  spawns, calls     \* counted against the bounds

library == <<contextful, exports>>
registries == <<tables, stores, buzzers, strays, disturbed>>
screens == <<displays, libDisplay, lost>>
history == <<made, unmade, since, elapsed>>
instVars == <<library, inst, dropping, entered, clock, due, registries, active, pending,
              screens, history, spawns, calls>>

(* The layouts, in KiB; a kind is a partition's type with its subtype. *)
Entry(kind, at, size) == [kind |-> kind, at |-> at, size |-> size]
Standalone == <<Entry("nvs", 36, 20), Entry("otadata", 56, 8), Entry("ota_0", 64, 6400),
                Entry("ota_1", 6464, 6400), Entry("spiffs", 12864, 3456),
                Entry("coredump", 16320, 64)>>
Launcher == <<Entry("nvs", 36, 16), Entry("otadata", 52, 8), Entry("phy", 60, 4),
              Entry("test", 64, 1536), Entry("coredump", 1600, 64)>>
Layouts == {Standalone, Launcher}
NvsSize(table) == IF table = Launcher THEN 16 ELSE 20

OfKind(table, kind) == {n \in DOMAIN table : table[n].kind = kind}
FindFirst(table, kind) ==
  table[CHOOSE n \in OfKind(table, kind) : \A k \in OfKind(table, kind) : n <= k]
IsUnderLauncher(table) ==
  OfKind(table, "test") # {} /\ FindFirst(table, "otadata").at = 52

(* The entry handed out by a lookup, or None. *)
PartitionResult(table, kind) ==
  IF table = None \/ OfKind(table, kind) = {} THEN None ELSE FindFirst(table, kind)

Instance == [context : BOOLEAN, shows : BOOLEAN,  \* the context, and a display in it
             running : BOOLEAN, stopped : BOOLEAN, powered : BOOLEAN]
Dropping == [id : Ids, instance : Instance]
Entered == [id : Ids, call : {"start", "loop", "destroy"}]
Switch == [id : Ids, table : Layouts]
StoreSizes == {NvsSize(t) : t \in Layouts} \cup {8}  \* and one that fits no layout

ASSUME NoneAssumption ==  \* None is none of the values it stands for the absence of
  /\ None \notin Instance /\ None \notin Dropping /\ None \notin Entered
  /\ None \notin Switch /\ None \notin Layouts /\ None \notin StoreSizes
ASSUME NoEntryIsNone == \A t \in Layouts : \A n \in DOMAIN t : t[n] # None

Init ==
  /\ contextful \in BOOLEAN /\ exports \in BOOLEAN
  /\ inst = [i \in Ids |-> None] /\ dropping = None /\ entered = None
  /\ clock = 0 /\ due = [ids |-> {}, delta |-> 0]
  /\ tables = [i \in Ids |-> None] /\ stores = [i \in Ids |-> None]
  /\ buzzers = {} /\ strays = {} /\ disturbed = {}
  /\ active = Standalone
  /\ pending = [c \in Callers |-> None]
  /\ displays = [i \in Ids |-> 0] /\ libDisplay = None /\ lost = [i \in Ids |-> 0]
  /\ made = [i \in Ids |-> 0] /\ unmade = [i \in Ids |-> 0]
  /\ since = [i \in Ids |-> 0] /\ elapsed = [i \in Ids |-> 0]
  /\ spawns = 0 /\ calls = 0

Live == {i \in Ids : inst[i] # None}

(* The manager is at work on nothing. *)
Idle == entered = None /\ dropping = None /\ due.ids = {} /\ pending[Main] = None

-----------------------------------------------------------------------------
(* FirmwareInstance. *)

(* display: whose it is, or None: without a getter or a context there is   *)
(* none; legacy firmware is asked although it was never set up, and        *)
(* answers from the library that a running instance may share.             *)
DisplayOf(i, f) ==
  CASE ~exports -> None
    [] exports /\ contextful -> IF f.context /\ f.shows THEN i ELSE None
    [] exports /\ ~contextful -> libDisplay

(* destroy_managed_display: one that is gone already is not found.         *)
Destroyed(owner) ==
  [i \in Ids |-> IF i = owner /\ displays[i] > 0 THEN displays[i] - 1 ELSE displays[i]]

(* start: setup or create ran; a display it made is in the context.        *)
Started(f, display) ==
  [f EXCEPT !.running = TRUE, !.context = contextful, !.shows = contextful /\ display]

(* stop, up to the destroy hook: at most once. *)
StoppedTwice(f) == [f EXCEPT !.running = FALSE, !.stopped = TRUE]  \* mutant: the context is not taken
Stopped(f) == [f EXCEPT !.running = FALSE, !.stopped = TRUE, !.context = FALSE]

-----------------------------------------------------------------------------
(* InstanceManager. *)

NewInstance == [context |-> FALSE, shows |-> FALSE, running |-> FALSE, stopped |-> FALSE,
                powered |-> TRUE]

(* A switch of i's layout that has set the store and not yet the table.    *)
Switching(i) == {c \in Callers : pending[c] # None /\ pending[c].id = i}
Disturbed(i, apart) == IF apart THEN disturbed \cup {i} ELSE disturbed \ {i}

(* create_peripherals: it fails, if at all, before anything is registered. *)
CreatePeripherals(i, table) ==
  /\ stores' = [stores EXCEPT ![i] = NvsSize(table)]
  /\ tables' = [tables EXCEPT ![i] = table]
  /\ buzzers' = buzzers \cup {i}
  /\ strays' = strays \ {i}
  /\ disturbed' = Disturbed(i, Switching(i) # {})

(* spawn up to the firmware's setup, which the instance is started for     *)
(* right away; a second legacy instance is refused and dropped instead.    *)
Spawn(i, table) ==
  /\ Idle /\ inst[i] = None /\ spawns < MaxSpawns
  /\ spawns' = spawns + 1
  /\ CreatePeripherals(i, table)
  /\ active' = table
  /\ IF ~contextful /\ Live # {}
     THEN dropping' = [id |-> i, instance |-> NewInstance] /\ entered' = None
     ELSE dropping' = None /\ entered' = [id |-> i, call |-> "start"]
  /\ UNCHANGED <<library, inst, clock, due, pending, screens, history, calls>>

(* The firmware's setup has made a display: legacy firmware keeps it in a  *)
(* global, contextful firmware in the context it hands out.                *)
Returned == entered # None /\ pending[Main] = None

MakeDisplay(i, display, told) ==
  IF display
  THEN /\ displays' = [displays EXCEPT ![i] = @ + 1]
       /\ libDisplay' = IF contextful THEN libDisplay ELSE i
       /\ lost' = [lost EXCEPT ![i] = IF told THEN @ ELSE @ + 1]
  ELSE UNCHANGED screens

StartReturns(display) ==
  /\ Returned /\ entered.call = "start"
  /\ LET i == entered.id IN
     /\ inst' = [inst EXCEPT ![i] = Started(NewInstance, display)]
     /\ made' = [made EXCEPT ![i] = IF contextful THEN @ + 1 ELSE @]
     /\ MakeDisplay(i, display, exports)
     /\ since' = [since EXCEPT ![i] = clock]
     /\ elapsed' = [elapsed EXCEPT ![i] = 0]
  /\ entered' = None
  /\ UNCHANGED <<library, dropping, clock, due, registries, active, pending, unmade, spawns, calls>>

(* It panics, or returns no context: the instance is dropped, and without  *)
(* a context nothing leads to a display that contextful firmware made.     *)
StartFails(display) ==
  /\ Returned /\ entered.call = "start"
  /\ dropping' = [id |-> entered.id, instance |-> NewInstance]
  /\ MakeDisplay(entered.id, display, exports /\ ~contextful)
  /\ entered' = None
  /\ UNCHANGED <<library, inst, clock, due, registries, active, pending, history, spawns, calls>>

Kill(i) ==
  /\ Idle /\ inst[i] # None
  /\ dropping' = [id |-> i, instance |-> inst[i]]
  /\ inst' = [inst EXCEPT ![i] = None]
  /\ UNCHANGED <<library, entered, clock, due, registries, active, pending, screens,
                 history, spawns, calls>>

(* teardown: the firmware is stopped, through its hook if it has a context, *)
(* and has its display destroyed; then the registrations go.  FirmwareInstance *)
(* is dropped after it and would stop a second time.                       *)
EnterDestroy ==
  /\ dropping # None /\ entered = None
  /\ dropping.instance.context
  /\ entered' = [id |-> dropping.id, call |-> "destroy"]
  /\ dropping' = [dropping EXCEPT !.instance = Stopped(@)]
  /\ UNCHANGED <<library, inst, clock, due, registries, active, pending, screens,
                 history, spawns, calls>>

DestroyReturns ==  \* the display was asked for before the context was taken
  /\ Returned /\ entered.call = "destroy"
  /\ unmade' = [unmade EXCEPT ![entered.id] = @ + 1]
  /\ displays' = IF exports /\ dropping.instance.shows THEN Destroyed(entered.id) ELSE displays
  /\ entered' = None
  /\ UNCHANGED <<library, inst, dropping, clock, due, registries, active, pending, libDisplay, lost,
                 made, since, elapsed, spawns, calls>>

Deregister(i) ==
  /\ buzzers' = buzzers \ {i}
  /\ stores' = [stores EXCEPT ![i] = None]
  /\ tables' = [tables EXCEPT ![i] = None]
  /\ disturbed' = disturbed \ {i}

TeardownOfMembers ==  \* mutant: a firmware that never ran keeps its registrations
  /\ dropping # None /\ entered = None /\ ~dropping.instance.context
  /\ IF made[dropping.id] = 0 THEN UNCHANGED <<buzzers, stores, tables, disturbed>>
     ELSE Deregister(dropping.id)
  /\ displays' = Destroyed(DisplayOf(dropping.id, dropping.instance))
  /\ dropping' = None /\ libDisplay' = IF Live = {} THEN None ELSE libDisplay
  /\ UNCHANGED <<library, inst, entered, clock, due, active, pending, strays, lost, history, spawns,
                 calls>>
Teardown ==
  /\ dropping # None /\ entered = None
  /\ ~dropping.instance.context
  /\ Deregister(dropping.id)
  /\ displays' = Destroyed(DisplayOf(dropping.id, dropping.instance))
  /\ dropping' = None
  /\ libDisplay' = IF Live = {} THEN None ELSE libDisplay
  /\ UNCHANGED <<library, inst, entered, clock, due, active, pending, strays, lost, history, spawns,
                 calls>>

(* SimulationClock: it never goes back. *)
AdvanceTo(now) == IF now < clock THEN clock ELSE now

(* tick_all_with_delta, and tick_all_at, which ignores a time gone by.     *)
TickAllAbsolute(now) ==  \* mutant: the time is handed on in place of the step
  /\ Idle /\ now <= MaxClock
  /\ clock' = AdvanceTo(now)
  /\ due' = [ids |-> Live, delta |-> now]
  /\ UNCHANGED <<library, inst, dropping, entered, registries, active, pending, screens,
                 history, spawns, calls>>
TickAll(now) ==
  /\ Idle /\ now <= MaxClock
  /\ clock' = AdvanceTo(now)
  /\ due' = [ids |-> Live, delta |-> AdvanceTo(now) - clock]
  /\ UNCHANGED <<library, inst, dropping, entered, registries, active, pending, screens,
                 history, spawns, calls>>

(* Instance::tick: the receiver runs after the firmware, if the instance's *)
(* own board has its rail on.                                              *)
GpsTicked(i) ==
  elapsed' = [elapsed EXCEPT ![i] = IF inst[i].powered THEN @ + due.delta ELSE @]

TickInstance(i) ==
  /\ i \in due.ids /\ entered = None
  /\ active' = tables[i]
  /\ IF inst[i].running
     THEN entered' = [id |-> i, call |-> "loop"] /\ UNCHANGED <<due, elapsed>>
     ELSE /\ GpsTicked(i)
          /\ due' = [due EXCEPT !.ids = @ \ {i}]
          /\ UNCHANGED entered
  /\ UNCHANGED <<library, inst, dropping, clock, registries, pending, screens, made,
                 unmade, since, spawns, calls>>

(* The loop returns, or panics: then the firmware runs no more. *)
LoopReturns ==
  /\ Returned /\ entered.call = "loop"
  /\ \E alive \in BOOLEAN : inst' = [inst EXCEPT ![entered.id].running = alive]
  /\ GpsTicked(entered.id)
  /\ due' = [due EXCEPT !.ids = @ \ {entered.id}]
  /\ entered' = None
  /\ UNCHANGED <<library, dropping, clock, registries, active, pending, screens, made,
                 unmade, since, spawns, calls>>

-----------------------------------------------------------------------------
(* What firmware, and other threads of the host, call. *)

MayCall(c) ==
  /\ pending[c] = None /\ calls < MaxCalls
  /\ c = Main => entered # None

(* meshemu_nvs_init: any size, whatever the partition table says.          *)
NvsInit(c, i, size) ==
  /\ MayCall(c)
  /\ calls' = calls + 1
  /\ stores' = [stores EXCEPT ![i] = size]
  /\ strays' = IF tables[i] = None THEN strays \cup {i} ELSE strays
  /\ disturbed' = disturbed \cup {i}
  /\ UNCHANGED <<library, inst, dropping, entered, clock, due, tables, buzzers, active, pending,
                 screens, history, spawns>>

(* meshemu_nvs_destroy: also from under an instance that lives.            *)
NvsDestroy(c, i) ==
  /\ MayCall(c) /\ stores[i] # None
  /\ calls' = calls + 1
  /\ stores' = [stores EXCEPT ![i] = None]
  /\ strays' = IF tables[i] = None THEN strays \ {i} ELSE strays
  /\ disturbed' = disturbed \ {i}
  /\ UNCHANGED <<library, inst, dropping, entered, clock, due, tables, buzzers, active, pending,
                 screens, history, spawns>>

(* meshemu_partition_set_launcher_mode: the store first, which may be      *)
(* refused; then the table, which also becomes the caller's active one.    *)
SwitchTableOnly(c, i, table) ==  \* mutant: a store that is refused does not stop the switch
  /\ MayCall(c)
  /\ calls' = calls + 1
  /\ pending' = [pending EXCEPT ![c] = [id |-> i, table |-> table]]
  /\ strays' = IF tables[i] = None THEN strays \cup {i} ELSE strays
  /\ disturbed' = Disturbed(i, Switching(i) # {})
  /\ UNCHANGED <<library, inst, dropping, entered, clock, due, stores, tables, buzzers, active, screens,
                 history, spawns>>
SetLauncherMode(c, i, table) ==
  /\ MayCall(c)
  /\ calls' = calls + 1
  /\ stores' = [stores EXCEPT ![i] = NvsSize(table)]
  /\ pending' = [pending EXCEPT ![c] = [id |-> i, table |-> table]]
  /\ strays' = IF tables[i] = None THEN strays \cup {i} ELSE strays
  /\ disturbed' = Disturbed(i, Switching(i) # {})
  /\ UNCHANGED <<library, inst, dropping, entered, clock, due, tables, buzzers, active, screens,
                 history, spawns>>

RegisterTable(c) ==
  /\ pending[c] # None
  /\ LET i == pending[c].id IN
     /\ tables' = [tables EXCEPT ![i] = pending[c].table]
     /\ strays' = IF i \in Live \/ (entered # None /\ entered.id = i) THEN strays
                  ELSE strays \cup {i}
  /\ active' = IF c = Main THEN pending[c].table ELSE active
  /\ pending' = [pending EXCEPT ![c] = None]
  /\ UNCHANGED <<library, inst, dropping, entered, clock, due, stores, buzzers, disturbed, screens,
                 history, spawns, calls>>

(* The lookups that name an instance, and the one that does not.           *)
FindFirstForInstance(i, kind) == PartitionResult(tables[i], kind)
UnderLauncher(i) == tables[i] # None /\ IsUnderLauncher(tables[i])
ActiveFindFirst(kind) == PartitionResult(active, kind)

-----------------------------------------------------------------------------
Next ==
  \/ \E i \in Ids, table \in Layouts : Spawn(i, table)
  \/ \E display \in BOOLEAN : StartReturns(display) \/ StartFails(display)
  \/ \E i \in Ids : Kill(i) \/ TickInstance(i)
  \/ EnterDestroy \/ DestroyReturns \/ Teardown
  \/ \E d \in Deltas : TickAll(clock + d) \/ TickAll(clock - d)
  \/ LoopReturns
  \/ \E c \in Callers, i \in Ids, table \in Layouts : SetLauncherMode(c, i, table)
  \/ \E c \in Callers, i \in Ids : NvsDestroy(c, i) \/ \E size \in StoreSizes : NvsInit(c, i, size)
  \/ \E c \in Callers : RegisterTable(c)

Spec == Init /\ [][Next]_instVars

-----------------------------------------------------------------------------
(* Properties. *)

(* Types: only a running firmware or its last call has a context; a frame  *)
(* is at work on instances that are there.                                 *)
InstTypeOK ==
  /\ contextful \in BOOLEAN /\ exports \in BOOLEAN
  /\ inst \in [Ids -> Instance \cup {None}]
  /\ dropping \in Dropping \cup {None} /\ entered \in Entered \cup {None}
  /\ due.ids \subseteq Live
  /\ tables \in [Ids -> Layouts \cup {None}] /\ stores \in [Ids -> StoreSizes \cup {None}]
  /\ active \in Layouts
  /\ buzzers \subseteq Ids /\ disturbed \subseteq Ids
  /\ displays \in [Ids -> Nat] /\ lost \in [Ids -> Nat]

(* "centralizes teardown ordering" (instance.rs:127): whether an instance  *)
(* was killed, did not start or was refused, nothing stays registered      *)
(* under its id but what a bridge call put there, and no display is left   *)
(* but those nobody told the host of: made by a contextful setup that      *)
(* failed, or by a library without a getter.                               *)
NothingOutlivesItsInstance ==
  Idle => \A i \in Ids \ Live :
            /\ i \notin strays => tables[i] = None /\ stores[i] = None /\ i \notin buzzers
            /\ displays[i] = lost[i]

(* The same without the exception. *)
EveryDisplayGoesToo == Idle => \A i \in Ids \ Live : displays[i] = 0

HasContext(i) ==
  \/ i \in Live /\ inst[i].context
  \/ dropping # None /\ dropping.id = i /\ dropping.instance.context
  \/ entered = [id |-> i, call |-> "destroy"]

(* "at most once" (loader.rs:287), and once: every context that firmware   *)
(* made is destroyed when its instance goes, also when its loop panicked   *)
(* before, and no context is destroyed twice.                              *)
ContextsBalance ==
  \A i \in Ids : made[i] = unmade[i] + (IF HasContext(i) THEN 1 ELSE 0)

(* "the corresponding delta" (instance.rs:85): the deltas that a receiver  *)
(* was given add up to the time since its instance joined, whichever way   *)
(* the clock was moved.                                                    *)
DeltasAddUp == Idle => \A i \in Live : elapsed[i] = clock - since[i]

(* "coherent partition and NVS geometry" (instance.rs:489): the store has  *)
(* the size of its partition, which ends where the next begins, and        *)
(* firmware that looks for the launcher finds it by both signals or none.  *)
Coherent(i) ==
  stores[i] # None =>
    LET nvs == FindFirstForInstance(i, "nvs") IN
    /\ tables[i] # None
    /\ stores[i] = nvs.size
    /\ nvs.at + nvs.size = FindFirstForInstance(i, "otadata").at
    /\ UnderLauncher(i) <=> FindFirstForInstance(i, "ota_0") = None

(* Outside of a switch it is so of every id, whoever switched, spawned or  *)
(* killed, and whatever was refused; but where a switch or a spawn ran     *)
(* into another switch, or firmware has set the size by nvs_init.          *)
CoherentGeometry == \A i \in Ids \ disturbed : Switching(i) = {} => Coherent(i)

(* The same without the exceptions; and that the last of the switches of   *)
(* an instance leaves it so.                                               *)
EveryStoreFits == \A i \in Ids : Switching(i) = {} => Coherent(i)
LastSwitchFits ==
  [][\A i \in Ids : Switching(i) # {} /\ Switching(i)' = {} => Coherent(i)']_instVars

(* "The core calls this immediately before entering each firmware          *)
(* instance" (partition.rs:231): a call into firmware finds the table of   *)
(* its instance active.                                                    *)
EntryActivates ==
  [][entered = None /\ entered' # None =>
       \A kind \in {"nvs", "otadata", "ota_0", "spiffs"} :
         ActiveFindFirst(kind)' = FindFirstForInstance(entered.id, kind)']_instVars

(* A spawn that is refused, or fails, leaves the displays of the others.   *)
DropTouchesNoOther ==
  [][dropping # None =>
       \A i \in Ids : displays'[i] < displays[i] => i = dropping.id]_instVars
=============================================================================
