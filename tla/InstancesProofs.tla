--------------------------- MODULE InstancesProofs ---------------------------
(***************************************************************************)
(* Proofs about Instances for every number of ids, calls, clock steps and  *)
(* threads.  The argument: an id is present from its spawn to the end of   *)
(* its teardown, and everything the process keeps under an id is there     *)
(* either because the id is present or because a bridge call put it there. *)
(***************************************************************************)
EXTENDS Instances, TLAPS

Starting(i) == entered # None /\ entered.call = "start" /\ entered.id = i
Destroying(i) == entered # None /\ entered.call = "destroy" /\ entered.id = i
Leaving(i) == dropping # None /\ dropping.id = i
Present(i) == inst[i] # None \/ Leaving(i) \/ Starting(i)

(* An instance in the map or leaving it, and one whose display is found    *)
(* through its context, or was found when that was taken.                  *)
Around(i) == inst[i] # None \/ Leaving(i)
Shown(i) ==
  \/ inst[i] # None /\ inst[i].shows
  \/ Leaving(i) /\ dropping.instance.shows /\ (dropping.instance.context \/ Destroying(i))

Types ==
  /\ InstTypeOK
  /\ due \in [ids : SUBSET Ids, delta : Nat] /\ clock \in Nat
  /\ pending \in [Callers -> Switch \cup {None}]
  /\ libDisplay \in Ids \cup {None} /\ strays \subseteq Ids
  /\ made \in [Ids -> Nat] /\ unmade \in [Ids -> Nat]
  /\ since \in [Ids -> Nat] /\ elapsed \in [Ids -> Int]

(* The manager is at one thing at a time. *)
OneThing ==
  /\ pending[Main] # None => entered # None
  /\ dropping # None => due.ids = {} /\ inst[dropping.id] = None
  /\ \A i \in Ids :
       /\ Starting(i) => dropping = None /\ due.ids = {} /\ inst[i] = None
       /\ Destroying(i) => Leaving(i) /\ ~dropping.instance.context
  /\ entered # None /\ entered.call = "loop" => entered.id \in due.ids

(* Who has a context, and a rail that is on. *)
Contexts ==
  /\ \A i \in Live : /\ inst[i].context = contextful /\ inst[i].powered
                     /\ inst[i].shows => contextful
  /\ dropping # None /\ ~contextful => ~dropping.instance.context

(* Whose registrations there are. *)
Registered ==
  \A i \in Ids :
    /\ Present(i) => tables[i] # None
    /\ i \in buzzers => Present(i)
    /\ tables[i] # None \/ stores[i] # None => Present(i) \/ i \in strays

(* Whose displays there are: where no getter shares one library's global,  *)
(* those that were lost, and the one in each context; elsewhere none is    *)
(* lost, and the one there may be is that in the global.                   *)
InContexts ==
  contextful \/ ~exports =>
    \A i \in Ids : displays[i] = lost[i] + (IF exports /\ Shown(i) THEN 1 ELSE 0)
InGlobal ==
  /\ ~contextful /\ exports =>
       \A i \in Ids : /\ lost[i] = 0 /\ displays[i] <= 1
                      /\ displays[i] > 0 => libDisplay = i /\ Around(i)
  /\ ~contextful /\ entered # None /\ entered.call = "start" => Live = {}
DisplaysOwned == InContexts /\ InGlobal

(* What the receivers were given, and have coming from the frame at work. *)
Elapsed ==
  \A i \in Live : elapsed[i] = clock - since[i] - (IF i \in due.ids THEN due.delta ELSE 0)

InstInv ==
  /\ Types /\ OneThing /\ Contexts /\ Registered /\ DisplaysOwned /\ ContextsBalance /\ Elapsed

-----------------------------------------------------------------------------
(* Facts about the operators. *)

(* A new instance has no context, and its rail is on. *)
LEMMA NewInstanceType ==
  /\ NewInstance \in Instance /\ ~NewInstance.context /\ NewInstance.powered
  /\ ~NewInstance.shows
BY DEF NewInstance, Instance

(* A layout gives the store a size. *)
LEMMA StoreSizeType == \A t \in Layouts : NvsSize(t) \in StoreSizes /\ NvsSize(t) # None
BY NoneAssumption DEF StoreSizes

(* The call into a destroy hook, told by its parts. *)
LEMMA DestroyEntry ==
  \A e \in Entered \cup {None}, i \in Ids :
    e = [id |-> i, call |-> "destroy"] <=> e # None /\ e.call = "destroy" /\ e.id = i
BY NoneAssumption DEF Entered

(* The two layouts: the partition of the store has the size that the store *)
(* is given, it ends where otadata begins, and the launcher is the layout  *)
(* without a slot for an over-the-air update.                              *)
LEMMA LayoutsCohere ==
  \A t \in Layouts :
    /\ OfKind(t, "nvs") # {} /\ OfKind(t, "otadata") # {}
    /\ FindFirst(t, "nvs").size = NvsSize(t)
    /\ FindFirst(t, "nvs").at + FindFirst(t, "nvs").size = FindFirst(t, "otadata").at
    /\ IsUnderLauncher(t) <=> OfKind(t, "ota_0") = {}
    /\ OfKind(t, "ota_0") # {} => FindFirst(t, "ota_0") # None
<1>1. /\ OfKind(Standalone, "nvs") = {1} /\ OfKind(Standalone, "otadata") = {2}
      /\ OfKind(Standalone, "ota_0") = {3} /\ OfKind(Standalone, "test") = {}
  BY DEF OfKind, Standalone, Entry
<1>2. /\ OfKind(Launcher, "nvs") = {1} /\ OfKind(Launcher, "otadata") = {2}
      /\ OfKind(Launcher, "ota_0") = {} /\ OfKind(Launcher, "test") = {4}
  BY DEF OfKind, Launcher, Entry
<1>3. ASSUME NEW t \in Layouts, NEW kind, NEW n \in Nat, OfKind(t, kind) = {n}
      PROVE  FindFirst(t, kind) = t[n]
  BY <1>3 DEF FindFirst
<1>4. /\ FindFirst(Standalone, "nvs") = Entry("nvs", 36, 20)
      /\ FindFirst(Standalone, "otadata") = Entry("otadata", 56, 8)
      /\ FindFirst(Standalone, "ota_0") = Entry("ota_0", 64, 6400)
  <2>1. /\ Standalone[1] = Entry("nvs", 36, 20) /\ Standalone[2] = Entry("otadata", 56, 8)
        /\ Standalone[3] = Entry("ota_0", 64, 6400)
    BY DEF Standalone
  <2> QED BY <1>1, <1>3, <2>1 DEF Layouts
<1>5. /\ FindFirst(Launcher, "nvs") = Entry("nvs", 36, 16)
      /\ FindFirst(Launcher, "otadata") = Entry("otadata", 52, 8)
  <2>1. Launcher[1] = Entry("nvs", 36, 16) /\ Launcher[2] = Entry("otadata", 52, 8)
    BY DEF Launcher
  <2> QED BY <1>2, <1>3, <2>1 DEF Layouts
<1>6. Standalone # Launcher
  BY <1>1, <1>2
<1>7. OfKind(Standalone, "ota_0") # {} => FindFirst(Standalone, "ota_0") # None
  BY <1>4, NoEntryIsNone DEF Layouts, Standalone
<1> QED BY <1>1, <1>2, <1>4, <1>5, <1>6, <1>7 DEF Layouts, NvsSize, IsUnderLauncher, Entry

-----------------------------------------------------------------------------
(* The invariant is inductive. *)

(* At first no instance lives and no thread is inside a call. *)
LEMMA InstInit == Init => InstInv
<1> SUFFICES ASSUME Init PROVE InstInv
  OBVIOUS
<1>1. Types
  BY DEF Init, Types, InstTypeOK, Live, Layouts
<1>2. OneThing /\ Contexts /\ DisplaysOwned
  BY InstancesAssumption DEF Init, OneThing, Contexts, DisplaysOwned, InContexts, InGlobal, Shown,
     Live, Leaving, Starting, Destroying
<1>3. ContextsBalance
  BY DestroyEntry DEF Init, ContextsBalance, HasContext, Live
<1>4. Registered /\ Elapsed
  BY DEF Init, Registered, Elapsed, Live, Present, Leaving, Starting
<1> QED BY <1>1, <1>2, <1>3, <1>4 DEF InstInv

(* A step that leaves the displays, and who is around with which of them.  *)
LEMMA DisplaysKept ==
  ASSUME DisplaysOwned, UNCHANGED <<library, screens>>,
         contextful => \A i \in Ids : Shown(i)' <=> Shown(i),
         \A i \in Ids : Around(i) => Around(i)',
         ~contextful /\ entered' # None /\ entered'.call = "start" => Live' = {}
  PROVE  DisplaysOwned'
<1>1. InContexts'
  BY DEF DisplaysOwned, InContexts, library, screens
<1>2. InGlobal'
  BY DEF DisplaysOwned, InGlobal, library, screens
<1> QED BY <1>1, <1>2 DEF DisplaysOwned

(* What a bridge call leaves, which is not about instances or displays.    *)
LEMMA BridgeLeavesDisplays ==
  ASSUME DisplaysOwned, UNCHANGED <<library, screens, inst, dropping, entered>>
  PROVE  DisplaysOwned'
<1>1. \A i \in Ids : (Shown(i)' <=> Shown(i)) /\ (Around(i)' <=> Around(i))
  BY DEF Shown, Around, Leaving, Destroying
<1>2. ~contextful /\ entered' # None /\ entered'.call = "start" => Live' = {}
  BY DEF DisplaysOwned, InGlobal, Live
<1> QED BY <1>1, <1>2, DisplaysKept

(* What a step of the manager, of firmware or of another thread preserves. *)
LEMMA InstStep == InstInv /\ [Next]_instVars => InstInv'
<1> SUFFICES ASSUME InstInv, [Next]_instVars
             PROVE  InstInv'
  OBVIOUS
<1> USE NoneAssumption, InstancesAssumption
    DEF InstInv, Types, InstTypeOK, OneThing, Contexts, library, registries, screens, history
<1>1. ASSUME NEW i \in Ids, NEW table \in Layouts, Spawn(i, table)
      PROVE  InstInv'
  <2>1. Types'
    <3>1. dropping' \in Dropping \cup {None} /\ entered' \in Entered \cup {None}
      BY <1>1, NewInstanceType DEF Spawn, Dropping, Entered
    <3>2. tables' \in [Ids -> Layouts \cup {None}] /\ stores' \in [Ids -> StoreSizes \cup {None}]
          /\ active' \in Layouts /\ buzzers' \subseteq Ids /\ strays' \subseteq Ids
          /\ disturbed' \subseteq Ids
      BY <1>1, StoreSizeType DEF Spawn, CreatePeripherals, Disturbed
    <3> QED BY <1>1, <3>1, <3>2 DEF Spawn, Live
  <2>2. OneThing'
     BY <1>1 DEF Starting, Destroying, Leaving, Dropping, Entered, Switch, Spawn,
       CreatePeripherals, Idle, NewInstance
  <2>3. Contexts'
    BY <1>1 DEF Live, Instance, Dropping, Entered, Spawn, CreatePeripherals, Idle, NewInstance
  <2>4. Registered'
    <3>1. \A j \in Ids : Present(j)' => Present(j) \/ j = i
      BY <1>1 DEF Spawn, Idle, Present, Leaving, Starting
    <3>2. Present(i)'
      BY <1>1, NewInstanceType DEF Spawn, Present, Leaving, Starting, Dropping, Entered
    <3>3. \A j \in Ids : Present(j) => Present(j)'
      BY <1>1 DEF Spawn, Idle, Present, Leaving, Starting
    <3>4. \A j \in Ids :
            /\ tables'[j] = IF j = i THEN table ELSE tables[j]
            /\ stores'[j] = IF j = i THEN NvsSize(table) ELSE stores[j]
            /\ j # i => (j \in buzzers' <=> j \in buzzers) /\ (j \in strays' <=> j \in strays)
      BY <1>1 DEF Spawn, CreatePeripherals
    <3> QED BY <1>1, <3>1, <3>2, <3>3, <3>4, StoreSizeType DEF Registered
  <2>5. DisplaysOwned'
    <3>1. \A j \in Ids : Shown(j)' <=> Shown(j)
      BY <1>1, NewInstanceType DEF Spawn, Idle, Shown, Leaving, Destroying
    <3>2. \A j \in Ids : Around(j) => Around(j)'
      BY <1>1 DEF Spawn, Idle, Around, Leaving
    <3>3. ~contextful /\ entered' # None => Live' = {}
      BY <1>1 DEF Spawn, Live
    <3> QED BY <1>1, <3>1, <3>2, <3>3, DisplaysKept DEF Spawn
  <2>6. ContextsBalance'
     BY <1>1 DEF HasContext, Live, Instance, Dropping, Entered, ContextsBalance, Spawn,
       CreatePeripherals, Idle, NewInstance
  <2>7. Elapsed'
     BY <1>1 DEF Live, Instance, Entered, Dropping, Elapsed, Spawn, CreatePeripherals, Idle,
       NewInstance
  <2> QED BY <2>1, <2>2, <2>3, <2>4, <2>5, <2>6, <2>7
<1>2. ASSUME NEW display \in BOOLEAN, StartReturns(display)
      PROVE  InstInv'
  <2> DEFINE i == entered.id
  <2>1. i \in Ids /\ Starting(i) /\ inst[i] = None /\ dropping = None /\ due.ids = {}
    BY <1>2 DEF Returned, StartReturns, Starting, Entered
  <2>2. Started(NewInstance, display) # None
        /\ \A j \in Ids : inst'[j] = IF j = i THEN Started(NewInstance, display) ELSE inst[j]
    <3>1. Started(NewInstance, display) \in Instance
      BY NewInstanceType DEF Started, Instance
    <3> QED BY <1>2, <3>1 DEF StartReturns
  <2>3. Types'
    <3>1. inst' \in [Ids -> Instance \cup {None}] /\ made' \in [Ids -> Nat]
          /\ since' \in [Ids -> Nat] /\ elapsed' \in [Ids -> Int]
      <4>1. Started(NewInstance, display) \in Instance
        BY NewInstanceType DEF Started, Instance
      <4> QED BY <1>2, <2>1, <4>1 DEF StartReturns
    <3>2. displays' \in [Ids -> Nat] /\ lost' \in [Ids -> Nat] /\ libDisplay' \in Ids \cup {None}
      BY <1>2, <2>1 DEF StartReturns, MakeDisplay
    <3> QED BY <1>2, <2>1, <3>1, <3>2 DEF StartReturns, Live
  <2>4. OneThing'
     BY <1>2 DEF Starting, Destroying, Leaving, Dropping, Entered, Switch, StartReturns, Returned,
       Started, NewInstance
  <2>5. Contexts'
    BY <1>2 DEF Live, Instance, Dropping, Entered, StartReturns, Returned, Started, NewInstance
  <2>6. Registered'
    <3>1. \A j \in Ids : Present(j)' <=> Present(j)
      BY <1>2, <2>1, <2>2 DEF StartReturns, Present, Leaving, Starting
    <3> QED BY <1>2, <3>1 DEF StartReturns, Registered
  <2>7. DisplaysOwned'
    <3>1. /\ \A j \in Ids : /\ displays'[j] = displays[j] + (IF display /\ j = i THEN 1 ELSE 0)
                            /\ lost'[j] = lost[j] + (IF display /\ ~exports /\ j = i THEN 1 ELSE 0)
          /\ libDisplay' = IF display /\ ~contextful THEN i ELSE libDisplay
          /\ entered' = None /\ dropping' = None /\ library' = library
      BY <1>2, <2>1 DEF StartReturns, MakeDisplay
    <3>2. Started(NewInstance, display).shows <=> contextful /\ display
      BY NewInstanceType DEF Started, Instance
    <3>3. \A j \in Ids : Shown(j)' <=> (IF j = i THEN contextful /\ display ELSE Shown(j))
      BY <2>1, <2>2, <3>1, <3>2 DEF Shown, Leaving
    <3>4. ~Shown(i)
      BY <2>1 DEF Shown, Leaving
    <3>5. InContexts'
      BY <2>1, <3>1, <3>3, <3>4 DEF InContexts, DisplaysOwned
    <3>6. ~contextful => \A j \in Ids : ~Around(j)
      BY <2>1 DEF DisplaysOwned, InGlobal, Starting, Around, Leaving, Live
    <3>7. \A j \in Ids : j = i => Around(j)'
      BY <2>1, <2>2 DEF Around
    <3>8. InGlobal'
      BY <2>1, <3>1, <3>6, <3>7 DEF InGlobal, DisplaysOwned
    <3> QED BY <3>5, <3>8 DEF DisplaysOwned
  <2>8. ContextsBalance'
    <3>1. Started(NewInstance, display).context = contextful
      BY NewInstanceType DEF Started, Instance
    <3>2. \A j \in Ids : HasContext(j)' <=> (IF j = i THEN contextful ELSE HasContext(j))
      BY <1>2, <2>1, <2>2, <3>1, DestroyEntry DEF StartReturns, HasContext, Live, Starting
    <3>3. ~HasContext(i)
      BY <2>1 DEF HasContext, Live, Starting
    <3> QED BY <1>2, <2>1, <3>2, <3>3 DEF StartReturns, ContextsBalance
  <2>9. Elapsed'
    <3>1. \A j \in Ids : /\ elapsed'[j] = IF j = i THEN 0 ELSE elapsed[j]
                        /\ since'[j] = IF j = i THEN clock ELSE since[j]
      BY <1>2 DEF StartReturns
    <3>2. clock' = clock /\ due' = due
      BY <1>2 DEF StartReturns
    <3> QED BY <2>1, <2>2, <3>1, <3>2 DEF Elapsed, Live
  <2> QED BY <2>3, <2>4, <2>5, <2>6, <2>7, <2>8, <2>9
<1>3. ASSUME NEW display \in BOOLEAN, StartFails(display)
      PROVE  InstInv'
  <2> DEFINE i == entered.id
  <2>1. i \in Ids /\ Starting(i) /\ inst[i] = None /\ dropping = None /\ due.ids = {}
    BY <1>3 DEF Returned, StartFails, Starting, Entered
  <2>2. dropping' # None /\ dropping' = [id |-> i, instance |-> NewInstance]
    BY <1>3, <2>1, NewInstanceType DEF StartFails, Dropping
  <2>3. Types'
    <3>1. displays' \in [Ids -> Nat] /\ lost' \in [Ids -> Nat] /\ libDisplay' \in Ids \cup {None}
      BY <1>3, <2>1 DEF StartFails, MakeDisplay
    <3>2. dropping' \in Dropping
      BY <2>1, <2>2, NewInstanceType DEF Dropping
    <3> QED BY <1>3, <2>1, <3>1, <3>2 DEF StartFails, Live
  <2>4. OneThing'
     BY <1>3 DEF Starting, Destroying, Leaving, Dropping, Entered, Switch, StartFails, Returned,
       NewInstance
  <2>5. Contexts'
    BY <1>3 DEF Live, Instance, Dropping, Entered, StartFails, Returned, NewInstance
  <2>6. Registered'
    <3>1. \A j \in Ids : Present(j)' <=> Present(j)
      BY <1>3, <2>1, <2>2 DEF StartFails, Present, Leaving, Starting
    <3> QED BY <1>3, <3>1 DEF StartFails, Registered
  <2>7. DisplaysOwned'
    <3> DEFINE told == exports /\ ~contextful
    <3>1. /\ \A j \in Ids : /\ displays'[j] = displays[j] + (IF display /\ j = i THEN 1 ELSE 0)
                            /\ lost'[j] = lost[j] + (IF display /\ ~told /\ j = i THEN 1 ELSE 0)
          /\ libDisplay' = IF display /\ ~contextful THEN i ELSE libDisplay
          /\ entered' = None /\ inst' = inst /\ library' = library
      BY <1>3, <2>1 DEF StartFails, MakeDisplay
    <3>2. \A j \in Ids : Shown(j)' <=> Shown(j)
      BY <2>1, <2>2, <3>1, NewInstanceType DEF Shown, Leaving, Destroying
    <3>3. InContexts'
      BY <2>1, <3>1, <3>2 DEF InContexts, DisplaysOwned
    <3>4. ~contextful => \A j \in Ids : ~Around(j)
      BY <2>1 DEF DisplaysOwned, InGlobal, Starting, Around, Leaving, Live
    <3>5. \A j \in Ids : j = i => Around(j)'
      BY <2>2 DEF Around, Leaving
    <3>6. InGlobal'
      BY <2>1, <3>1, <3>4, <3>5 DEF InGlobal, DisplaysOwned
    <3> QED BY <3>3, <3>6 DEF DisplaysOwned
  <2>8. ContextsBalance'
    <3>1. \A j \in Ids : HasContext(j)' <=> HasContext(j)
       BY <1>3, <2>1, <2>2, NewInstanceType, DestroyEntry DEF StartFails, HasContext, Live,
         Starting
    <3> QED BY <1>3, <3>1 DEF StartFails, ContextsBalance
  <2>9. Elapsed'
    BY <1>3 DEF Live, Instance, Entered, Dropping, Elapsed, StartFails, Returned, NewInstance
  <2> QED BY <2>3, <2>4, <2>5, <2>6, <2>7, <2>8, <2>9
<1>4. ASSUME NEW i \in Ids, Kill(i)
      PROVE  InstInv'
  <2>1. Types'
    BY <1>4 DEF Live, StoreSizes, Instance, Dropping, Entered, Switch, Kill, Idle
  <2>2. OneThing'
    BY <1>4 DEF Starting, Destroying, Leaving, Dropping, Entered, Switch, Kill, Idle
  <2>3. Contexts'
    BY <1>4 DEF Live, Instance, Dropping, Entered, Kill, Idle
  <2>4. Registered'
     BY <1>4 DEF Present, Leaving, Starting, Dropping, Entered, Switch, Live, StoreSizes,
       Registered, Kill, Idle
  <2>5. DisplaysOwned'
    <3>1. inst[i] # None /\ dropping = None /\ entered = None /\ inst[i].context = contextful
      BY <1>4 DEF Kill, Idle, Live
    <3>2. /\ dropping' # None /\ dropping'.id = i /\ dropping'.instance = inst[i]
          /\ \A j \in Ids : inst'[j] = IF j = i THEN None ELSE inst[j]
      BY <1>4, <3>1 DEF Kill, Dropping
    <3>3. contextful => \A j \in Ids : Shown(j)' <=> Shown(j)
      BY <3>1, <3>2 DEF Shown, Leaving
    <3>4. \A j \in Ids : Around(j) => Around(j)'
      BY <3>1, <3>2 DEF Around, Leaving
    <3> QED BY <1>4, <3>1, <3>3, <3>4, DisplaysKept DEF Kill
  <2>6. ContextsBalance'
    BY <1>4 DEF HasContext, Live, Instance, Dropping, Entered, ContextsBalance, Kill, Idle
  <2>7. Elapsed'
    BY <1>4 DEF Live, Instance, Entered, Dropping, Elapsed, Kill, Idle
  <2> QED BY <2>1, <2>2, <2>3, <2>4, <2>5, <2>6, <2>7
<1>5. ASSUME NEW i \in Ids, TickInstance(i)
      PROVE  InstInv'
  <2>1. Types'
    <3>1. i \in Live /\ inst[i] \in Instance /\ tables[i] \in Layouts
      BY <1>5 DEF TickInstance, Registered, Present, Live
    <3>2. entered' \in Entered \cup {None} /\ due' \in [ids : SUBSET Ids, delta : Nat]
          /\ due'.ids \subseteq Live /\ elapsed' \in [Ids -> Int]
      BY <1>5, <3>1 DEF TickInstance, GpsTicked, Entered
    <3> QED BY <1>5, <3>1, <3>2 DEF TickInstance, Live
  <2>2. OneThing'
    BY <1>5 DEF Starting, Destroying, Leaving, Dropping, Entered, Switch, TickInstance, GpsTicked
  <2>3. Contexts'
    BY <1>5 DEF Live, Instance, Dropping, Entered, TickInstance, GpsTicked
  <2>4. Registered'
     BY <1>5 DEF Present, Leaving, Starting, Dropping, Entered, Switch, Live, StoreSizes,
       Registered, TickInstance, GpsTicked
  <2>5. DisplaysOwned'
    <3>1. dropping = None /\ entered = None
      BY <1>5 DEF TickInstance
    <3>2. inst' = inst /\ dropping' = dropping /\ (entered' = None \/ entered'.call = "loop")
      BY <1>5, <3>1 DEF TickInstance
    <3>3. \A j \in Ids : (Shown(j)' <=> Shown(j)) /\ (Around(j)' <=> Around(j))
      BY <3>1, <3>2 DEF Shown, Around, Leaving
    <3> QED BY <1>5, <3>2, <3>3, DisplaysKept DEF TickInstance
  <2>6. ContextsBalance'
     BY <1>5 DEF HasContext, Live, Instance, Dropping, Entered, ContextsBalance, TickInstance,
       GpsTicked
  <2>7. Elapsed'
    BY <1>5 DEF Live, Instance, Entered, Dropping, Elapsed, TickInstance, GpsTicked
  <2> QED BY <2>1, <2>2, <2>3, <2>4, <2>5, <2>6, <2>7
<1>6. ASSUME EnterDestroy
      PROVE  InstInv'
  <2> DEFINE i == dropping.id
  <2>1. dropping # None /\ i \in Ids /\ dropping.instance \in Instance /\ entered = None
    BY <1>6 DEF EnterDestroy, Dropping
  <2>2. /\ dropping' # None /\ dropping'.id = i /\ dropping'.instance.context = FALSE
        /\ dropping'.instance.shows = dropping.instance.shows
    <3>1. /\ Stopped(dropping.instance) \in Instance /\ Stopped(dropping.instance).context = FALSE
          /\ Stopped(dropping.instance).shows = dropping.instance.shows
      BY <2>1 DEF Stopped, Instance
    <3>2. dropping' = [id |-> i, instance |-> Stopped(dropping.instance)]
      BY <1>6, <2>1 DEF EnterDestroy, Dropping
    <3>3. dropping' \in Dropping
      BY <2>1, <3>1, <3>2 DEF Dropping
    <3> QED BY <3>1, <3>2, <3>3
  <2>3. entered' # None /\ entered' = [id |-> i, call |-> "destroy"]
    BY <1>6, <2>1 DEF EnterDestroy, Entered
  <2>4. Types'
    BY <1>6 DEF Live, StoreSizes, Instance, Dropping, Entered, Switch, EnterDestroy, Stopped
  <2>5. OneThing'
    <3>1. \A j \in Ids : ~Starting(j)' /\ (Destroying(j)' => Leaving(j)')
      BY <2>1, <2>2, <2>3 DEF Starting, Destroying, Leaving
    <3> QED BY <1>6, <2>1, <2>2, <2>3, <3>1 DEF EnterDestroy
  <2>6. Contexts'
    BY <1>6 DEF Live, Instance, Dropping, Entered, EnterDestroy, Stopped
  <2>7. Registered'
    <3>1. \A j \in Ids : Present(j)' <=> Present(j)
      BY <1>6, <2>1, <2>2, <2>3 DEF EnterDestroy, Present, Leaving, Starting
    <3> QED BY <1>6, <3>1 DEF EnterDestroy, Registered
  <2>8. DisplaysOwned'
    <3>1. \A j \in Ids : Leaving(j)' <=> Leaving(j)
      BY <2>1, <2>2 DEF Leaving
    <3>2. \A j \in Ids : Leaving(j) <=> Destroying(j)'
      BY <2>1, <2>3 DEF Leaving, Destroying
    <3>3. \A j \in Ids : Shown(j)' <=> Shown(j)
      BY <1>6, <2>2, <3>1, <3>2 DEF EnterDestroy, Shown
    <3>4. \A j \in Ids : Around(j)' <=> Around(j)
      BY <1>6, <3>1 DEF EnterDestroy, Around
    <3> QED BY <1>6, <3>3, <3>4, DisplaysKept DEF EnterDestroy
  <2>9. ContextsBalance'
     BY <1>6 DEF HasContext, Live, Instance, Dropping, Entered, ContextsBalance, EnterDestroy,
       Stopped
  <2>10. Elapsed'
    BY <1>6 DEF Live, Instance, Entered, Dropping, Elapsed, EnterDestroy, Stopped
  <2> QED BY <2>4, <2>5, <2>6, <2>7, <2>8, <2>9, <2>10
<1>7. ASSUME DestroyReturns
      PROVE  InstInv'
  <2>1. PICK i \in Ids : /\ i = entered.id /\ Destroying(i) /\ Leaving(i)
                          /\ inst[i] = None /\ ~dropping.instance.context
    BY <1>7 DEF Returned, DestroyReturns, Destroying, Leaving, Entered
  <2>2. Types'
    <3>1. displays' \in [Ids -> Nat]
      BY <1>7 DEF DestroyReturns, Destroyed
    <3> QED BY <1>7, <3>1 DEF Live, DestroyReturns, Returned, Entered
  <2>3. OneThing'
    BY <1>7 DEF Starting, Destroying, Leaving, Dropping, Entered, Switch, DestroyReturns, Returned
  <2>4. Contexts'
    BY <1>7 DEF Live, Instance, Dropping, Entered, DestroyReturns, Returned
  <2>5. Registered'
     BY <1>7 DEF Present, Leaving, Starting, Dropping, Entered, Switch, Live, StoreSizes,
       Registered, DestroyReturns, Returned
  <2>6. DisplaysOwned'
    <3>2. /\ \A j \in Ids : displays'[j] = IF exports /\ dropping.instance.shows /\ j = i
                                             /\ displays[j] > 0
                                          THEN displays[j] - 1 ELSE displays[j]
          /\ lost' = lost /\ library' = library /\ entered' = None
          /\ inst' = inst /\ dropping' = dropping
      BY <1>7, <2>1 DEF DestroyReturns, Destroyed
    <3>3. Shown(i) <=> dropping.instance.shows
      BY <2>1 DEF Shown
    <3>4. \A j \in Ids : Shown(j)' <=> j # i /\ Shown(j)
      BY <2>1, <3>2 DEF Shown, Leaving, Destroying
    <3>5. InContexts'
      BY <2>1, <3>2, <3>3, <3>4 DEF InContexts, DisplaysOwned
    <3>6. \A j \in Ids : /\ displays'[j] \in Nat /\ displays[j] \in Nat /\ displays'[j] <= displays[j]
                        /\ (Around(j)' <=> Around(j))
      BY <3>2 DEF Around, Leaving
    <3>7. InGlobal'
      <4>1. /\ lost' = lost /\ libDisplay' = libDisplay /\ entered' = None
            /\ contextful' = contextful /\ exports' = exports
        BY <1>7 DEF DestroyReturns
      <4>2. ~contextful /\ exports => \A j \in Ids : displays[j] <= 1
                                         /\ (displays[j] > 0 => libDisplay = j /\ Around(j))
        BY DEF DisplaysOwned, InGlobal
      <4>3. ~contextful /\ exports => \A j \in Ids : displays'[j] <= 1
                                         /\ (displays'[j] > 0 => libDisplay = j /\ Around(j)')
        BY <3>6, <4>2
      <4> QED BY <4>1, <4>3 DEF DisplaysOwned, InGlobal
    <3> QED BY <3>5, <3>7 DEF DisplaysOwned
  <2>7. ContextsBalance'
    <3>1. \A j \in Ids : entered = [id |-> j, call |-> "destroy"] <=> j = i
      BY <2>1, DestroyEntry DEF Destroying
    <3>2. entered' = None /\ inst' = inst /\ dropping' = dropping
      BY <1>7 DEF DestroyReturns
    <3>3. \A j \in Ids : entered' # [id |-> j, call |-> "destroy"]
      BY <3>2, DestroyEntry
    <3>4. HasContext(i) /\ ~HasContext(i)'
      BY <2>1, <3>1, <3>2, <3>3 DEF HasContext, Live, Leaving
    <3>5. \A j \in Ids \ {i} : HasContext(j)' <=> HasContext(j)
      <4> TAKE j \in Ids \ {i}
      <4>1. entered # [id |-> j, call |-> "destroy"] /\ entered' # [id |-> j, call |-> "destroy"]
        BY <3>1, <3>3
      <4> QED BY <3>2, <4>1, ZenonT(20) DEF HasContext, Live
    <3> QED BY <1>7, <2>1, <3>4, <3>5 DEF DestroyReturns, ContextsBalance
  <2>8. Elapsed'
    BY <1>7 DEF Live, Instance, Entered, Dropping, Elapsed, DestroyReturns, Returned
  <2> QED BY <2>2, <2>3, <2>4, <2>5, <2>6, <2>7, <2>8
<1>8. ASSUME Teardown
      PROVE  InstInv'
  <2>1. Types'
    <3>1. displays' \in [Ids -> Nat]
      BY <1>8 DEF Teardown, Destroyed
    <3>2. /\ tables' \in [Ids -> Layouts \cup {None}] /\ stores' \in [Ids -> StoreSizes \cup {None}]
          /\ buzzers' \subseteq Ids /\ disturbed' \subseteq Ids
      BY <1>8 DEF Teardown, Deregister
    <3> QED BY <1>8, <3>1, <3>2 DEF Live, Teardown
  <2>2. OneThing'
    BY <1>8 DEF Starting, Destroying, Leaving, Dropping, Entered, Switch, Teardown
  <2>3. Contexts'
    BY <1>8 DEF Live, Instance, Dropping, Entered, Teardown
  <2>4. Registered'
     BY <1>8 DEF Present, Leaving, Starting, Dropping, Entered, Switch, Live, StoreSizes,
       Registered, Teardown, Deregister
  <2>5. DisplaysOwned'
    <3> DEFINE i == dropping.id  owner == DisplayOf(dropping.id, dropping.instance)
    <3>1. /\ dropping' = None /\ inst' = inst /\ library' = library /\ lost' = lost
          /\ entered = None /\ entered' = None /\ ~dropping.instance.context
          /\ libDisplay' = IF Live = {} THEN None ELSE libDisplay
      BY <1>8 DEF Teardown
    <3>2. \A j \in Ids : displays'[j] = IF j = owner /\ displays[j] > 0 THEN displays[j] - 1
                                        ELSE displays[j]
      BY <1>8 DEF Teardown, Destroyed
    <3>3. \A j \in Ids : Shown(j)' <=> Shown(j)
      BY <3>1 DEF Shown, Leaving, Destroying
    <3>4. contextful \/ ~exports => owner = None
      BY <3>1 DEF DisplayOf
    <3>5. InContexts'
      BY <3>1, <3>2, <3>3, <3>4, InstancesAssumption DEF InContexts, DisplaysOwned
    <3>6. ~contextful /\ exports => owner = libDisplay
      BY DEF DisplayOf
    <3>7. ~contextful /\ exports => \A j \in Ids : displays'[j] = 0
      BY <3>2, <3>6 DEF InGlobal, DisplaysOwned
    <3>8. InGlobal'
      BY <3>1, <3>7 DEF InGlobal, DisplaysOwned
    <3> QED BY <3>5, <3>8 DEF DisplaysOwned
  <2>6. ContextsBalance'
     BY <1>8 DEF HasContext, Live, Instance, Dropping, Entered, ContextsBalance, Teardown
  <2>7. Elapsed'
    BY <1>8 DEF Live, Instance, Entered, Dropping, Elapsed, Teardown
  <2> QED BY <2>1, <2>2, <2>3, <2>4, <2>5, <2>6, <2>7
<1>9. ASSUME NEW now \in Int, TickAll(now)
      PROVE  InstInv'
  <2>1. Types'
    BY <1>9 DEF Live, StoreSizes, Instance, Dropping, Entered, Switch, TickAll, AdvanceTo, Idle
  <2>2. OneThing'
    BY <1>9 DEF Starting, Destroying, Leaving, Dropping, Entered, Switch, TickAll, AdvanceTo, Idle
  <2>3. Contexts'
    BY <1>9 DEF Live, Instance, Dropping, Entered, TickAll, AdvanceTo, Idle
  <2>4. Registered'
     BY <1>9 DEF Present, Leaving, Starting, Dropping, Entered, Switch, Live, StoreSizes,
       Registered, TickAll, AdvanceTo, Idle
  <2>5. DisplaysOwned'
    <3>1. \A j \in Ids : (Shown(j)' <=> Shown(j)) /\ (Around(j)' <=> Around(j))
      BY <1>9 DEF TickAll, Shown, Around, Leaving, Destroying
    <3> QED BY <1>9, <3>1, DisplaysKept DEF TickAll, Idle
  <2>6. ContextsBalance'
     BY <1>9 DEF HasContext, Live, Instance, Dropping, Entered, ContextsBalance, TickAll,
       AdvanceTo, Idle
  <2>7. Elapsed'
    BY <1>9 DEF Live, Instance, Entered, Dropping, Elapsed, TickAll, AdvanceTo, Idle
  <2> QED BY <2>1, <2>2, <2>3, <2>4, <2>5, <2>6, <2>7
<1>10. ASSUME LoopReturns
      PROVE  InstInv'
  <2>1. entered # None /\ entered.call = "loop" /\ entered.id \in Live
    BY <1>10 DEF LoopReturns, Returned
  <2>2. \A j \in Ids : inst'[j] # None <=> inst[j] # None
    BY <1>10, <2>1 DEF LoopReturns, Live, Instance
  <2>3. Types'
     BY <1>10 DEF Live, StoreSizes, Instance, Dropping, Entered, Switch, LoopReturns, Returned,
       GpsTicked
  <2>4. OneThing'
     BY <1>10 DEF Starting, Destroying, Leaving, Dropping, Entered, Switch, LoopReturns, Returned,
       GpsTicked
  <2>5. Contexts'
    BY <1>10 DEF Live, Instance, Dropping, Entered, LoopReturns, Returned, GpsTicked
  <2>6. Registered'
    <3>1. \A j \in Ids : Present(j)' <=> Present(j)
      BY <1>10, <2>1, <2>2 DEF LoopReturns, Present, Leaving, Starting
    <3> QED BY <1>10, <3>1 DEF LoopReturns, Registered
  <2>7. DisplaysOwned'
    <3>1. dropping = None
      BY <2>1
    <3>2. \A j \in Ids : inst[j] # None => inst'[j].shows = inst[j].shows
      BY <1>10, <2>1 DEF LoopReturns, Live, Instance
    <3>3. \A j \in Ids : (Shown(j)' <=> Shown(j)) /\ (Around(j)' <=> Around(j))
      BY <1>10, <2>2, <3>1, <3>2 DEF LoopReturns, Shown, Around, Leaving
    <3> QED BY <1>10, <3>3, DisplaysKept DEF LoopReturns
  <2>8. ContextsBalance'
     BY <1>10 DEF HasContext, Live, Instance, Dropping, Entered, ContextsBalance, LoopReturns,
       Returned, GpsTicked
  <2>9. Elapsed'
    BY <1>10 DEF Live, Instance, Entered, Dropping, Elapsed, LoopReturns, Returned, GpsTicked
  <2> QED BY <2>3, <2>4, <2>5, <2>6, <2>7, <2>8, <2>9
<1>11. ASSUME NEW c \in Callers, NEW i \in Ids, NEW table \in Layouts, SetLauncherMode(c, i, table)
      PROVE  InstInv'
  <2>1. Types'
    <3>1. stores' \in [Ids -> StoreSizes \cup {None}] /\ pending' \in [Callers -> Switch \cup {None}]
          /\ strays' \subseteq Ids /\ disturbed' \subseteq Ids
      BY <1>11, StoreSizeType DEF SetLauncherMode, Switch, Disturbed
    <3> QED BY <1>11, <3>1 DEF Live, SetLauncherMode
  <2>2. OneThing'
     BY <1>11 DEF Starting, Destroying, Leaving, Dropping, Entered, Switch, SetLauncherMode,
       MayCall
  <2>3. Contexts'
    BY <1>11 DEF Live, Instance, Dropping, Entered, SetLauncherMode, MayCall
  <2>4. Registered'
     BY <1>11 DEF Present, Leaving, Starting, Dropping, Entered, Switch, Live, StoreSizes,
       Registered, SetLauncherMode, MayCall
  <2>5. DisplaysOwned'
    BY <1>11, BridgeLeavesDisplays DEF SetLauncherMode
  <2>6. ContextsBalance'
     BY <1>11 DEF HasContext, Live, Instance, Dropping, Entered, ContextsBalance, SetLauncherMode,
       MayCall
  <2>7. Elapsed'
    BY <1>11 DEF Live, Instance, Entered, Dropping, Elapsed, SetLauncherMode, MayCall
  <2> QED BY <2>1, <2>2, <2>3, <2>4, <2>5, <2>6, <2>7
<1>12. ASSUME NEW c \in Callers, RegisterTable(c)
      PROVE  InstInv'
  <2>1. Types'
    BY <1>12 DEF Live, StoreSizes, Instance, Dropping, Entered, Switch, RegisterTable
  <2>2. OneThing'
    BY <1>12 DEF Starting, Destroying, Leaving, Dropping, Entered, Switch, RegisterTable
  <2>3. Contexts'
    BY <1>12 DEF Live, Instance, Dropping, Entered, RegisterTable
  <2>4. Registered'
    <3> DEFINE i == pending[c].id
    <3>1. i \in Ids /\ pending[c].table \in Layouts
      BY <1>12 DEF RegisterTable, Switch
    <3>2. \A j \in Ids : Present(j)' <=> Present(j)
      BY <1>12 DEF RegisterTable, Present, Leaving, Starting
    <3>3. \A j \in Ids : tables'[j] = IF j = i THEN pending[c].table ELSE tables[j]
      BY <1>12 DEF RegisterTable
    <3>4. i \in strays' \/ Present(i)
      <4>1. entered # None /\ entered.id = i => Present(i) \/ entered.call = "loop"
        BY <3>1 DEF Starting, Destroying, Present, Entered
      <4>2. entered # None /\ entered.call = "loop" => entered.id \in Live
        OBVIOUS
      <4> QED BY <1>12, <3>1, <4>1, <4>2 DEF RegisterTable, Present, Live
    <3>5. stores' = stores /\ buzzers' = buzzers /\ strays \subseteq strays'
      BY <1>12 DEF RegisterTable
    <3> QED BY <3>1, <3>2, <3>3, <3>4, <3>5 DEF Registered
  <2>5. DisplaysOwned'
    BY <1>12, BridgeLeavesDisplays DEF RegisterTable
  <2>6. ContextsBalance'
    BY <1>12 DEF HasContext, Live, Instance, Dropping, Entered, ContextsBalance, RegisterTable
  <2>7. Elapsed'
    BY <1>12 DEF Live, Instance, Entered, Dropping, Elapsed, RegisterTable
  <2> QED BY <2>1, <2>2, <2>3, <2>4, <2>5, <2>6, <2>7
<1>13. CASE UNCHANGED instVars
  <2>1. DisplaysOwned'
    BY <1>13, BridgeLeavesDisplays DEF instVars
  <2> QED BY <1>13, <2>1 DEF Registered, ContextsBalance, Elapsed, HasContext, Live, Present,
       Leaving, Starting, Destroying, instVars
<1>14. ASSUME NEW c \in Callers, NEW i \in Ids, NEW size \in StoreSizes, NvsInit(c, i, size)
      PROVE  InstInv'
  <2>1. Types'
    BY <1>14 DEF Live, NvsInit, MayCall
  <2>2. OneThing'
    BY <1>14 DEF Starting, Destroying, Leaving, NvsInit, MayCall
  <2>3. Contexts'
    BY <1>14 DEF Live, NvsInit, MayCall
  <2>4. Registered'
    <3>1. \A j \in Ids : Present(j)' <=> Present(j)
      BY <1>14 DEF NvsInit, Present, Leaving, Starting
    <3>2. /\ tables' = tables /\ buzzers' = buzzers
          /\ \A j \in Ids : stores'[j] = IF j = i THEN size ELSE stores[j]
          /\ strays' = IF tables[i] = None THEN strays \cup {i} ELSE strays
      BY <1>14 DEF NvsInit
    <3> QED BY <3>1, <3>2 DEF Registered
  <2>5. DisplaysOwned'
    BY <1>14, BridgeLeavesDisplays DEF NvsInit
  <2>6. ContextsBalance'
    BY <1>14 DEF HasContext, Live, ContextsBalance, NvsInit, MayCall
  <2>7. Elapsed'
    BY <1>14 DEF Live, Elapsed, NvsInit, MayCall
  <2> QED BY <2>1, <2>2, <2>3, <2>4, <2>5, <2>6, <2>7
<1>15. ASSUME NEW c \in Callers, NEW i \in Ids, NvsDestroy(c, i)
      PROVE  InstInv'
  <2>1. Types'
    BY <1>15 DEF Live, NvsDestroy, MayCall
  <2>2. OneThing'
    BY <1>15 DEF Starting, Destroying, Leaving, NvsDestroy, MayCall
  <2>3. Contexts'
    BY <1>15 DEF Live, NvsDestroy, MayCall
  <2>4. Registered'
    <3>1. \A j \in Ids : Present(j)' <=> Present(j)
      BY <1>15 DEF NvsDestroy, Present, Leaving, Starting
    <3>2. /\ tables' = tables /\ buzzers' = buzzers
          /\ \A j \in Ids : stores'[j] = IF j = i THEN None ELSE stores[j]
          /\ strays' = IF tables[i] = None THEN strays \ {i} ELSE strays
      BY <1>15 DEF NvsDestroy
    <3> QED BY <3>1, <3>2 DEF Registered
  <2>5. DisplaysOwned'
    BY <1>15, BridgeLeavesDisplays DEF NvsDestroy
  <2>6. ContextsBalance'
    BY <1>15 DEF HasContext, Live, ContextsBalance, NvsDestroy, MayCall
  <2>7. Elapsed'
    BY <1>15 DEF Live, Elapsed, NvsDestroy, MayCall
  <2> QED BY <2>1, <2>2, <2>3, <2>4, <2>5, <2>6, <2>7
<1>16. \A d \in Deltas : clock + d \in Int /\ clock - d \in Int
  OBVIOUS
<1> QED
  BY <1>1, <1>2, <1>3, <1>4, <1>5, <1>6, <1>7, <1>8, <1>9, <1>10, <1>11, <1>12, <1>13, <1>14,
     <1>15, <1>16
  DEF Next

(* The types, and every part of the invariant, hold of every behaviour.   *)
THEOREM InstancesInvariant == Spec => []InstInv
BY InstInit, InstStep, PTL DEF Spec

(* Types: what the manager keeps is what its parts are declared to be, and *)
(* a frame is at work on instances that are there.                         *)
THEOREM InstancesTypes == Spec => []InstTypeOK
<1>1. InstInv => InstTypeOK
  BY DEF InstInv, Types
<1> QED BY InstancesInvariant, <1>1, PTL

(* Every context that firmware made is destroyed once, when its instance   *)
(* goes: stop takes the context out before it calls the hook, so that the  *)
(* stop of a kill, of the registry and of Drop add up to one.              *)
THEOREM ContextsAreBalanced == Spec => []ContextsBalance
<1>1. InstInv => ContextsBalance
  BY DEF InstInv
<1> QED BY InstancesInvariant, <1>1, PTL

(* The teardown leaves nothing under the id of an instance that was        *)
(* killed, refused or failed to start, with any number of threads that     *)
(* register stores and tables meanwhile, but what they put there; and no   *)
(* display but those that the host was never told of, which it leaves all. *)
THEOREM NothingIsLeftBehind == Spec => []NothingOutlivesItsInstance
<1>1. InstInv => NothingOutlivesItsInstance
  <2> SUFFICES ASSUME InstInv, Idle, NEW i \in Ids \ Live
               PROVE  /\ i \notin strays => tables[i] = None /\ stores[i] = None /\ i \notin buzzers
                      /\ displays[i] = lost[i]
    BY DEF NothingOutlivesItsInstance
  <2>1. ~Present(i) /\ ~Around(i) /\ ~Shown(i)
    BY DEF Idle, Present, Around, Shown, Leaving, Starting, Live
  <2>2. i \notin strays => tables[i] = None /\ stores[i] = None /\ i \notin buzzers
    BY <2>1 DEF InstInv, Registered
  <2>3. displays[i] \in Nat /\ lost[i] \in Nat
    BY DEF InstInv, Types, InstTypeOK
  <2>4. displays[i] = lost[i]
    BY <2>1, <2>3 DEF InstInv, DisplaysOwned, InContexts, InGlobal
  <2> QED BY <2>2, <2>4
<1> QED BY InstancesInvariant, <1>1, PTL

(* A receiver has been given all of the time since its instance joined,    *)
(* and none of it twice, whichever way the clock was asked to move.        *)
THEOREM DeltasAreComplete == Spec => []DeltasAddUp
<1>1. InstInv => DeltasAddUp
  BY DEF InstInv, Types, DeltasAddUp, Elapsed, Idle, Live
<1> QED BY InstancesInvariant, <1>1, PTL

-----------------------------------------------------------------------------
(* The geometry: a store is changed by calls that also write its table, or *)
(* do not; `disturbed' has those that were last set apart from their table. *)

(* Any other store has the size its table gives it, or that of the one     *)
(* switch that is about to write the table.                                *)
Fits(i) ==
  stores[i] # None =>
    /\ \A c, d \in Switching(i) : c = d
    /\ \A c \in Switching(i) : stores[i] = NvsSize(pending[c].table)
    /\ Switching(i) = {} => tables[i] # None /\ stores[i] = NvsSize(tables[i])
StoresFit == \A i \in Ids \ disturbed : Fits(i)

(* A step of any thread leaves each store that is not disturbed fitting.   *)
LEMMA FitStep ==
  ASSUME InstInv, StoresFit, [Next]_instVars
  PROVE  StoresFit'
<1> USE NoneAssumption DEF InstInv, Types, InstTypeOK, registries
<1> SUFFICES ASSUME NEW j \in Ids \ disturbed', stores'[j] # None
             PROVE  Fits(j)'
  BY DEF StoresFit, Fits
<1>1. ASSUME NEW i \in Ids, NEW table \in Layouts, Spawn(i, table)
      PROVE  Fits(j)'
  <2>1. /\ pending' = pending
        /\ stores' = [stores EXCEPT ![i] = NvsSize(table)] /\ tables' = [tables EXCEPT ![i] = table]
        /\ disturbed' = Disturbed(i, Switching(i) # {})
    BY <1>1 DEF Spawn, CreatePeripherals
  <2> QED BY <2>1 DEF StoresFit, Fits, Switching, Disturbed
<1>2. CASE Teardown
  <2>1. /\ pending' = pending
        /\ stores' = [stores EXCEPT ![dropping.id] = None]
        /\ tables' = [tables EXCEPT ![dropping.id] = None]
        /\ disturbed' = disturbed \ {dropping.id}
    BY <1>2 DEF Teardown, Deregister
  <2> QED BY <1>2, <2>1 DEF StoresFit, Fits, Switching
<1>3. ASSUME NEW c \in Callers, NEW i \in Ids, NEW table \in Layouts, SetLauncherMode(c, i, table)
      PROVE  Fits(j)'
  <2> DEFINE switch == [id |-> i, table |-> table]
  <2>1. /\ tables' = tables /\ stores' = [stores EXCEPT ![i] = NvsSize(table)]
        /\ disturbed' = Disturbed(i, Switching(i) # {})
    BY <1>3 DEF SetLauncherMode
  <2>2. /\ switch # None /\ switch.id = i /\ switch.table = table
        /\ pending[c] = None
        /\ \A d \in Callers : pending'[d] = IF d = c THEN switch ELSE pending[d]
    BY <1>3 DEF SetLauncherMode, MayCall, Switch
  <2>3. Switching(j)' = IF j = i THEN Switching(i) \cup {c} ELSE Switching(j)
    BY <2>2 DEF Switching
  <2>4. CASE j = i
    BY <2>1, <2>2, <2>3, <2>4 DEF Fits, Disturbed
  <2>5. CASE j # i
    <3>1. j \notin disturbed /\ stores[j] # None
      BY <2>1, <2>5 DEF Disturbed
    <3>2. \A d \in Switching(j) : pending'[d] = pending[d]
      BY <2>2 DEF Switching
    <3> QED BY <2>1, <2>3, <2>5, <3>1, <3>2 DEF StoresFit, Fits
  <2> QED BY <2>4, <2>5
<1>4. ASSUME NEW c \in Callers, RegisterTable(c)
      PROVE  Fits(j)'
  <2> DEFINE i == pending[c].id
  <2>1. /\ stores' = stores /\ disturbed' = disturbed
        /\ tables' = [tables EXCEPT ![i] = pending[c].table]
        /\ pending[c] # None /\ i \in Ids /\ pending[c].table \in Layouts
        /\ \A d \in Callers : pending'[d] = IF d = c THEN None ELSE pending[d]
    BY <1>4 DEF RegisterTable, Switch
  <2>2. Switching(j)' = Switching(j) \ {c} /\ (c \in Switching(j) <=> j = i)
    BY <2>1 DEF Switching
  <2>3. Fits(j) /\ stores[j] # None
    BY <2>1 DEF StoresFit
  <2>4. \A d \in Switching(j)' : pending'[d] = pending[d]
    BY <2>1, <2>2 DEF Switching
  <2>5. CASE j = i
    <3>1. Switching(j)' = {}
      BY <2>2, <2>3, <2>5 DEF Fits
    <3> QED BY <2>1, <2>2, <2>3, <2>5, <3>1 DEF Fits
  <2>6. CASE j # i
    BY <2>1, <2>2, <2>3, <2>4, <2>6 DEF Fits
  <2> QED BY <2>5, <2>6
<1>5. ASSUME NEW c \in Callers, NEW i \in Ids, NEW size \in StoreSizes, NvsInit(c, i, size)
      PROVE  Fits(j)'
  BY <1>5 DEF NvsInit, StoresFit, Fits, Switching
<1>6. ASSUME NEW c \in Callers, NEW i \in Ids, NvsDestroy(c, i)
      PROVE  Fits(j)'
  BY <1>6 DEF NvsDestroy, StoresFit, Fits, Switching
<1>7. CASE UNCHANGED <<tables, stores, pending, disturbed>>
  BY <1>7 DEF StoresFit, Fits, Switching
<1> QED
  BY <1>1, <1>2, <1>3, <1>4, <1>5, <1>6, <1>7
  DEF Next, StartReturns, StartFails, Kill, TickInstance, EnterDestroy, DestroyReturns, TickAll,
      LoopReturns, instVars

(* Threads switch launcher modes, register stores and drop them as they    *)
(* like: outside of a switch, a store that was last set with its table has *)
(* the size of its partition, and the two signals by which firmware finds  *)
(* the launcher agree.                                                     *)
THEOREM GeometryIsCoherent == Spec => []CoherentGeometry
<1>1. Init => StoresFit
  BY DEF Init, StoresFit, Fits
<1>2. InstInv /\ StoresFit /\ [Next]_instVars => StoresFit'
  BY FitStep
<1>3. InstInv /\ StoresFit => CoherentGeometry
  <2> SUFFICES ASSUME InstInv, StoresFit, NEW i \in Ids \ disturbed, Switching(i) = {},
                      stores[i] # None
               PROVE  LET nvs == FindFirstForInstance(i, "nvs") IN
                      /\ tables[i] # None
                      /\ stores[i] = nvs.size
                      /\ nvs.at + nvs.size = FindFirstForInstance(i, "otadata").at
                      /\ UnderLauncher(i) <=> FindFirstForInstance(i, "ota_0") = None
    BY DEF CoherentGeometry, Coherent
  <2>1. tables[i] \in Layouts /\ tables[i] # None /\ stores[i] = NvsSize(tables[i])
    BY DEF StoresFit, Fits, InstInv, Types, InstTypeOK
  <2> QED BY <2>1, LayoutsCohere DEF FindFirstForInstance, PartitionResult, UnderLauncher
<1> QED BY <1>1, <1>2, <1>3, InstancesInvariant, PTL DEF Spec

-----------------------------------------------------------------------------
(* A contextful instance that goes, or fails to start, takes no display    *)
(* but its own with it.                                                    *)
DropsTouchNoOther ==
  [][contextful /\ dropping # None =>
       \A i \in Ids : displays'[i] < displays[i] => i = dropping.id]_instVars

(* A drop inside its context destroys the displays of its instance only. *)
THEOREM ContextfulDropsTouchNoOther == Spec => DropsTouchNoOther
<1>1. InstInv /\ [Next]_instVars /\ contextful /\ dropping # None
        => \A i \in Ids : displays'[i] < displays[i] => i = dropping.id
  <2> SUFFICES ASSUME InstInv, [Next]_instVars, contextful, dropping # None,
                      NEW i \in Ids, displays'[i] < displays[i]
               PROVE  i = dropping.id
    OBVIOUS
  <2> USE DEF InstInv, Types, InstTypeOK
  <2>1. CASE DestroyReturns
    <3>1. entered \in Entered /\ entered.call = "destroy" /\ entered.id = dropping.id
      BY <2>1 DEF DestroyReturns, Returned, Destroying, Leaving, OneThing, Entered
    <3>2. i # entered.id => displays'[i] = displays[i]
      BY <2>1 DEF DestroyReturns, Destroyed
    <3> QED BY <3>1, <3>2
  <2>2. CASE Teardown
    <3>1. displays'[i] = displays[i]
      BY <2>2, InstancesAssumption DEF Teardown, Destroyed, DisplayOf
    <3> QED BY <3>1
  <2>3. displays' = displays \/ DestroyReturns \/ Teardown
    <3>1. dropping = None \/ ~Returned \/ entered.call # "start"
      BY DEF Returned, OneThing, Starting, Entered
    <3> QED BY <3>1 DEF Next, Spawn, StartReturns, StartFails, Kill, TickInstance, EnterDestroy,
         TickAll, LoopReturns, NvsInit, NvsDestroy, SetLauncherMode, RegisterTable, instVars, screens
  <2> QED BY <2>1, <2>2, <2>3
<1> QED BY <1>1, InstancesInvariant, PTL DEF Spec, DropsTouchNoOther
=============================================================================
