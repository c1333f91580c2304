-------------------------------- MODULE Nvs --------------------------------
(***************************************************************************)
(* The non-volatile storage of one instance: VirtualNvs and its registry   *)
(* (core/board/src/nvs.rs) as the C calls use them                         *)
(* (core/bridge/src/flash_ffi.rs, and the touch calibration of ffi.rs).    *)
(*                                                                         *)
(* A change is made in memory, written to a temporary file, renamed over   *)
(* the image on disk and made private; each of these is a step, between    *)
(* which the process may die and other threads may call.  An image is the  *)
(* value of each key of one namespace, and whether the namespace exists.   *)
(* The bytes of the JSON are abstracted to a weight per key and value.     *)
(* Reads change nothing that lasts and are left out.                       *)
(***************************************************************************)
EXTENDS Naturals, FiniteSets, FiniteSetsExt

CONSTANTS
  Threads, Keys, Values,
  Weight(_),      \* bytes a value takes
  Sizes,          \* partition sizes
  Pids,           \* process ids the system may give
  MaxCalls, MaxCrashes, MaxFaults,  \* bounds
  Kinds,          \* the calls that are made
  Faults,         \* host calls that may fail: "write", "rename", "private"
  None            \* no value

Objects == 1..MaxCalls  \* VirtualNvs values; a call makes at most one

ASSUME NvsAssumption ==
  /\ None \notin Threads \cup Values
  /\ \A v \in Values : Weight(v) \in Nat
  /\ Sizes \subseteq Nat \ {0} /\ Sizes # {} /\ Pids # {}
  /\ {MaxCalls, MaxCrashes, MaxFaults} \subseteq Nat

VARIABLES
  disk,           \* the image in the backing file
  temps,          \* the temporary files in its directory
  pid, sequence,  \* of the running process: TEMP_FILE_SEQUENCE
  registry,       \* NVS_INSTANCES: the object of the instance, 0 if none
  made,           \* objects made by this process
  memory,         \* memory[o]: VirtualNvs.persisted
  size,           \* size[o]: VirtualNvs.partition_size
  owner,          \* owner[o]: who holds the object's mutex
  call,           \* call[t]: the call thread t is in
  acked,          \* history: the value of each key the last successful call gave it
  stale,          \* history: the object was destroyed under a call of this process
  calls, crashes, faults    \* counted against the bounds

objectVars == <<registry, made, memory, size, owner>>
processVars == <<pid, sequence, crashes>>
nvsVars == <<disk, temps, processVars, objectVars, call, acked, stale, calls, faults>>

Image == [exists : BOOLEAN, at : [Keys -> Values \cup {None}]]
EmptyImage == [exists |-> FALSE, at |-> [k \in Keys |-> None]]

NoCall == [at |-> "idle", kind |-> "none", key |-> None, value |-> None,
           object |-> 0, previous |-> EmptyImage, phase |-> "begin",
           temp |-> <<None, 0>>, ok |-> FALSE]

NvsInit ==
  /\ disk = EmptyImage /\ temps = {}
  /\ pid \in Pids /\ sequence = 1
  /\ registry = 0 /\ made = 0
  /\ memory = [o \in Objects |-> EmptyImage]
  /\ size \in {[o \in Objects |-> s] : s \in Sizes}
  /\ owner = [o \in Objects |-> None]
  /\ call = [t \in Threads |-> NoCall]
  /\ acked = [k \in Keys |-> None] /\ stale = FALSE
  /\ calls = 0 /\ crashes = 0 /\ faults = 0

-----------------------------------------------------------------------------
(* Images. *)

With(image, k, v) == [exists |-> TRUE, at |-> [image.at EXCEPT ![k] = v]]

WeightAt(image, k) == IF image.at[k] = None THEN 0 ELSE 1 + Weight(image.at[k])
EncodedSize(image) ==
  MapThenSumSet(LAMBDA k : WeightAt(image, k), Keys) + IF image.exists THEN 1 ELSE 0

FitsPartition(o, image) == EncodedSize(image) <= size[o]

-----------------------------------------------------------------------------
(* Calls. *)

Begin(t, c) ==
  /\ call[t].at = "idle"
  /\ calls < MaxCalls
  /\ c.kind \in Kinds
  /\ calls' = calls + 1
  /\ call' = [call EXCEPT ![t] = c]
  /\ UNCHANGED <<disk, temps, processVars, objectVars, acked, stale, faults>>

(* A put, a removal, or save_calibration, which is a put that reports      *)
(* success whatever became of the value.                                   *)
MutationCall(kind, k, v) ==
  [NoCall EXCEPT !.at = "find", !.kind = kind, !.key = k, !.value = v]
MutationCalls ==
  {MutationCall(kind, k, v) : kind \in {"put", "save"}, k \in Keys, v \in Values}
  \cup {MutationCall("remove", k, None) : k \in Keys}

(* meshemu_nvs_init: a known instance changes its geometry, an unknown one *)
(* is loaded from disk.                                                    *)
RegisterNvs(t, s) ==
  /\ call[t].at = "idle" /\ calls < MaxCalls /\ "init" \in Kinds
  /\ calls' = calls + 1
  /\ IF registry # 0
     THEN /\ owner[registry] = None
          /\ size' = [size EXCEPT ![registry] = s]
          /\ UNCHANGED <<registry, made, memory>>
     ELSE /\ made' = made + 1
          /\ registry' = made + 1
          /\ memory' = [memory EXCEPT ![made + 1] = disk]
          /\ size' = [size EXCEPT ![made + 1] = s]
  /\ UNCHANGED <<disk, temps, processVars, owner, call, acked, stale, faults>>

(* meshemu_nvs_destroy: only the registry forgets the object. *)
RemoveNvs(t) ==
  /\ call[t].at = "idle" /\ calls < MaxCalls /\ "destroy" \in Kinds
  /\ registry # 0
  /\ calls' = calls + 1
  /\ registry' = 0
  /\ stale' = (stale \/ \E u \in Threads : call[u].object = registry)
  /\ UNCHANGED <<disk, temps, processVars, made, memory, size, owner, call, acked, faults>>

-----------------------------------------------------------------------------
(* The steps of a mutation. *)

At(t, step) == call[t].at = step
Object(t) == call[t].object
Moves(t, step) == call' = [call EXCEPT ![t].at = step]

FindNvs(t) ==
  /\ At(t, "find")
  /\ call' = [call EXCEPT ![t].object = registry,
                          ![t].at = IF registry = 0 THEN "refused" ELSE "lock"]
  /\ UNCHANGED <<disk, temps, processVars, objectVars, acked, stale, calls, faults>>

LockNvs(t) ==
  /\ At(t, "lock")
  /\ owner[Object(t)] = None
  /\ owner' = [owner EXCEPT ![Object(t)] = t]
  /\ Moves(t, "apply")
  /\ UNCHANGED <<disk, temps, processVars, registry, made, memory, size, acked, stale, calls, faults>>

(* What the change makes of the memory: begin makes the namespace, which   *)
(* is a change of its own, then comes the call's change.                   *)
Changed(t) ==
  LET image == memory[Object(t)] IN
  IF call[t].phase = "begin" THEN [image EXCEPT !.exists = TRUE]
  ELSE With(image, call[t].key, call[t].value)

(* A put must fit before it is persisted, a removal (persist tests it too) *)
(* while it is; both are refused before the temporary file is made.        *)
Apply(t) ==
  /\ At(t, "apply")
  /\ LET o == Object(t)
         skip == IF call[t].phase = "begin" THEN memory[o].exists
                 ELSE call[t].kind = "remove" /\ memory[o].at[call[t].key] = None
     IN IF skip
        THEN /\ call' = [call EXCEPT ![t].at = IF call[t].phase = "begin" THEN "apply" ELSE "refused",
                                     ![t].phase = "change"]
             /\ UNCHANGED memory
        ELSE IF ~FitsPartition(o, Changed(t))
        THEN Moves(t, "refused") /\ UNCHANGED memory
        ELSE /\ memory' = [memory EXCEPT ![o] = Changed(t)]
             /\ call' = [call EXCEPT ![t].at = "create", ![t].previous = memory[o]]
  /\ UNCHANGED <<disk, temps, processVars, registry, made, size, owner, acked, stale, calls, faults>>

(* persist: a temporary file that exists already is an error. *)
CreateTempInPlace(t) ==  \* mutant: the image itself is truncated
  /\ At(t, "create")
  /\ disk' = EmptyImage
  /\ Moves(t, "rename")
  /\ UNCHANGED <<temps, processVars, objectVars, acked, stale, calls, faults>>
CreateTemp(t) ==
  /\ At(t, "create")
  /\ sequence' = sequence + 1
  /\ LET temp == <<pid, sequence>> IN
     IF temp \in temps THEN Moves(t, "rollback") /\ UNCHANGED temps
     ELSE /\ temps' = temps \cup {temp}
          /\ call' = [call EXCEPT ![t].at = "rename", ![t].temp = temp]
  /\ UNCHANGED <<disk, pid, crashes, objectVars, acked, stale, calls, faults>>

RenameTemp(t) ==
  /\ At(t, "rename")
  /\ disk' = memory[Object(t)]
  /\ temps' = temps \ {call[t].temp}
  /\ Moves(t, "private")
  /\ UNCHANGED <<processVars, objectVars, acked, stale, calls, faults>>

(* The image is made private; the namespace is in place, or the call done. *)
SetPrivateFile(t) ==
  /\ At(t, "private")
  /\ call' = [call EXCEPT ![t].at = IF call[t].phase = "begin" THEN "apply" ELSE "done",
                          ![t].phase = "change"]
  /\ UNCHANGED <<disk, temps, processVars, objectVars, acked, stale, calls, faults>>

(* The host refuses one of the three.  A temporary file that could not be  *)
(* written stays, one that could not be renamed is removed.                *)
HostFault(t, fault) ==
  /\ fault \in Faults /\ faults < MaxFaults
  /\ At(t, IF fault = "private" THEN "private" ELSE "rename")
  /\ faults' = faults + 1
  /\ temps' = IF fault = "rename" THEN temps \ {call[t].temp} ELSE temps
  /\ Moves(t, "rollback")
  /\ UNCHANGED <<disk, processVars, objectVars, acked, stale, calls>>

ForgetPrevious(t) ==  \* mutant: the memory keeps the refused change
  /\ At(t, "rollback")
  /\ Moves(t, "refused")
  /\ UNCHANGED <<disk, temps, processVars, objectVars, acked, stale, calls, faults>>
Rollback(t) ==
  /\ At(t, "rollback")
  /\ memory' = [memory EXCEPT ![Object(t)] = call[t].previous]
  /\ Moves(t, "refused")
  /\ UNCHANGED <<disk, temps, processVars, registry, made, size, owner, acked, stale, calls, faults>>

(* end, unlock and return. *)
Succeeds(t) == At(t, "done") \/ (At(t, "refused") /\ call[t].kind = "save" /\ call[t].phase = "change")
Finish(t) ==
  /\ At(t, "done") \/ At(t, "refused")
  /\ acked' = IF Succeeds(t) THEN [acked EXCEPT ![call[t].key] = call[t].value] ELSE acked
  /\ owner' = [o \in Objects |-> IF owner[o] = t THEN None ELSE owner[o]]
  /\ call' = [call EXCEPT ![t] = NoCall]
  /\ UNCHANGED <<disk, temps, processVars, registry, made, memory, size, stale, calls, faults>>

(* The process dies and another starts.  A change that was not yet         *)
(* reported may have reached the disk; what the disk holds counts.         *)
Crash ==
  /\ crashes < MaxCrashes
  /\ crashes' = crashes + 1
  /\ pid' \in Pids /\ sequence' = 1
  /\ registry' = 0
  /\ owner' = [o \in Objects |-> None]
  /\ call' = [t \in Threads |-> NoCall]
  /\ acked' = disk.at /\ stale' = FALSE
  /\ UNCHANGED <<disk, temps, made, memory, size, calls, faults>>

-----------------------------------------------------------------------------
MutationStep(t) ==
  \/ FindNvs(t) \/ LockNvs(t) \/ Apply(t) \/ CreateTemp(t) \/ RenameTemp(t)
  \/ SetPrivateFile(t) \/ Rollback(t) \/ Finish(t)

AllReturned == (\A t \in Threads : At(t, "idle")) /\ UNCHANGED nvsVars

NvsNext ==
  \/ \E t \in Threads, c \in MutationCalls : Begin(t, c)
  \/ \E t \in Threads, s \in Sizes : RegisterNvs(t, s)
  \/ \E t \in Threads : RemoveNvs(t)
  \/ \E t \in Threads : MutationStep(t)
  \/ \E t \in Threads, fault \in Faults : HostFault(t, fault)
  \/ Crash
  \/ AllReturned

NvsSpec == NvsInit /\ [][NvsNext]_nvsVars

-----------------------------------------------------------------------------
(* Properties. *)

NvsTypeOK ==
  /\ disk \in Image
  /\ registry \in 0..made
  /\ \A o \in Objects : memory[o] \in Image /\ size[o] \in Sizes
  /\ \A t \in Threads :
       At(t, "idle") \/ At(t, "find") \/ At(t, "lock") \/ Object(t) = 0 \/ owner[Object(t)] = t

(* Thread t has put its change on disk and not yet reported it. *)
InFlight(t, k) == call[t].phase = "change" /\ call[t].key = k
                  /\ call[t].at \in {"private", "done", "rollback"}

(* The call of t has put its change on disk. *)
Stored(t) == call[t].at = "done" \/ (call[t].at = "private" /\ call[t].phase = "change")

(* What thread t has asked for, for the map that firmware is promised. *)
Request(t) ==
  IF At(t, "idle") THEN [stage |-> "none", key |-> None, value |-> None]
  ELSE [stage |-> IF Stored(t) THEN "stored" ELSE "asked",
        key |-> call[t].key, value |-> call[t].value]
Requests == [t \in Threads |-> Request(t)]

Map == INSTANCE DurableMap
       WITH Clients <- Threads, stored <- disk.at, request <- Requests

(* Every call that changes the store takes effect on disk at one moment,   *)
(* the rename, or not at all, and is reported for what it did, whatever    *)
(* the other threads do, whichever of its steps fails and wherever the     *)
(* process dies ("values are persisted after every successful mutation",   *)
(* nvs.rs:52; "rolls back if the serialized state no longer fits or        *)
(* persistence fails", AUDIT_FULL.md:338): the steps are those of          *)
(* DurableMap, until a store is destroyed under a call.                    *)
CallsAreAtomic == [][stale \/ Map!DurableNext]_Map!durableVars

(* At every moment, so whenever the process dies, the disk holds what was  *)
(* reported stored, except for the one change that is being made           *)
(* ("values are persisted after every successful mutation", nvs.rs:52).    *)
(* As stated it fails when the store is destroyed under a call; with that  *)
(* exception it holds.                                                     *)
EveryAckIsOnDisk ==
  \A k \in Keys : disk.at[k] = acked[k]
                  \/ \E t \in Threads : InFlight(t, k) /\ disk.at[k] = call[t].value
AckedIsOnDisk == stale \/ EveryAckIsOnDisk

(* Between calls, memory and disk agree: nothing that was refused is seen, *)
(* now or after a restart (AUDIT_FULL.md:338: a mutation "rolls back if    *)
(* the serialized state no longer fits or persistence fails").             *)
RefusedIsRolledBack ==
  registry # 0 /\ owner[registry] = None => stale \/ memory[registry] = disk

(* Without a crash or a fault of the host a put is refused only if its     *)
(* value does not fit, to the byte and whatever other calls do meanwhile.  *)
RefusedOnlyWhenFull ==
  crashes = 0 /\ faults = 0 => \A t \in Threads :
    At(t, "refused") /\ call[t].kind = "put" /\ Object(t) # 0 =>
      EncodedSize(With(memory[Object(t)], call[t].key, call[t].value)) > size[Object(t)]

(* What save_calibration reports saved can be restored after a restart     *)
(* (ffi.rs:2210).                                                          *)
SavedIsOnDisk ==
  \A t \in Threads : call[t].kind = "save" /\ Succeeds(t) =>
    disk.at[call[t].key] = call[t].value
=============================================================================
