------------------------------ MODULE NvsProofs -----------------------------
(***************************************************************************)
(* Proofs about Nvs for every number of threads, keys, values, partition   *)
(* sizes, crashes and faults.  The argument: the mutex of an object is     *)
(* held from the lock to the end of a call, and as long as no store was    *)
(* destroyed under a call, every call uses the one object of the registry. *)
(* So only the call that holds it makes memory and disk differ, and what   *)
(* it has left to do tells in which way.  From that follows that the       *)
(* rename is the one moment at which a call takes effect (DurableMap).     *)
(***************************************************************************)
EXTENDS Nvs, TLAPS

Stages == {"idle", "find", "lock", "apply", "create", "rename", "private", "rollback", "done",
           "refused"}
CallRecord ==
  [at : Stages, kind : {"none", "put", "save", "remove"}, key : Keys \cup {None},
   value : Values \cup {None}, object : Objects \cup {0}, previous : Image,
   phase : {"begin", "change"}, temp : (Pids \cup {None}) \X Nat, ok : {FALSE}]

Typed ==
  /\ disk \in Image /\ memory \in [Objects -> Image] /\ size \in [Objects -> Sizes]
  /\ calls \in 0..MaxCalls /\ made \in 0..calls /\ registry \in 0..made
  /\ pid \in Pids /\ sequence \in Nat
  /\ owner \in [Objects -> Threads \cup {None}]
  /\ call \in [Threads -> CallRecord] /\ acked \in [Keys -> Values \cup {None}]

(* A call has an object from the moment it found one, and its mutex from   *)
(* the lock on; a change is done in its second phase.                      *)
Holds(t) == call[t].at \notin {"idle", "find", "lock"} /\ Object(t) # 0
Locked ==
  /\ \A t \in Threads, o \in Objects : owner[o] = t <=> Holds(t) /\ Object(t) = o
  /\ \A t \in Threads :
       /\ call[t].at \in {"idle", "find"} => Object(t) = 0
       /\ call[t].at \notin {"idle", "find", "refused"} => Object(t) # 0
       /\ call[t].at # "idle" => call[t].key \in Keys /\ call[t].kind \in Kinds
       /\ call[t].at = "done" => call[t].phase = "change"

(* What the call of t has made of the memory, and can undo. *)
Undoable(t) ==
  /\ call[t].at \in {"apply", "private", "done", "refused"} => memory[Object(t)] = disk
  /\ call[t].at \in {"create", "rename", "rollback"} => call[t].previous = disk
  /\ call[t].at \in {"create", "rename"} =>
       memory[Object(t)].at = IF call[t].phase = "begin" THEN disk.at
                              ELSE [disk.at EXCEPT ![call[t].key] = call[t].value]

(* As long as no store was destroyed under a call. *)
Agreeing ==
  /\ \A t \in Threads : Object(t) \in {0, registry} /\ (Holds(t) => Undoable(t))
  /\ registry # 0 /\ owner[registry] = None => memory[registry] = disk

NvsInv == Typed /\ Locked /\ (stale \/ Agreeing)

Acknowledged ==
  /\ \A t \in Threads : Holds(t) =>
       disk.at = IF Stored(t) THEN [acked EXCEPT ![call[t].key] = call[t].value] ELSE acked
  /\ (\A t \in Threads : ~Holds(t)) => disk.at = acked

AckInv == stale \/ Acknowledged

-----------------------------------------------------------------------------
(* What a call makes of an image is an image. *)
LEMMA ChangedIsImage ==
  ASSUME Typed, Locked, NEW t \in Threads, call[t].at = "apply"
  PROVE  /\ Changed(t) \in Image
         /\ Changed(t).at = IF call[t].phase = "begin" THEN memory[Object(t)].at
                            ELSE [memory[Object(t)].at EXCEPT ![call[t].key] = call[t].value]
<1>1. Object(t) \in Objects /\ memory[Object(t)] \in Image
  BY DEF Typed, Locked, Object, CallRecord
<1>2. call[t].key \in Keys /\ call[t].value \in Values \cup {None}
  BY DEF Typed, Locked, CallRecord
<1> QED BY <1>1, <1>2 DEF Changed, With, Image

(* A call that is begun is a call. *)
LEMMA NewCalls ==
  /\ NoCall \in CallRecord /\ NoCall.at = "idle" /\ NoCall.object = 0
  /\ \A c \in MutationCalls : c \in CallRecord /\ c.at = "find" /\ c.object = 0 /\ c.key \in Keys
<1>1. EmptyImage \in Image /\ 0 \in Nat
  BY DEF EmptyImage, Image
<1>2. NoCall \in CallRecord /\ NoCall.at = "idle" /\ NoCall.object = 0
  BY <1>1 DEF NoCall, CallRecord, Stages
<1>3. ASSUME NEW kind \in {"put", "save", "remove"}, NEW k \in Keys, NEW v \in Values \cup {None}
      PROVE  LET c == MutationCall(kind, k, v) IN
             c \in CallRecord /\ c.at = "find" /\ c.object = 0 /\ c.key = k
  BY <1>1 DEF MutationCall, NoCall, CallRecord, Stages
<1> QED BY <1>2, <1>3 DEF MutationCalls

(* The steps of a call change its thread's record only. *)
LEMMA TypedStep ==
  ASSUME Typed, Locked, NEW t \in Threads, MutationStep(t)
  PROVE  Typed'
<1> USE NvsAssumption DEF At, Object, Moves, Stages, objectVars, processVars
<1>1. call[t] \in CallRecord
  BY DEF Typed
<1>2. CASE FindNvs(t)
  <2>1. registry \in Objects \cup {0}
    BY DEF Typed, Objects
  <2>2. \A s \in {"refused", "lock"} : [call[t] EXCEPT !.object = registry, !.at = s] \in CallRecord
    BY <1>1, <2>1 DEF CallRecord
  <2>3. \E s \in {"refused", "lock"} :
          call' = [call EXCEPT ![t] = [call[t] EXCEPT !.object = registry, !.at = s]]
    BY <1>2 DEF FindNvs
  <2>4. call' \in [Threads -> CallRecord]
    BY <2>2, <2>3 DEF Typed
  <2> QED BY <1>2, <2>4 DEF FindNvs, Typed
<1>3. \A s \in Stages : /\ [call[t] EXCEPT !.at = s] \in CallRecord
                        /\ [call[t] EXCEPT !.at = s, !.phase = "change"] \in CallRecord
  BY ZenonT(40), <1>1 DEF CallRecord
<1>4. ASSUME NEW s \in Stages, Moves(t, s) \/ call' = [call EXCEPT ![t].at = s, ![t].phase = "change"]
      PROVE  call' \in [Threads -> CallRecord]
  <2>1. \E c \in CallRecord : call' = [call EXCEPT ![t] = c]
    BY <1>3, <1>4
  <2> QED BY <2>1 DEF Typed
<1>5. CASE LockNvs(t)
  BY <1>4, <1>5 DEF LockNvs, Typed
<1>6. CASE Apply(t)
  <2>1. call[t].at = "apply" /\ Object(t) \in Objects
    BY <1>1, <1>6 DEF Apply, Locked, CallRecord
  <2>2. call' \in [Threads -> CallRecord]
    <3>1. memory[Object(t)] \in Image
      BY <2>1 DEF Typed
    <3>2. [call[t] EXCEPT !.at = "create", !.previous = memory[Object(t)]] \in CallRecord
      BY <1>1, <3>1 DEF CallRecord
    <3>3. CASE call' = [call EXCEPT ![t] = [call[t] EXCEPT !.at = "create", !.previous = memory[Object(t)]]]
      BY <3>2, <3>3 DEF Typed
    <3>4. CASE \E s \in Stages : Moves(t, s) \/ call' = [call EXCEPT ![t].at = s, ![t].phase = "change"]
      BY <1>4, <3>4
    <3> QED BY <1>6, <3>3, <3>4 DEF Apply
  <2>3. memory' \in [Objects -> Image]
    BY ZenonT(40), <1>6, <2>1, ChangedIsImage DEF Apply, Typed
  <2> QED BY <1>6, <2>2, <2>3 DEF Apply, Typed
<1>7. CASE CreateTemp(t)
  <2>1. [call[t] EXCEPT !.at = "rename", !.temp = <<pid, sequence>>] \in CallRecord
    BY <1>1 DEF CallRecord, Typed
  <2>2. call' \in [Threads -> CallRecord]
    <3>1. CASE Moves(t, "rollback")
      BY <1>4, <3>1
    <3>2. CASE call' = [call EXCEPT ![t] = [call[t] EXCEPT !.at = "rename", !.temp = <<pid, sequence>>]]
      BY <2>1, <3>2 DEF Typed
    <3> QED BY <1>7, <3>1, <3>2 DEF CreateTemp
  <2> QED BY <1>7, <2>2 DEF CreateTemp, Typed
<1>8. CASE RenameTemp(t)
  <2>1. Object(t) \in Objects
    BY <1>1, <1>8 DEF RenameTemp, Locked, CallRecord
  <2> QED BY <1>4, <1>8, <2>1 DEF RenameTemp, Typed
<1>9. CASE SetPrivateFile(t)
  BY <1>4, <1>9 DEF SetPrivateFile, Typed
<1>10. CASE Rollback(t)
  <2>1. call[t].previous \in Image
    BY <1>1 DEF CallRecord
  <2> QED BY <1>4, <1>10, <2>1 DEF Rollback, Typed
<1>11. CASE Finish(t)
  <2>1. call' \in [Threads -> CallRecord]
    BY <1>11, NewCalls DEF Finish, Typed
  <2>2. acked' \in [Keys -> Values \cup {None}]
    BY <1>1, <1>11 DEF Finish, Typed, CallRecord
  <2> QED BY <1>11, <2>1, <2>2 DEF Finish, Typed
<1> QED BY <1>2, <1>5, <1>6, <1>7, <1>8, <1>9, <1>10, <1>11 DEF MutationStep

(* What one step changes of the record, apart from the end of the call. *)
LEMMA RecordStep ==
  ASSUME Typed, NEW t \in Threads,
         \/ FindNvs(t) \/ LockNvs(t) \/ Apply(t) \/ CreateTemp(t) \/ RenameTemp(t)
         \/ SetPrivateFile(t) \/ Rollback(t) \/ \E fault \in Faults : HostFault(t, fault)
  PROVE  /\ call'[t].key = call[t].key /\ call'[t].value = call[t].value
         /\ call'[t].kind = call[t].kind
         /\ ~FindNvs(t) => call'[t].object = call[t].object
         /\ ~Apply(t) => call'[t].previous = call[t].previous
         /\ ~Apply(t) /\ ~SetPrivateFile(t) => call'[t].phase = call[t].phase
         /\ \A u \in Threads \ {t} : call'[u] = call[u]
<1>1. call \in [Threads -> CallRecord] /\ call[t] \in CallRecord
  BY DEF Typed
<1>2. DOMAIN call[t] = {"at", "kind", "key", "value", "object", "previous", "phase", "temp", "ok"}
  BY <1>1 DEF CallRecord
<1>3. CASE FindNvs(t)
  BY <1>1, <1>2, <1>3 DEF FindNvs
<1>4. CASE Apply(t)
  BY <1>1, <1>2, <1>4 DEF Apply, Moves
<1>5. CASE CreateTemp(t)
  BY <1>1, <1>2, <1>5 DEF CreateTemp, Moves
<1>6. CASE SetPrivateFile(t)
  BY <1>1, <1>2, <1>6 DEF SetPrivateFile
<1>7. CASE \/ LockNvs(t) \/ RenameTemp(t) \/ Rollback(t) \/ \E fault \in Faults : HostFault(t, fault)
  <2>1. \E s : call' = [call EXCEPT ![t].at = s]
    BY <1>7 DEF LockNvs, RenameTemp, Rollback, HostFault, Moves
  <2> QED BY <1>1, <1>2, <2>1
<1> QED BY <1>3, <1>4, <1>5, <1>6, <1>7

(* The stage a step leads to. *)
LEMMA StageStep ==
  ASSUME Typed, Locked, NEW t \in Threads
  PROVE  /\ FindNvs(t) => /\ call[t].at = "find" /\ call'[t].object = registry
                          /\ call'[t].at = IF registry = 0 THEN "refused" ELSE "lock"
         /\ LockNvs(t) => call[t].at = "lock" /\ call'[t].at = "apply"
         /\ Apply(t) => /\ call[t].at = "apply" /\ call'[t].at \in {"apply", "refused", "create"}
                        /\ \/ UNCHANGED memory /\ call'[t].at # "create"
                           \/ /\ memory' = [memory EXCEPT ![Object(t)] = Changed(t)]
                              /\ call'[t].previous = memory[Object(t)] /\ call'[t].at = "create"
                              /\ call'[t].phase = call[t].phase
         /\ CreateTemp(t) => call[t].at = "create" /\ call'[t].at \in {"rollback", "rename"}
         /\ RenameTemp(t) => call[t].at = "rename" /\ call'[t].at = "private"
         /\ SetPrivateFile(t) =>
              /\ call[t].at = "private" /\ call'[t].phase = "change"
              /\ call'[t].at = IF call[t].phase = "begin" THEN "apply" ELSE "done"
         /\ Rollback(t) => call[t].at = "rollback" /\ call'[t].at = "refused"
         /\ \A fault \in Faults : HostFault(t, fault) =>
              /\ call[t].at = IF fault = "private" THEN "private" ELSE "rename"
              /\ call'[t].at = "rollback"
<1> USE DEF At, Moves
<1>1. call \in [Threads -> CallRecord] /\ call[t] \in CallRecord
  BY DEF Typed
<1>2. DOMAIN call[t] = {"at", "kind", "key", "value", "object", "previous", "phase", "temp", "ok"}
  BY <1>1 DEF CallRecord
<1>3. FindNvs(t) => /\ call[t].at = "find" /\ call'[t].object = registry
                    /\ call'[t].at = IF registry = 0 THEN "refused" ELSE "lock"
  BY <1>1, <1>2 DEF FindNvs
<1>4. Apply(t) => /\ call[t].at = "apply" /\ call'[t].at \in {"apply", "refused", "create"}
                  /\ \/ UNCHANGED memory /\ call'[t].at # "create"
                     \/ /\ memory' = [memory EXCEPT ![Object(t)] = Changed(t)]
                        /\ call'[t].previous = memory[Object(t)] /\ call'[t].at = "create"
                        /\ call'[t].phase = call[t].phase
  BY <1>1, <1>2 DEF Apply
<1>5. CreateTemp(t) => call[t].at = "create" /\ call'[t].at \in {"rollback", "rename"}
  BY <1>1, <1>2 DEF CreateTemp
<1>6. SetPrivateFile(t) =>
        /\ call[t].at = "private" /\ call'[t].phase = "change"
        /\ call'[t].at = IF call[t].phase = "begin" THEN "apply" ELSE "done"
  BY <1>1, <1>2 DEF SetPrivateFile
<1>7. \A s : Moves(t, s) => call'[t].at = s
  BY <1>1, <1>2
<1> QED BY <1>3, <1>4, <1>5, <1>6, <1>7 DEF LockNvs, RenameTemp, Rollback, HostFault

(* The steps of a mutation and the faults of the host keep the lock to     *)
(* one thread.                                                             *)
LEMMA LockedStep ==
  ASSUME Typed, Locked, NEW t \in Threads,
         MutationStep(t) \/ \E fault \in Faults : HostFault(t, fault)
  PROVE  Locked'
<1> USE NvsAssumption DEF Locked, Holds, Object
<1>1. CASE FindNvs(t)
  <2>1. /\ call[t].at = "find" /\ call'[t].object = registry
        /\ call'[t].at = IF registry = 0 THEN "refused" ELSE "lock"
        /\ call'[t].key = call[t].key /\ call'[t].kind = call[t].kind
        /\ \A u \in Threads \ {t} : call'[u] = call[u]
    BY <1>1, RecordStep, StageStep
  <2>2. owner' = owner
    BY <1>1 DEF FindNvs, objectVars
  <2> QED BY <2>1, <2>2
<1>2. CASE LockNvs(t)
  <2>1. /\ call[t].at = "lock" /\ call'[t].at = "apply" /\ call'[t].object = call[t].object
        /\ call'[t].key = call[t].key /\ call'[t].kind = call[t].kind
        /\ \A u \in Threads \ {t} : call'[u] = call[u]
    BY <1>2, RecordStep, StageStep DEF LockNvs
  <2>2. call[t].object \in Objects /\ owner[call[t].object] = None
        /\ owner' = [owner EXCEPT ![call[t].object] = t]
    BY ZenonT(40), <1>2, <2>1 DEF LockNvs, Typed, CallRecord
  <2> QED BY <2>1, <2>2 DEF Typed
<1>3. CASE \/ Apply(t) \/ CreateTemp(t) \/ RenameTemp(t) \/ SetPrivateFile(t) \/ Rollback(t)
           \/ \E fault \in Faults : HostFault(t, fault)
  <2>1. /\ call[t].at \in {"apply", "create", "rename", "private", "rollback"}
        /\ call'[t].at \in {"apply", "create", "rename", "private", "rollback", "done", "refused"}
        /\ call'[t].object = call[t].object
        /\ call'[t].key = call[t].key /\ call'[t].kind = call[t].kind
        /\ call'[t].at = "done" => call'[t].phase = "change"
        /\ \A u \in Threads \ {t} : call'[u] = call[u]
    BY <1>3, RecordStep, StageStep DEF FindNvs, At
  <2>2. owner' = owner
    BY <1>3 DEF Apply, CreateTemp, RenameTemp, SetPrivateFile, Rollback, HostFault, objectVars
  <2> QED BY <2>1, <2>2
<1>4. CASE Finish(t)
  <2>1. call'[t] = NoCall /\ \A u \in Threads \ {t} : call'[u] = call[u]
    BY <1>4 DEF Finish, Typed
  <2>2. \A o \in Objects : owner'[o] = IF owner[o] = t THEN None ELSE owner[o]
    BY <1>4 DEF Finish
  <2> QED BY <2>1, <2>2, NewCalls
<1> QED BY <1>1, <1>2, <1>3, <1>4 DEF MutationStep

(* A step of a call whose store was not destroyed. *)
LEMMA AgreeingStep ==
  ASSUME Typed, Locked, Agreeing, "private" \notin Faults, NEW t \in Threads,
         MutationStep(t) \/ \E fault \in Faults : HostFault(t, fault)
  PROVE  Agreeing'
<1> USE NvsAssumption DEF Holds, Object
<1>1. registry' = registry /\ (call[t].object # 0 => call[t].object = registry)
  BY DEF Agreeing, MutationStep, FindNvs, LockNvs, Apply, CreateTemp, RenameTemp, SetPrivateFile,
     Rollback, Finish, HostFault, objectVars
<1>2. ASSUME Holds(t)
      PROVE  /\ \A u \in Threads \ {t} : ~Holds(u)
             /\ registry \in Objects /\ call[t].object = registry /\ owner[registry] = t
  <2>1. registry \in Objects /\ call[t].object = registry
    BY <1>1, <1>2 DEF Typed, Objects
  <2> QED BY <1>2, <2>1 DEF Locked, Agreeing
<1>3. CASE FindNvs(t)
  <2>1. UNCHANGED <<disk, memory, owner>> /\ ~Holds(t)'
    BY <1>3, StageStep DEF FindNvs, objectVars
  <2> QED BY <1>1, <1>3, <2>1, RecordStep, StageStep DEF Agreeing, Undoable
<1>4. CASE LockNvs(t)
  <2>1. call[t].at = "lock" /\ call'[t].at = "apply" /\ call'[t].object = call[t].object
        /\ \A u \in Threads \ {t} : call'[u] = call[u]
    BY <1>4, RecordStep, StageStep DEF LockNvs, FindNvs, At
  <2>2. /\ UNCHANGED <<disk, memory>> /\ registry \in Objects /\ call[t].object = registry
        /\ owner[registry] = None /\ owner'[registry] = t
    BY <1>1, <1>4, <2>1 DEF LockNvs, Locked, Typed, Objects
  <2>3. \A u \in Threads : ~Holds(u)
    BY <2>1, <2>2 DEF Agreeing, Locked
  <2> QED BY <1>1, <2>1, <2>2, <2>3 DEF Agreeing, Undoable
<1>5. CASE \/ Apply(t) \/ CreateTemp(t) \/ RenameTemp(t) \/ SetPrivateFile(t) \/ Rollback(t)
           \/ \E fault \in Faults : HostFault(t, fault)
  <2>1. Holds(t) /\ ~FindNvs(t)
    BY <1>5, StageStep DEF Locked, FindNvs, At
  <2>2. /\ registry \in Objects /\ call[t].object = registry /\ owner'[registry] = t
        /\ \A u \in Threads \ {t} : call'[u] = call[u] /\ ~Holds(u)
        /\ call'[t].key = call[t].key /\ call'[t].value = call[t].value
        /\ call'[t].object = call[t].object
    <3>1. owner' = owner
      BY <1>5 DEF Apply, CreateTemp, RenameTemp, SetPrivateFile, Rollback, HostFault, objectVars
    <3> QED BY <1>2, <1>5, <2>1, <3>1, RecordStep
  <2>3. Undoable(t)'
    <3>1. CASE Apply(t)
      <4>1. memory[registry] = disk /\ disk' = disk /\ call[t].at = "apply"
        BY <2>1, <2>2, <3>1, StageStep DEF Agreeing, Undoable, Apply
      <4>2. CASE UNCHANGED memory /\ call'[t].at # "create"
        BY <1>1, <2>2, <3>1, <4>1, <4>2, StageStep DEF Undoable
      <4>3. CASE /\ memory' = [memory EXCEPT ![Object(t)] = Changed(t)]
                 /\ call'[t].previous = memory[Object(t)] /\ call'[t].at = "create"
                 /\ call'[t].phase = call[t].phase
        <5>1. memory'[registry] = Changed(t)
          BY <2>2, <4>3 DEF Typed
        <5>2. Changed(t).at = IF call[t].phase = "begin" THEN disk.at
                              ELSE [disk.at EXCEPT ![call[t].key] = call[t].value]
          BY <2>2, <4>1, ChangedIsImage
        <5> QED BY <2>2, <4>1, <4>3, <5>1, <5>2 DEF Undoable
      <4> QED BY <3>1, <4>2, <4>3, StageStep
    <3>2. CASE CreateTemp(t)
      <4>1. UNCHANGED <<disk, memory>>
        BY <3>2 DEF CreateTemp, objectVars
      <4>2. call[t].at = "create" /\ call'[t].at \in {"rollback", "rename"}
            /\ call'[t].previous = call[t].previous /\ call'[t].phase = call[t].phase
        BY <3>2, StageStep, RecordStep
      <4> QED BY <2>1, <2>2, <4>1, <4>2 DEF Agreeing, Undoable
    <3>3. CASE RenameTemp(t)
      <4>1. disk' = memory[Object(t)] /\ UNCHANGED memory
        BY <3>3 DEF RenameTemp, objectVars
      <4> QED BY <2>2, <3>3, <4>1, StageStep DEF Undoable
    <3>4. CASE SetPrivateFile(t)
      <4>1. UNCHANGED <<disk, memory>>
        BY <3>4 DEF SetPrivateFile, objectVars
      <4> QED BY <2>1, <2>2, <3>4, <4>1, StageStep DEF Agreeing, Undoable
    <3>5. CASE Rollback(t)
      <4>1. disk' = disk /\ memory' = [memory EXCEPT ![Object(t)] = call[t].previous]
        BY <3>5 DEF Rollback
      <4> QED BY <2>1, <2>2, <3>5, <4>1, StageStep DEF Agreeing, Undoable, Typed
    <3>6. CASE \E fault \in Faults : HostFault(t, fault)
      <4>1. UNCHANGED disk /\ call[t].at = "rename" /\ call'[t].at = "rollback"
            /\ call'[t].previous = call[t].previous
        BY <3>6, StageStep, RecordStep DEF HostFault, Apply, At
      <4> QED BY <2>1, <2>2, <4>1 DEF Agreeing, Undoable
    <3> QED BY <1>5, <3>1, <3>2, <3>3, <3>4, <3>5, <3>6
  <2> QED BY <1>1, <2>1, <2>2, <2>3 DEF Agreeing
<1>6. CASE Finish(t)
  <2>1. call'[t] = NoCall /\ (\A u \in Threads \ {t} : call'[u] = call[u])
        /\ UNCHANGED <<disk, memory>> /\ call[t].at \in {"done", "refused"}
    BY <1>6 DEF Finish, Typed, At
  <2>2. CASE Holds(t)
    <3>1. memory[registry] = disk
      BY <1>2, <2>1, <2>2 DEF Agreeing, Undoable
    <3> QED BY <1>1, <1>2, <2>1, <2>2, <3>1, NewCalls DEF Agreeing
  <2>3. CASE ~Holds(t)
    <3>1. owner' = owner
      <4>1. \A o \in Objects : owner[o] # t
        BY <2>3 DEF Locked
      <4> QED BY <1>6, <4>1 DEF Finish, Typed
    <3> QED BY <1>1, <2>1, <3>1, NewCalls DEF Agreeing, Undoable
  <2> QED BY <2>2, <2>3
<1> QED BY <1>3, <1>4, <1>5, <1>6 DEF MutationStep

(* What the step does to what the disk holds of the acknowledged values. *)
LEMMA AcknowledgedStep ==
  ASSUME Typed, Locked, Agreeing, Acknowledged, "private" \notin Faults, "save" \notin Kinds,
         NEW t \in Threads, MutationStep(t) \/ \E fault \in Faults : HostFault(t, fault)
  PROVE  Acknowledged'
<1> USE NvsAssumption DEF Holds, Object
<1>1. registry' = registry /\ (call[t].object # 0 => call[t].object = registry)
  BY DEF Agreeing, MutationStep, FindNvs, LockNvs, Apply, CreateTemp, RenameTemp, SetPrivateFile,
     Rollback, Finish, HostFault, objectVars
<1>2. ASSUME Holds(t)
      PROVE  \A u \in Threads \ {t} : ~Holds(u)
  BY <1>1, <1>2 DEF Locked, Agreeing, Typed, Objects
<1>3. CASE FindNvs(t) \/ LockNvs(t)
  <2>1. UNCHANGED <<disk, acked>> /\ ~Holds(t) /\ ~Stored(t)'
        /\ \A u \in Threads \ {t} : call'[u] = call[u]
    BY <1>3, StageStep, RecordStep DEF FindNvs, LockNvs, Stored
  <2>2. CASE \E u \in Threads : Holds(u)
    <3>1. PICK u \in Threads : Holds(u)
      BY <2>2
    <3>2. u # t /\ Holds(u)'
      BY <2>1, <3>1
    <3>3. ~Holds(t)'
      <4>1. FindNvs(t) => ~Holds(t)'
        BY StageStep DEF FindNvs
      <4>2. ~LockNvs(t)
        <5>1. registry \in Objects /\ call[u].object = registry /\ owner[registry] = u
          BY <3>1 DEF Agreeing, Locked, Typed, Objects
        <5>2. LockNvs(t) => call[t].object = registry
          BY <1>1, StageStep DEF Locked
        <5> QED BY <5>1, <5>2 DEF LockNvs
      <4> QED BY <1>3, <4>1, <4>2
    <3> QED BY <2>1, <3>1, <3>2, <3>3 DEF Acknowledged, Stored
  <2>3. CASE \A u \in Threads : ~Holds(u)
    BY <2>1, <2>3 DEF Acknowledged, Stored
  <2> QED BY <2>2, <2>3
<1>4. CASE \/ Apply(t) \/ CreateTemp(t) \/ RenameTemp(t) \/ SetPrivateFile(t) \/ Rollback(t)
           \/ \E fault \in Faults : HostFault(t, fault)
  <2>1. /\ Holds(t) /\ Holds(t)' /\ acked' = acked
        /\ \A u \in Threads \ {t} : call'[u] = call[u] /\ ~Holds(u)
        /\ call'[t].key = call[t].key /\ call'[t].value = call[t].value
    <3>1. call[t].at \in {"apply", "create", "rename", "private", "rollback"}
          /\ call'[t].at \notin {"idle", "find", "lock"} /\ ~FindNvs(t) /\ acked' = acked
      BY <1>4, StageStep
      DEF Apply, CreateTemp, RenameTemp, SetPrivateFile, Rollback, HostFault, FindNvs, At
    <3>2. Holds(t)
      BY <3>1 DEF Locked
    <3>3. call'[t].object = call[t].object
          /\ call'[t].key = call[t].key /\ call'[t].value = call[t].value
          /\ \A u \in Threads \ {t} : call'[u] = call[u]
      BY <1>4, <3>1, RecordStep
    <3> QED BY <1>2, <3>1, <3>2, <3>3
  <2>2. disk'.at = IF Stored(t)' THEN [acked EXCEPT ![call[t].key] = call[t].value] ELSE acked
    <3>1. disk.at = IF Stored(t) THEN [acked EXCEPT ![call[t].key] = call[t].value] ELSE acked
      BY <2>1 DEF Acknowledged
    <3>2. CASE RenameTemp(t)
      <4>1. disk' = memory[Object(t)] /\ call[t].at = "rename" /\ call'[t].at = "private"
            /\ call'[t].phase = call[t].phase
        BY <3>2, StageStep, RecordStep DEF RenameTemp, Apply, SetPrivateFile, At
      <4>2. disk'.at = IF call[t].phase = "begin" THEN disk.at
                       ELSE [disk.at EXCEPT ![call[t].key] = call[t].value]
        BY <2>1, <4>1 DEF Agreeing, Undoable
      <4>3. call[t].phase \in {"begin", "change"}
        BY DEF Typed, CallRecord
      <4> QED BY <3>1, <4>1, <4>2, <4>3 DEF Stored
    <3>3. CASE SetPrivateFile(t)
      <4>1. disk' = disk /\ call[t].phase \in {"begin", "change"}
        BY <3>3 DEF SetPrivateFile, Typed, CallRecord
      <4> QED BY <3>1, <3>3, <4>1, StageStep DEF Stored
    <3>4. CASE \/ Apply(t) \/ CreateTemp(t) \/ Rollback(t) \/ \E fault \in Faults : HostFault(t, fault)
      <4>1. disk' = disk /\ ~Stored(t) /\ ~Stored(t)'
        BY <3>4, StageStep DEF Stored, Apply, CreateTemp, Rollback, HostFault
      <4> QED BY <3>1, <4>1
    <3> QED BY <1>4, <3>2, <3>3, <3>4
  <2> QED BY <2>1, <2>2 DEF Acknowledged, Stored
<1>5. CASE Finish(t)
  <2>1. /\ call'[t] = NoCall /\ disk' = disk /\ call[t].at \in {"done", "refused"}
        /\ \A u \in Threads \ {t} : call'[u] = call[u]
        /\ acked' = IF call[t].at = "done" THEN [acked EXCEPT ![call[t].key] = call[t].value] ELSE acked
    BY <1>5 DEF Finish, Succeeds, Typed, Locked, At
  <2>2. ~Holds(t)'
    BY <2>1, NewCalls
  <2>3. CASE Holds(t)
    BY <1>2, <2>1, <2>2, <2>3 DEF Acknowledged, Stored
  <2>4. CASE ~Holds(t)
    <3>1. acked' = acked
      BY <2>1, <2>4 DEF Locked
    <3> QED BY <2>1, <2>2, <2>4, <3>1 DEF Acknowledged, Stored
  <2> QED BY <2>3, <2>4
<1> QED BY <1>3, <1>4, <1>5 DEF MutationStep

-----------------------------------------------------------------------------
(* The invariant holds of every behaviour in which set_private_file does   *)
(* not fail after the rename.                                              *)
THEOREM NvsInvariant == "private" \notin Faults => (NvsSpec => []NvsInv)
<1> SUFFICES ASSUME "private" \notin Faults
             PROVE  NvsSpec => []NvsInv
  OBVIOUS
<1> USE NvsAssumption
<1>1. NvsInit => NvsInv
  <2> SUFFICES ASSUME NvsInit
               PROVE  NvsInv
    OBVIOUS
  <2>1. Typed
    BY NewCalls DEF NvsInit, Typed, Image, EmptyImage
  <2>2. Locked /\ Agreeing
    BY NewCalls DEF NvsInit, Locked, Agreeing, Holds, Object
  <2> QED BY <2>1, <2>2 DEF NvsInv
<1>2. NvsInv /\ [NvsNext]_nvsVars => NvsInv'
  <2> SUFFICES ASSUME NvsInv, [NvsNext]_nvsVars
               PROVE  NvsInv'
    OBVIOUS
  <2> USE DEF NvsInv
  <2>1. ASSUME NEW t \in Threads, NEW c \in MutationCalls, Begin(t, c)
        PROVE  NvsInv'
    <3>1. /\ call[t].at = "idle" /\ call'[t] = c /\ \A u \in Threads \ {t} : call'[u] = call[u]
          /\ c \in CallRecord /\ c.at = "find" /\ c.object = 0 /\ c.key \in Keys /\ c.kind \in Kinds
          /\ UNCHANGED <<disk, memory, registry, made, size, owner, pid, sequence, acked, stale>>
      BY <2>1, NewCalls DEF Begin, At, Typed, objectVars, processVars
    <3>2. Typed'
      BY <2>1, <3>1 DEF Begin, Typed
    <3>3. Locked'
      BY <3>1 DEF Locked, Holds, Object
    <3>4. Agreeing => Agreeing'
      BY <3>1 DEF Agreeing, Undoable, Holds, Object
    <3> QED BY <3>1, <3>2, <3>3, <3>4
  <2>2. ASSUME NEW t \in Threads, NEW s \in Sizes, RegisterNvs(t, s)
        PROVE  NvsInv'
    <3>1. UNCHANGED <<disk, call, owner, pid, sequence, acked, stale>> /\ calls' = calls + 1
          /\ calls < MaxCalls
      BY <2>2 DEF RegisterNvs, processVars
    <3>2. Locked'
      BY <3>1 DEF Locked, Holds, Object
    <3>3. CASE registry # 0
      <4>1. size' \in [Objects -> Sizes] /\ UNCHANGED <<registry, made, memory>>
        BY <2>2, <3>3 DEF RegisterNvs, Typed
      <4>2. Typed'
        BY <3>1, <4>1 DEF Typed
      <4>3. Agreeing => Agreeing'
        BY <3>1, <4>1 DEF Agreeing, Undoable, Holds, Object
      <4> QED BY <3>1, <3>2, <4>2, <4>3
    <3>4. CASE registry = 0
      <4>1. /\ registry' = made + 1 /\ made' = made + 1 /\ made + 1 \in Objects
            /\ memory' = [memory EXCEPT ![made + 1] = disk]
            /\ size' = [size EXCEPT ![made + 1] = s]
        BY <2>2, <3>1, <3>4 DEF RegisterNvs, Typed, Objects
      <4>2. Typed'
        BY <3>1, <4>1 DEF Typed
      <4>3. Agreeing => Agreeing'
        BY <3>1, <3>4, <4>1 DEF Agreeing, Undoable, Holds, Object, Typed
      <4> QED BY <3>1, <3>2, <4>2, <4>3
    <3> QED BY <3>3, <3>4
  <2>3. ASSUME NEW t \in Threads, RemoveNvs(t)
        PROVE  NvsInv'
    <3>1. /\ UNCHANGED <<disk, call, owner, pid, sequence, acked, memory, size, made>>
          /\ registry' = 0 /\ registry # 0 /\ calls' = calls + 1 /\ calls < MaxCalls
          /\ stale' = (stale \/ \E u \in Threads : call[u].object = registry)
      BY <2>3 DEF RemoveNvs, processVars
    <3>2. Typed' /\ Locked'
      BY <3>1 DEF Typed, Locked, Holds, Object
    <3>3. Agreeing => stale' \/ Agreeing'
      BY <3>1 DEF Agreeing, Undoable, Holds, Object
    <3> QED BY <3>1, <3>2, <3>3
  <2>4. ASSUME NEW t \in Threads, MutationStep(t) \/ \E fault \in Faults : HostFault(t, fault)
        PROVE  NvsInv'
    <3>1. stale' = stale
      BY <2>4 DEF MutationStep, FindNvs, LockNvs, Apply, CreateTemp, RenameTemp, SetPrivateFile,
         Rollback, Finish, HostFault
    <3>2. Typed'
      <4>1. ASSUME NEW fault \in Faults, HostFault(t, fault)
            PROVE  Typed'
        <5>1. [call[t] EXCEPT !.at = "rollback"] \in CallRecord
          <6>1. call[t] \in CallRecord
            BY DEF Typed
          <6> QED BY <6>1 DEF CallRecord, Stages
        <5>2. call' \in [Threads -> CallRecord]
          BY <4>1, <5>1 DEF HostFault, Moves, Typed
        <5> QED BY <4>1, <5>2 DEF HostFault, Typed, objectVars, processVars
      <4> QED BY <2>4, <4>1, TypedStep
    <3>3. Locked'
      BY <2>4, LockedStep
    <3>4. Agreeing => Agreeing'
      BY <2>4, AgreeingStep
    <3> QED BY <3>1, <3>2, <3>3, <3>4
  <2>5. CASE Crash
    <3>1. /\ UNCHANGED <<disk, memory, size, made, calls>> /\ registry' = 0
          /\ pid' \in Pids /\ sequence' = 1 /\ acked' = disk.at /\ stale' = FALSE
          /\ owner' = [o \in Objects |-> None] /\ call' = [t \in Threads |-> NoCall]
      BY <2>5 DEF Crash
    <3>2. Typed'
      BY <3>1, NewCalls DEF Typed, Image
    <3>3. Locked' /\ Agreeing'
      BY <3>1, NewCalls DEF Locked, Agreeing, Holds, Object
    <3> QED BY <3>2, <3>3
  <2>6. CASE UNCHANGED nvsVars
    BY <2>6
    DEF nvsVars, objectVars, processVars, Typed, Locked, Agreeing, Undoable, Holds, Object
  <2> QED BY <2>1, <2>2, <2>3, <2>4, <2>5, <2>6 DEF NvsNext, AllReturned
<1> QED BY <1>1, <1>2, PTL DEF NvsSpec

(* Whatever was refused, because it did not fit or because the host failed *)
(* to write or to rename, is nowhere: between calls the memory of the      *)
(* store is the image on disk (nvs.rs:156, 228, 263).                      *)
THEOREM RefusedLeavesNoTrace == "private" \notin Faults => (NvsSpec => []RefusedIsRolledBack)
<1> SUFFICES ASSUME "private" \notin Faults
             PROVE  NvsSpec => []RefusedIsRolledBack
  OBVIOUS
<1>1. NvsInv => RefusedIsRolledBack
  BY DEF NvsInv, Agreeing, RefusedIsRolledBack
<1> QED BY <1>1, NvsInvariant, PTL

(* What a call reported stored is on the disk at every moment, whatever    *)
(* the other threads do and wherever the process dies (nvs.rs:52), when    *)
(* nobody saves a calibration.                                             *)
THEOREM AcknowledgedIsDurable ==
  "private" \notin Faults /\ "save" \notin Kinds => (NvsSpec => []AckedIsOnDisk)
<1> SUFFICES ASSUME "private" \notin Faults, "save" \notin Kinds
             PROVE  NvsSpec => []AckedIsOnDisk
  OBVIOUS
<1> USE NvsAssumption
<1>1. NvsInit => AckInv
  BY NewCalls DEF NvsInit, AckInv, Acknowledged, Holds, Object, EmptyImage
<1>2. NvsInv /\ AckInv /\ [NvsNext]_nvsVars => AckInv'
  <2> SUFFICES ASSUME NvsInv, AckInv, [NvsNext]_nvsVars
               PROVE  AckInv'
    OBVIOUS
  <2>1. ASSUME NEW t \in Threads, NEW c \in MutationCalls, Begin(t, c)
        PROVE  AckInv'
    <3>1. /\ call[t].at = "idle" /\ call'[t] = c /\ \A u \in Threads \ {t} : call'[u] = call[u]
          /\ c.at = "find" /\ UNCHANGED <<disk, acked, stale>>
      BY <2>1, NewCalls DEF Begin, NvsInv, Typed
    <3> QED BY <3>1 DEF AckInv, Acknowledged, Stored, Holds, Object
  <2>2. CASE \/ \E t \in Threads, s \in Sizes : RegisterNvs(t, s)
             \/ \E t \in Threads : RemoveNvs(t)
             \/ UNCHANGED nvsVars
    <3>1. UNCHANGED <<disk, call, acked>>
      BY <2>2 DEF RegisterNvs, RemoveNvs, nvsVars
    <3>2. stale => stale'
      <4>1. CASE \E t \in Threads : RemoveNvs(t)
        BY <4>1, Zenon DEF RemoveNvs
      <4>2. CASE stale' = stale
        BY <4>2
      <4> QED BY <2>2, <4>1, <4>2 DEF RegisterNvs, nvsVars
    <3> QED BY <3>1, <3>2 DEF AckInv, Acknowledged, Stored, Holds, Object
  <2>3. ASSUME NEW t \in Threads, MutationStep(t) \/ \E fault \in Faults : HostFault(t, fault)
        PROVE  AckInv'
    <3>1. stale' = stale
      BY <2>3 DEF MutationStep, FindNvs, LockNvs, Apply, CreateTemp, RenameTemp, SetPrivateFile,
         Rollback, Finish, HostFault
    <3> QED BY <2>3, <3>1, AcknowledgedStep DEF NvsInv, AckInv
  <2>4. CASE Crash
    BY <2>4, NewCalls DEF Crash, AckInv, Acknowledged, Stored, Holds, Object
  <2> QED BY <2>1, <2>2, <2>3, <2>4 DEF NvsNext, AllReturned
<1>3. NvsInv /\ AckInv => AckedIsOnDisk
  <2> SUFFICES ASSUME NvsInv, AckInv, ~stale, NEW k \in Keys
               PROVE  \/ disk.at[k] = acked[k]
                      \/ \E t \in Threads : InFlight(t, k) /\ disk.at[k] = call[t].value
    BY DEF AckedIsOnDisk, EveryAckIsOnDisk
  <2>1. CASE \E t \in Threads : Holds(t) /\ Stored(t)
    <3>1. PICK t \in Threads : Holds(t) /\ Stored(t)
      BY <2>1
    <3>2. disk.at = [acked EXCEPT ![call[t].key] = call[t].value] /\ acked \in [Keys -> Values \cup {None}]
      BY <3>1 DEF AckInv, Acknowledged, NvsInv, Typed
    <3>3. call[t].at \in {"private", "done"} /\ call[t].phase = "change"
      BY <3>1 DEF Stored, NvsInv, Locked
    <3> QED BY <3>2, <3>3 DEF InFlight
  <2>2. CASE \A t \in Threads : ~(Holds(t) /\ Stored(t))
    BY <2>2 DEF AckInv, Acknowledged
  <2> QED BY <2>1, <2>2
<1> QED BY <1>1, <1>2, <1>3, NvsInvariant, PTL DEF NvsSpec

-----------------------------------------------------------------------------
(* The map that firmware is promised.                                      *)

(* A request changes only with the record of its call. *)
LEMMA OtherRequests ==
  ASSUME NEW u \in Threads, call'[u] = call[u]
  PROVE  Request(u)' = Request(u)
BY DEF Request, Stored, At

(* A step that no request shows, and that leaves the values on disk. *)
LEMMA QuietStep ==
  ASSUME disk'.at = disk.at, acked' = acked, \A u \in Threads : Request(u)' = Request(u)
  PROVE  UNCHANGED Map!durableVars
<1>1. Requests' = Requests
  BY DEF Requests
<1> QED BY <1>1 DEF Map!durableVars

(* The request of a call that has begun. *)
LEMMA OpenRequest ==
  ASSUME NEW t \in Threads, call[t].at # "idle"
  PROVE  /\ Requests[t] = Request(t)
         /\ Request(t) = [stage |-> IF Stored(t) THEN "stored" ELSE "asked",
                          key |-> call[t].key, value |-> call[t].value]
BY DEF Requests, Request, At

(* A call begins: the thread asks. *)
LEMMA BeginAsks ==
  ASSUME Typed, NEW t \in Threads, NEW c \in MutationCalls, Begin(t, c)
  PROVE  Map!DurableNext
<1>1. /\ call[t].at = "idle" /\ call'[t] = c /\ \A u \in Threads \ {t} : call'[u] = call[u]
      /\ c \in CallRecord /\ c.at = "find" /\ c.key \in Keys /\ UNCHANGED <<disk, acked>>
  BY NewCalls DEF Begin, At, Typed
<1>2. c.value \in Values \cup {None}
  BY <1>1 DEF CallRecord
<1>3. Request(t) = Map!NoRequest
  BY <1>1 DEF Request, At, Map!NoRequest
<1>4. Request(t)' = [stage |-> "asked", key |-> c.key, value |-> c.value]
  BY <1>1 DEF Request, Stored, At
<1>5. \A u \in Threads \ {t} : Request(u)' = Request(u)
  BY <1>1, OtherRequests
<1>6. Requests' = [Requests EXCEPT ![t] = [stage |-> "asked", key |-> c.key, value |-> c.value]]
  BY <1>4, <1>5 DEF Requests
<1>7. Requests[t] = Map!NoRequest
  BY <1>3 DEF Requests
<1>8. Map!Ask(t, c.key, c.value)
  BY <1>1, <1>6, <1>7 DEF Map!Ask
<1> QED BY <1>1, <1>2, <1>8 DEF Map!DurableNext

(* The rename of a change is the moment at which the call takes effect.    *)
LEMMA RenameStores ==
  ASSUME Typed, Locked, Agreeing, NEW t \in Threads, RenameTemp(t)
  PROVE  Map!DurableNext \/ UNCHANGED Map!durableVars
<1>1. /\ call[t].at = "rename" /\ call'[t].at = "private"
      /\ call'[t].phase = call[t].phase /\ call[t].phase \in {"begin", "change"}
      /\ call'[t].key = call[t].key /\ call'[t].value = call[t].value
      /\ disk' = memory[Object(t)] /\ acked' = acked
      /\ \A u \in Threads \ {t} : call'[u] = call[u]
  <2>1. call[t].at = "rename" /\ disk' = memory[Object(t)] /\ acked' = acked
    BY DEF RenameTemp, At
  <2>2. ~Apply(t) /\ ~SetPrivateFile(t)
    BY <2>1 DEF Apply, SetPrivateFile, At
  <2>3. call[t].phase \in {"begin", "change"}
    BY DEF Typed, CallRecord
  <2> QED BY <2>1, <2>2, <2>3, StageStep, RecordStep
<1>2. Holds(t)
  BY <1>1 DEF Holds, Locked
<1>3. disk'.at = IF call[t].phase = "begin" THEN disk.at
                 ELSE [disk.at EXCEPT ![call[t].key] = call[t].value]
  BY <1>1, <1>2 DEF Agreeing, Undoable
<1>4. \A u \in Threads \ {t} : Request(u)' = Request(u)
  BY <1>1, OtherRequests
<1>5. Request(t) = [stage |-> "asked", key |-> call[t].key, value |-> call[t].value]
  BY <1>1 DEF Request, Stored, At
<1>6. CASE call[t].phase = "begin"
  <2>1. Request(t)' = Request(t)
    BY <1>1, <1>5, <1>6 DEF Request, Stored, At
  <2> QED BY <1>1, <1>3, <1>4, <1>6, <2>1, QuietStep
<1>7. CASE call[t].phase = "change"
  <2>1. Request(t)' = [stage |-> "stored", key |-> call[t].key, value |-> call[t].value]
    BY <1>1, <1>7 DEF Request, Stored, At
  <2>2. Requests[t] = [stage |-> "asked", key |-> call[t].key, value |-> call[t].value]
    BY <1>5 DEF Requests
  <2>3. Requests' = [Requests EXCEPT ![t].stage = "stored"]
    <3>1. [Requests[t] EXCEPT !.stage = "stored"]
            = [stage |-> "stored", key |-> call[t].key, value |-> call[t].value]
      BY <2>2
    <3>2. [Requests[t] EXCEPT !.stage = "stored"] = Request(t)'
      BY <2>1, <3>1
    <3>3. Requests' = [u \in Threads |-> IF u = t THEN Request(t)' ELSE Requests[u]]
      BY <1>4 DEF Requests
    <3> QED BY <3>2, <3>3 DEF Requests
  <2>4. ASSUME NEW u \in Threads
        PROVE  Requests[u].stage # "stored"
    <3>1. CASE u = t
      BY <1>5, <3>1 DEF Requests
    <3>2. CASE u # t
      <4>1. Object(t) = registry /\ registry \in Objects
        BY <1>2 DEF Agreeing, Holds, Typed, Object, CallRecord
      <4>2. owner[registry] = t
        BY <1>2, <4>1 DEF Locked
      <4>3. ~Holds(u)
        BY <3>2, <4>1, <4>2 DEF Locked, Agreeing, Holds
      <4>4. ~Stored(u)
        BY <4>3 DEF Locked, Holds, Stored
      <4> QED BY <4>4 DEF Requests, Request
    <3> QED BY <3>1, <3>2
  <2>5. Map!Store(t)
    BY <1>1, <1>3, <1>7, <2>2, <2>3, <2>4 DEF Map!Store
  <2> QED BY <2>5 DEF Map!DurableNext
<1> QED BY <1>1, <1>6, <1>7

(* The end of a call reports what was stored, or refuses what was not. *)
LEMMA FinishAnswers ==
  ASSUME Typed, Locked, "save" \notin Kinds, NEW t \in Threads, Finish(t)
  PROVE  Map!DurableNext
<1>1. /\ call[t].at \in {"done", "refused"} /\ call'[t] = NoCall /\ disk' = disk
      /\ \A u \in Threads \ {t} : call'[u] = call[u]
      /\ acked' = IF Succeeds(t) THEN [acked EXCEPT ![call[t].key] = call[t].value] ELSE acked
  BY DEF Finish, At, Typed
<1>2. Succeeds(t) <=> call[t].at = "done"
  BY <1>1 DEF Succeeds, At, Locked
<1>3. Request(t)' = Map!NoRequest
  BY <1>1, NewCalls DEF Request, NoCall, At, Map!NoRequest
<1>4. Requests' = [Requests EXCEPT ![t] = Map!NoRequest]
  <2>1. \A u \in Threads \ {t} : Request(u)' = Request(u)
    BY <1>1, OtherRequests
  <2> QED BY <1>3, <2>1 DEF Requests
<1>5. Requests[t] = [stage |-> IF call[t].at = "done" THEN "stored" ELSE "asked",
                     key |-> call[t].key, value |-> call[t].value]
  BY <1>1 DEF Requests, Request, Stored, At
<1>6. CASE call[t].at = "done"
  <2>1. Map!Report(t)
    BY <1>1, <1>2, <1>4, <1>5, <1>6 DEF Map!Report
  <2> QED BY <2>1 DEF Map!DurableNext
<1>7. CASE call[t].at = "refused"
  <2>1. Map!Refuse(t)
    BY <1>1, <1>2, <1>4, <1>5, <1>7 DEF Map!Refuse
  <2> QED BY <2>1 DEF Map!DurableNext
<1> QED BY <1>1, <1>6, <1>7

(* Every other step of a call is its own business. *)
LEMMA OtherStepsAreQuiet ==
  ASSUME Typed, "private" \notin Faults, NEW t \in Threads,
         \/ FindNvs(t) \/ LockNvs(t) \/ Apply(t) \/ CreateTemp(t) \/ SetPrivateFile(t)
         \/ Rollback(t) \/ \E fault \in Faults : HostFault(t, fault),
         Locked
  PROVE  UNCHANGED Map!durableVars
<1>1. UNCHANGED <<disk, acked>>
  BY DEF FindNvs, LockNvs, Apply, CreateTemp, SetPrivateFile, Rollback, HostFault
<1>2. /\ call'[t].key = call[t].key /\ call'[t].value = call[t].value
      /\ \A u \in Threads \ {t} : call'[u] = call[u]
  BY RecordStep
<1>3. call[t].at # "idle" /\ call'[t].at # "idle" /\ (Stored(t)' <=> Stored(t))
  <2>1. CASE SetPrivateFile(t)
    <3>1. call[t].phase \in {"begin", "change"}
      BY DEF Typed, CallRecord
    <3> QED BY <2>1, <3>1, StageStep DEF Stored
  <2>2. CASE \/ FindNvs(t) \/ LockNvs(t) \/ Apply(t) \/ CreateTemp(t)
             \/ Rollback(t) \/ \E fault \in Faults : HostFault(t, fault)
    <3>1. call[t].at \in {"find", "lock", "apply", "create", "rename", "rollback"}
          /\ call'[t].at \in {"refused", "lock", "apply", "create", "rename", "rollback"}
      BY <2>2, StageStep
    <3> QED BY <3>1 DEF Stored
  <2> QED BY <2>1, <2>2
<1>4. Request(t)' = Request(t)
  BY <1>2, <1>3 DEF Request, At
<1>5. \A u \in Threads : Request(u)' = Request(u)
  BY <1>2, <1>4, OtherRequests
<1> QED BY <1>1, <1>5, QuietStep

(* A restart finds what is on disk. *)
LEMMA CrashRestarts ==
  ASSUME Crash
  PROVE  Map!DurableNext
<1>1. \A t \in Threads : Request(t)' = Map!NoRequest
  BY NewCalls DEF Crash, Request, At, Map!NoRequest
<1>2. Requests' = [t \in Threads |-> Map!NoRequest]
  BY <1>1 DEF Requests
<1> QED BY <1>2 DEF Crash, Map!DurableNext, Map!Restart

(* Each step is one of the map, or none that firmware could tell. *)
LEMMA NvsStepIsAtomic ==
  ASSUME NvsInv, ~stale, "private" \notin Faults, "save" \notin Kinds, [NvsNext]_nvsVars
  PROVE  [Map!DurableNext]_Map!durableVars
<1>1. Typed /\ Locked /\ Agreeing
  BY DEF NvsInv
<1>2. CASE \E t \in Threads, c \in MutationCalls : Begin(t, c)
  BY <1>1, <1>2, BeginAsks
<1>3. CASE \/ \E t \in Threads, s \in Sizes : RegisterNvs(t, s)
           \/ \E t \in Threads : RemoveNvs(t)
           \/ UNCHANGED nvsVars
  <2>1. UNCHANGED <<disk, acked, call>>
    BY <1>3 DEF RegisterNvs, RemoveNvs, nvsVars
  <2> QED BY <2>1, OtherRequests, QuietStep
<1>4. ASSUME NEW t \in Threads, MutationStep(t) \/ \E fault \in Faults : HostFault(t, fault)
      PROVE  [Map!DurableNext]_Map!durableVars
  <2>1. CASE RenameTemp(t)
    BY <1>1, <2>1, RenameStores
  <2>2. CASE Finish(t)
    BY <1>1, <2>2, FinishAnswers
  <2>3. CASE \/ FindNvs(t) \/ LockNvs(t) \/ Apply(t) \/ CreateTemp(t) \/ SetPrivateFile(t)
             \/ Rollback(t) \/ \E fault \in Faults : HostFault(t, fault)
    BY <1>1, <2>3, OtherStepsAreQuiet
  <2> QED BY <1>4, <2>1, <2>2, <2>3 DEF MutationStep
<1>5. CASE Crash
  BY <1>5, CrashRestarts
<1> QED BY <1>2, <1>3, <1>4, <1>5 DEF NvsNext, AllReturned

(* Every put and removal happens at one moment or not at all, and is       *)
(* reported for what it did, whatever the other threads do, wherever the   *)
(* process dies and whichever write or rename the host refuses, until a    *)
(* store is destroyed under a call (nvs.rs:296).                           *)
THEOREM EveryCallIsAtomic ==
  "private" \notin Faults /\ "save" \notin Kinds => (NvsSpec => CallsAreAtomic)
<1> SUFFICES ASSUME "private" \notin Faults, "save" \notin Kinds
             PROVE  NvsSpec => CallsAreAtomic
  OBVIOUS
<1>1. NvsInv /\ [NvsNext]_nvsVars => [stale \/ Map!DurableNext]_Map!durableVars
  BY NvsStepIsAtomic
<1> QED BY <1>1, NvsInvariant, PTL DEF NvsSpec, CallsAreAtomic

(* The storage implements the durable map that firmware is promised, as    *)
(* long as no store is ever destroyed under a call.                        *)
THEOREM NvsImplementsDurableMap ==
  "private" \notin Faults /\ "save" \notin Kinds
    => (NvsSpec /\ []~stale => Map!DurableSpec)
<1> SUFFICES ASSUME "private" \notin Faults, "save" \notin Kinds
             PROVE  NvsSpec /\ []~stale => Map!DurableSpec
  OBVIOUS
<1>1. NvsInit => Map!DurableInit
  <2> SUFFICES ASSUME NvsInit
               PROVE  Map!DurableInit
    OBVIOUS
  <2>1. \A t \in Threads : Request(t) = Map!NoRequest
    BY NewCalls DEF NvsInit, Request, At, Map!NoRequest
  <2>2. Requests = [t \in Threads |-> Map!NoRequest]
    BY <2>1 DEF Requests
  <2> QED BY <2>2 DEF NvsInit, EmptyImage, Map!DurableInit
<1>2. NvsInv /\ ~stale /\ [NvsNext]_nvsVars => [Map!DurableNext]_Map!durableVars
  BY NvsStepIsAtomic
<1> QED BY <1>1, <1>2, NvsInvariant, PTL DEF NvsSpec, Map!DurableSpec
=============================================================================
