------------------------------ MODULE WireProofs ------------------------------
(***************************************************************************)
(* Proofs about InputQueues and Wire for every number of devices, wires,   *)
(* events and calls, and every size of the queues.  Two arguments.  For    *)
(* the queues: what firmware was told, followed by what is queued, ends in *)
(* the present state of each key, as only a dropped event breaks it.  For  *)
(* the keys: the bytes a wire has read or is about to read, followed by    *)
(* those its keyboard still queues, are in the order they were typed in,   *)
(* and no byte is in two places.                                           *)
(***************************************************************************)
EXTENDS Wire, SequenceTheorems, TLAPS

-----------------------------------------------------------------------------
(* What the input manager keeps. *)

Device ==
  [owned : BOOLEAN, queue : Seq([at : Nat, upper : BOOLEAN]), keyMode : BOOLEAN, persist : BOOLEAN,
   contact : BOOLEAN, backlight : Bytes]

(* Which queue the events of a source go to, and the state they tell. *)
QueueOf(m, s) == IF s = Pointer THEN m.touches ELSE IF s = Up THEN m.ball ELSE m.keys
StateOf(m, s) == IF s = Pointer THEN m.pressing ELSE s \in m.held

(* Two sources whose events go to one queue. *)
Alike(r, s) == (r = Pointer <=> s = Pointer) /\ (r = Up <=> s = Up)
Sorted(m) ==
  \A s \in Sources : /\ Len(QueueOf(m, s)) <= QueueCapacity
                     /\ \A i \in 1..Len(QueueOf(m, s)) : Alike(QueueOf(m, s)[i].of, s)

(* The last event of s in the queue tells its state; without one firmware  *)
(* was told.                                                               *)
Tells(queue, s, old, state) ==
  /\ \A i \in 1..Len(queue) :
       queue[i].of = s /\ (\A j \in 1..Len(queue) : j > i => queue[j].of # s)
       => queue[i].pressed = state
  /\ (\A i \in 1..Len(queue) : queue[i].of # s) => old = state

Kept(m, all) ==
  /\ m \in InputManager /\ m.device \in 1..Len(all) /\ Sorted(m)
  /\ all[m.device].contact = m.pressing /\ (m.pressing => m.known)
Truthful(m, t, lost) ==
  \A s \in Sources \ lost :
    /\ Tells(QueueOf(m, s), s, t[s], StateOf(m, s))
    /\ s # Pointer => ToldInTurn(QueueOf(m, s), s, t[s])

InputInv ==
  /\ devices \in Seq(Device) /\ retained \in Bytes \cup {None}
  /\ told \in [Sources -> BOOLEAN] /\ missed \in SUBSET Sources
  /\ injected \in Nat /\ hostEvents \in Nat
  /\ window \in BOOLEAN /\ (window => manager # None) /\ finger \in BOOLEAN
  /\ manager # None => /\ Kept(manager, devices) /\ Truthful(manager, told, missed)
                       /\ manager.pressing = finger
  /\ manager = None => told = [s \in Sources |-> FALSE] /\ missed = {} /\ finger = FALSE

-----------------------------------------------------------------------------
(* Where the key bytes are. *)

DeviceIds == 1..Len(devices)
ShimTyped(s, ids) ==
  /\ s \in Shim /\ s.keyboard \in ids /\ s.gt911 \in ids
  /\ s.rx = << >> \/ (Len(s.rx) = 1 /\ s.rx[1].of \in ids \cup {0})
  /\ s.at <= Len(s.rx)

WireTyped ==
  /\ wires \in [Wires -> Shim \cup {None}]
  /\ \A w \in Wires : wires[w] = None \/ ShimTyped(wires[w], DeviceIds)
  /\ handles \subseteq DeviceIds /\ powered \in BOOLEAN
  /\ got \in [Wires -> Seq([of : Nat, at : Nat])]
  /\ \A w \in Wires : \A i \in 1..Len(got[w]) : got[w][i].of \in DeviceIds

(* The key byte that a wire has fetched and not yet read. *)
Pending(w) ==
  /\ wires[w] # None /\ wires[w].rx # << >> /\ wires[w].at = 0
  /\ wires[w].rx[1].of # 0 /\ wires[w].rx[1].at # 0
Taken(w) == IF Pending(w) THEN Append(got[w], wires[w].rx[1]) ELSE got[w]

Queued(d) == devices[d].queue

QueuesOrdered ==
  \A d \in DeviceIds : \A i \in 1..Len(Queued(d)) :
    /\ Queued(d)[i].at \in 1..injected
    /\ \A j \in 1..Len(Queued(d)) : i < j => Queued(d)[i].at < Queued(d)[j].at
    /\ \A e \in DeviceIds : \A j \in 1..Len(Queued(e)) :
         Queued(d)[i].at = Queued(e)[j].at => d = e

TakenOrdered ==
  \A w \in Wires : \A i \in 1..Len(Taken(w)) :
    /\ Taken(w)[i].at \in 1..injected
    /\ \A j \in 1..Len(Taken(w)) :
         i < j /\ Taken(w)[i].of = Taken(w)[j].of => Taken(w)[i].at < Taken(w)[j].at
    /\ \A v \in Wires : \A j \in 1..Len(Taken(v)) : Taken(w)[i].at = Taken(v)[j].at => v = w
    /\ \A d \in DeviceIds : \A j \in 1..Len(Queued(d)) :
         /\ Taken(w)[i].at # Queued(d)[j].at
         /\ Taken(w)[i].of = d => Taken(w)[i].at < Queued(d)[j].at

KeysInv == WireTyped /\ QueuesOrdered /\ TakenOrdered
WireInv == InputInv /\ KeysInv

(* The call under way found its bus in order, and only its rail can have   *)
(* changed since; a request has dropped what was read before.              *)
CallInv ==
  calling # None =>
    /\ calling \in Calls /\ wires[calling.wire] # None
    /\ LET s == wires[calling.wire] IN
       /\ s.begun /\ ~s.stuck /\ (powered \/ late \/ ~s.checked)
       /\ calling.asks # None => s.rx = << >>

-----------------------------------------------------------------------------
(* Facts about the queues. *)

(* An event that is queued is the last word on its source, and on no other. *)
LEMMA TellsAppend ==
  ASSUME NEW queue \in Seq(Events), NEW e \in Events
  PROVE  /\ \A old : Tells(Append(queue, e), e.of, old, e.pressed)
         /\ \A s, old, state : s # e.of /\ Tells(queue, s, old, state)
                                 => Tells(Append(queue, e), s, old, state)
<1> DEFINE n == Len(queue)
           longer == Append(queue, e)
<1>1. /\ n \in Nat /\ Len(longer) = n + 1 /\ longer[n + 1] = e
      /\ \A i \in 1..n : longer[i] = queue[i]
  BY AppendProperties, LenProperties
<1> HIDE DEF longer, n
<1>2. ASSUME NEW old
      PROVE  Tells(longer, e.of, old, e.pressed)
  BY <1>1 DEF Tells
<1>3. ASSUME NEW s, NEW old, NEW state, s # e.of, Tells(queue, s, old, state)
      PROVE  Tells(longer, s, old, state)
  <2>1. ASSUME NEW i \in 1..n + 1, longer[i].of = s, \A j \in 1..n + 1 : j > i => longer[j].of # s
        PROVE  longer[i].pressed = state
    <3>1. i \in 1..n /\ queue[i].of = s /\ longer[i] = queue[i]
      BY <1>1, <1>3, <2>1
    <3>2. \A j \in 1..n : j > i => queue[j].of # s
      BY <1>1, <2>1
    <3> QED BY <1>3, <3>1, <3>2 DEF Tells, n
  <2>2. (\A i \in 1..n + 1 : longer[i].of # s) => \A i \in 1..n : queue[i].of # s
    BY <1>1
  <2> QED BY <1>1, <1>3, <2>1, <2>2 DEF Tells, n
<1> QED BY <1>2, <1>3 DEF longer

(* An event that is polled is told, and the rest of the queue goes on. *)
LEMMA TellsTail ==
  ASSUME NEW queue \in Seq(Events), queue # << >>, NEW s, NEW old, NEW state,
         Tells(queue, s, old, state)
  PROVE  Tells(Tail(queue), s, IF Head(queue).of = s THEN Head(queue).pressed ELSE old, state)
<1> DEFINE n == Len(queue)
           rest == Tail(queue)
<1>1. /\ n \in Nat /\ n > 0 /\ Len(rest) = n - 1 /\ Head(queue) = queue[1]
      /\ \A i \in 1..n - 1 : rest[i] = queue[i + 1]
  BY HeadTailProperties, LenProperties, EmptySeq
<1> HIDE DEF rest, n
<1>2. ASSUME NEW i \in 1..n - 1, rest[i].of = s, \A j \in 1..n - 1 : j > i => rest[j].of # s
      PROVE  rest[i].pressed = state
  <2>1. i + 1 \in 1..n /\ queue[i + 1].of = s /\ rest[i] = queue[i + 1]
    BY <1>1, <1>2
  <2>2. ASSUME NEW j \in 1..n, j > i + 1
        PROVE  queue[j].of # s
    <3>1. j - 1 \in 1..n - 1 /\ j - 1 > i /\ (j - 1) + 1 = j
      BY <1>1, <2>2
    <3> QED BY <1>1, <1>2, <3>1
  <2> QED BY <2>1, <2>2 DEF Tells, n
<1>3. ASSUME \A i \in 1..n - 1 : rest[i].of # s
      PROVE  (IF Head(queue).of = s THEN Head(queue).pressed ELSE old) = state
  <2>1. \A j \in 1..n : j > 1 => queue[j].of # s
    <3> TAKE j \in 1..n
    <3>1. j > 1 => j - 1 \in 1..n - 1 /\ (j - 1) + 1 = j
      BY <1>1
    <3> QED BY <1>1, <1>3, <3>1
  <2>2. 1 \in 1..n
    BY <1>1
  <2>3. CASE Head(queue).of = s
    BY <1>1, <2>1, <2>2, <2>3 DEF Tells, n
  <2>4. CASE Head(queue).of # s
    <3>1. \A i \in 1..n : queue[i].of # s
      BY <1>1, <2>1, <2>4
    <3> QED BY <2>4, <3>1 DEF Tells, n
  <2> QED BY <2>3, <2>4
<1> QED BY <1>1, <1>2, <1>3 DEF Tells, rest

(* An event that says something new comes in turn, and no other source     *)
(* notices.                                                                *)
LEMMA InTurnAppend ==
  ASSUME NEW queue \in Seq(Events), NEW e \in Events
  PROVE  /\ \A old, state : /\ ToldInTurn(queue, e.of, old) /\ Tells(queue, e.of, old, state)
                             /\ e.pressed # state
                             => ToldInTurn(Append(queue, e), e.of, old)
         /\ \A s, old : s # e.of /\ ToldInTurn(queue, s, old) => ToldInTurn(Append(queue, e), s, old)
<1> DEFINE n == Len(queue)
           longer == Append(queue, e)
<1>1. /\ n \in Nat /\ Len(longer) = n + 1 /\ longer[n + 1] = e
      /\ \A i \in 1..n : longer[i] = queue[i]
  BY AppendProperties, LenProperties
<1> HIDE DEF longer, n
<1>2. ASSUME NEW s, NEW old, ToldInTurn(queue, s, old),
             NEW j \in 1..n, NEW i \in 0..n + 1, i < j, longer[j].of = s, i = 0 \/ longer[i].of = s,
             \A l \in 1..n + 1 : i < l /\ l < j => longer[l].of # s
      PROVE  longer[j].pressed # IF i = 0 THEN old ELSE longer[i].pressed
  <2>1. i \in 0..n /\ longer[j] = queue[j] /\ (i # 0 => i \in 1..n /\ longer[i] = queue[i])
    BY <1>1, <1>2
  <2>2. \A l \in 1..n : i < l /\ l < j => queue[l].of # s
    BY <1>1, <1>2
  <2>3. queue[j].pressed # IF i = 0 THEN old ELSE queue[i].pressed
    BY <1>2, <2>1, <2>2 DEF ToldInTurn, n
  <2> QED BY <2>1, <2>3
<1>3. ASSUME NEW old, NEW state, ToldInTurn(queue, e.of, old), Tells(queue, e.of, old, state),
             e.pressed # state
      PROVE  ToldInTurn(longer, e.of, old)
  <2>1. ASSUME NEW i \in 0..n + 1, i < n + 1, i = 0 \/ longer[i].of = e.of,
               \A l \in 1..n + 1 : i < l /\ l < n + 1 => longer[l].of # e.of
        PROVE  e.pressed # IF i = 0 THEN old ELSE longer[i].pressed
    <3>1. \A l \in 1..n : l > i => queue[l].of # e.of
      BY <1>1, <2>1
    <3>2. CASE i = 0
      <4>1. \A l \in 1..n : queue[l].of # e.of
        BY <3>1, <3>2
      <4> QED BY <1>3, <3>2, <4>1 DEF Tells, n
    <3>3. CASE i # 0
      <4>1. i \in 1..n /\ longer[i] = queue[i] /\ queue[i].of = e.of
        BY <1>1, <2>1, <3>3
      <4>2. queue[i].pressed = state
        BY <1>3, <3>1, <4>1 DEF Tells, n
      <4> QED BY <1>3, <3>3, <4>1, <4>2
    <3> QED BY <3>2, <3>3
  <2>2. ASSUME NEW j \in 1..n + 1, NEW i \in 0..n + 1, i < j, longer[j].of = e.of,
               i = 0 \/ longer[i].of = e.of, \A l \in 1..n + 1 : i < l /\ l < j => longer[l].of # e.of
        PROVE  longer[j].pressed # IF i = 0 THEN old ELSE longer[i].pressed
    <3>1. CASE j = n + 1
      BY <1>1, <2>1, <2>2, <3>1
    <3>2. CASE j # n + 1
      <4>1. j \in 1..n
        BY <1>1, <2>2, <3>2
      <4> QED BY <1>2, <1>3, <2>2, <4>1
    <3> QED BY <3>1, <3>2
  <2> QED BY <1>1, <2>2 DEF ToldInTurn
<1>4. ASSUME NEW s, NEW old, s # e.of, ToldInTurn(queue, s, old)
      PROVE  ToldInTurn(longer, s, old)
  <2>1. ASSUME NEW j \in 1..n + 1, NEW i \in 0..n + 1, i < j, longer[j].of = s,
               i = 0 \/ longer[i].of = s, \A l \in 1..n + 1 : i < l /\ l < j => longer[l].of # s
        PROVE  longer[j].pressed # IF i = 0 THEN old ELSE longer[i].pressed
    <3>1. j \in 1..n
      BY <1>1, <1>4, <2>1
    <3> QED BY <1>2, <1>4, <2>1, <3>1
  <2> QED BY <1>1, <2>1 DEF ToldInTurn
<1> QED BY <1>3, <1>4 DEF longer

(* An event that is told leaves the rest in turn. *)
LEMMA InTurnTail ==
  ASSUME NEW queue \in Seq(Events), queue # << >>, NEW s, NEW old, ToldInTurn(queue, s, old)
  PROVE  ToldInTurn(Tail(queue), s, IF Head(queue).of = s THEN Head(queue).pressed ELSE old)
<1> DEFINE n == Len(queue)
           rest == Tail(queue)
           now == IF Head(queue).of = s THEN Head(queue).pressed ELSE old
<1>1. /\ n \in Nat /\ n > 0 /\ Len(rest) = n - 1 /\ Head(queue) = queue[1]
      /\ \A i \in 1..n - 1 : rest[i] = queue[i + 1]
  BY HeadTailProperties, LenProperties, EmptySeq
<1>2. now = IF queue[1].of = s THEN queue[1].pressed ELSE old
  BY <1>1
<1> HIDE DEF rest, n, now
<1>3. ASSUME NEW j \in 1..n - 1, NEW i \in 0..n - 1, i < j, rest[j].of = s, i = 0 \/ rest[i].of = s,
             \A l \in 1..n - 1 : i < l /\ l < j => rest[l].of # s
      PROVE  rest[j].pressed # IF i = 0 THEN now ELSE rest[i].pressed
  <2>1. j + 1 \in 1..n /\ rest[j] = queue[j + 1] /\ 1 \in 1..n
    BY <1>1, <1>3
  <2>2. ASSUME NEW l \in 1..n, i + 1 < l, l < j + 1
        PROVE  queue[l].of # s
    <3>1. l - 1 \in 1..n - 1 /\ i < l - 1 /\ l - 1 < j /\ (l - 1) + 1 = l
      BY <1>1, <2>2
    <3> QED BY <1>1, <1>3, <3>1
  <2>3. CASE i # 0
    <3>1. /\ i + 1 \in 0..n /\ i + 1 # 0 /\ i + 1 < j + 1
          /\ rest[i] = queue[i + 1] /\ queue[i + 1].of = s
      BY <1>1, <1>3, <2>3
    <3>2. queue[j + 1].pressed # queue[i + 1].pressed
      BY <1>3, <2>1, <2>2, <3>1 DEF ToldInTurn, n
    <3> QED BY <2>1, <2>3, <3>1, <3>2
  <2>4. CASE i = 0 /\ queue[1].of = s
    <3>1. 1 \in 0..n /\ 1 < j + 1 /\ \A l \in 1..n : 1 < l /\ l < j + 1 => queue[l].of # s
      BY <1>1, <1>3, <2>2, <2>4
    <3>2. queue[j + 1].pressed # queue[1].pressed
      BY <1>3, <2>1, <2>4, <3>1 DEF ToldInTurn, n
    <3> QED BY <1>2, <2>1, <2>4, <3>2
  <2>5. CASE i = 0 /\ queue[1].of # s
    <3>1. ASSUME NEW l \in 1..n, l < j + 1
          PROVE  queue[l].of # s
      <4>1. l = 1 \/ i + 1 < l
        BY <1>1, <2>5, <3>1
      <4> QED BY <2>2, <2>5, <3>1, <4>1
    <3>2. 0 \in 0..n /\ 0 < j + 1
      BY <1>1, <1>3
    <3>3. queue[j + 1].pressed # old
      BY <1>3, <2>1, <3>1, <3>2 DEF ToldInTurn, n
    <3> QED BY <1>2, <2>1, <2>5, <3>3
  <2> QED BY <2>3, <2>4, <2>5
<1> QED BY <1>1, <1>3 DEF ToldInTurn, rest, now

(* Queueing keeps a queue a queue, and within its bound. *)
LEMMA EnqueueKeeps ==
  ASSUME NEW queue \in Seq(Events), NEW e \in Events, Len(queue) <= QueueCapacity
  PROVE  /\ Enqueue(queue, e) \in Seq(Events) /\ Len(Enqueue(queue, e)) <= QueueCapacity
         /\ \A i \in 1..Len(Enqueue(queue, e)) :
              Enqueue(queue, e)[i] = e \/ \E j \in 1..Len(queue) : Enqueue(queue, e)[i] = queue[j]
         /\ ~Full(queue) => Enqueue(queue, e) = Append(queue, e)
         /\ \A s, old, state : s # e.of /\ Tells(queue, s, old, state)
                                 => Tells(Enqueue(queue, e), s, old, state)
         /\ \A s, old : s # e.of /\ ToldInTurn(queue, s, old) => ToldInTurn(Enqueue(queue, e), s, old)
<1>1. Len(queue) \in Nat /\ QueueCapacity \in Nat
  BY InputAssumption, LenProperties
<1>2. CASE Full(queue)
  BY <1>1, <1>2 DEF Full, Enqueue
<1>3. CASE ~Full(queue)
  <2>1. Enqueue(queue, e) = Append(queue, e)
    BY <1>1, <1>3 DEF Full, Enqueue
  <2>2. /\ Append(queue, e) \in Seq(Events) /\ Len(Append(queue, e)) = Len(queue) + 1
        /\ Append(queue, e)[Len(queue) + 1] = e
        /\ \A i \in 1..Len(queue) : Append(queue, e)[i] = queue[i]
    BY AppendProperties
  <2>3. Len(queue) + 1 <= QueueCapacity
    BY <1>1, <1>3 DEF Full
  <2>4. \A i \in 1..Len(queue) + 1 : i = Len(queue) + 1 \/ i \in 1..Len(queue)
    BY <1>1
  <2> HIDE DEF Full
  <2> QED BY <1>3, <2>1, <2>2, <2>3, <2>4, TellsAppend, InTurnAppend
<1> QED BY <1>2, <1>3

(* A queue with one event less. *)
LEMMA TailKeeps ==
  ASSUME NEW queue \in Seq(Events), queue # << >>
  PROVE  /\ Tail(queue) \in Seq(Events) /\ Head(queue) \in Events
         /\ Len(Tail(queue)) <= Len(queue) /\ Head(queue) = queue[1] /\ 1 \in 1..Len(queue)
         /\ \A i \in 1..Len(Tail(queue)) : \E j \in 1..Len(queue) : Tail(queue)[i] = queue[j]
<1>1. /\ Len(queue) \in Nat /\ Len(queue) > 0 /\ Len(Tail(queue)) = Len(queue) - 1
      /\ Tail(queue) \in Seq(Events) /\ Head(queue) = queue[1] /\ Head(queue) \in Events
      /\ \A i \in 1..Len(queue) - 1 : Tail(queue)[i] = queue[i + 1]
  BY HeadTailProperties, LenProperties, EmptySeq
<1>2. \A i \in 1..Len(queue) - 1 : i + 1 \in 1..Len(queue)
  BY <1>1
<1> QED BY <1>1, <1>2

-----------------------------------------------------------------------------
(* What a handler of the input manager does to its queues. *)

(* The queues of a manager are sequences of events. *)
LEMMA QueuesAreTyped ==
  ASSUME NEW m \in InputManager, NEW s \in Sources
  PROVE  QueueOf(m, s) \in Seq(Events)
BY DEF InputManager, QueueOf

(* A handler that queues the new state of one source (of the pointer also  *)
(* the same one again), and lists it as missed where its queue is full,    *)
(* keeps firmware's account of all.                                        *)
LEMMA QueueingKeeps ==
  ASSUME NEW m \in InputManager, NEW new \in InputManager, NEW e \in Events,
         NEW t, NEW lost, Sorted(m), Truthful(m, t, lost),
         \A s \in Sources : QueueOf(new, s) = IF Alike(s, e.of) THEN Enqueue(QueueOf(m, s), e)
                                              ELSE QueueOf(m, s),
         \A s \in Sources \ {e.of} : StateOf(new, s) = StateOf(m, s),
         StateOf(new, e.of) = e.pressed, e.of # Pointer => e.pressed # StateOf(m, e.of)
  PROVE  /\ Sorted(new)
         /\ Truthful(new, t, IF Full(QueueOf(m, e.of)) THEN lost \cup {e.of} ELSE lost)
<1>1. e.of \in Sources
  BY DEF Events
<1>2. ASSUME NEW s \in Sources
      PROVE  /\ QueueOf(m, s) \in Seq(Events) /\ Len(QueueOf(m, s)) <= QueueCapacity
             /\ \A i \in 1..Len(QueueOf(m, s)) : Alike(QueueOf(m, s)[i].of, s)
  BY <1>2, QueuesAreTyped DEF Sorted
<1>3. Sorted(new)
  <2> SUFFICES ASSUME NEW s \in Sources
               PROVE  /\ Len(QueueOf(new, s)) <= QueueCapacity
                      /\ \A i \in 1..Len(QueueOf(new, s)) : Alike(QueueOf(new, s)[i].of, s)
    BY DEF Sorted
  <2>1. CASE ~Alike(s, e.of)
    BY <1>2, <2>1
  <2>2. CASE Alike(s, e.of)
    <3>1. /\ Len(QueueOf(new, s)) <= QueueCapacity
          /\ \A i \in 1..Len(QueueOf(new, s)) :
               QueueOf(new, s)[i] = e \/ \E j \in 1..Len(QueueOf(m, s)) : QueueOf(new, s)[i] = QueueOf(m, s)[j]
      <4>1. QueueOf(new, s) = Enqueue(QueueOf(m, s), e)
        BY <2>2
      <4>2. ASSUME NEW q \in Seq(Events), Len(q) <= QueueCapacity
            PROVE  /\ Len(Enqueue(q, e)) <= QueueCapacity
                   /\ \A i \in 1..Len(Enqueue(q, e)) :
                        Enqueue(q, e)[i] = e \/ \E j \in 1..Len(q) : Enqueue(q, e)[i] = q[j]
        BY <4>2, EnqueueKeeps
      <4> QED BY <1>2, <4>1, <4>2
    <3>2. Alike(e.of, s)
      BY <2>2 DEF Alike
    <3> QED BY <1>2, <3>1, <3>2
  <2> QED BY <2>1, <2>2
<1>4. ASSUME NEW s \in Sources, s # e.of, s \notin lost
      PROVE  /\ Tells(QueueOf(new, s), s, t[s], StateOf(new, s))
             /\ s # Pointer => ToldInTurn(QueueOf(new, s), s, t[s])
  <2>1. /\ Tells(QueueOf(m, s), s, t[s], StateOf(m, s)) /\ StateOf(new, s) = StateOf(m, s)
        /\ s # Pointer => ToldInTurn(QueueOf(m, s), s, t[s])
    BY <1>4 DEF Truthful
  <2>2. CASE Alike(s, e.of)
    <3>1. QueueOf(new, s) = Enqueue(QueueOf(m, s), e)
      BY <2>2
    <3>2. Tells(Enqueue(QueueOf(m, s), e), s, t[s], StateOf(m, s))
      BY <1>2, <1>4, <2>1, EnqueueKeeps
    <3>3. s # Pointer => ToldInTurn(Enqueue(QueueOf(m, s), e), s, t[s])
      BY <1>2, <1>4, <2>1, EnqueueKeeps
    <3> QED BY <2>1, <3>1, <3>2, <3>3
  <2>3. CASE ~Alike(s, e.of)
    BY <2>1, <2>3
  <2> QED BY <2>2, <2>3
<1>5. ASSUME ~Full(QueueOf(m, e.of))
      PROVE  /\ Tells(QueueOf(new, e.of), e.of, t[e.of], StateOf(new, e.of))
             /\ e.of # Pointer /\ e.of \notin lost => ToldInTurn(QueueOf(new, e.of), e.of, t[e.of])
  <2>1. QueueOf(new, e.of) = Append(QueueOf(m, e.of), e)
    <3>1. Alike(e.of, e.of)
      BY DEF Alike
    <3> QED BY <1>1, <1>2, <1>5, <3>1, EnqueueKeeps
  <2>2. Tells(QueueOf(new, e.of), e.of, t[e.of], StateOf(new, e.of))
    BY <1>1, <1>2, <2>1, TellsAppend
  <2>3. ASSUME e.of # Pointer, e.of \notin lost
        PROVE  ToldInTurn(QueueOf(new, e.of), e.of, t[e.of])
    <3>1. /\ ToldInTurn(QueueOf(m, e.of), e.of, t[e.of])
          /\ Tells(QueueOf(m, e.of), e.of, t[e.of], StateOf(m, e.of)) /\ e.pressed # StateOf(m, e.of)
      BY <1>1, <2>3 DEF Truthful
    <3> QED BY <1>1, <1>2, <2>1, <3>1, InTurnAppend
  <2> QED BY <2>2, <2>3
<1>6. Truthful(new, t, IF Full(QueueOf(m, e.of)) THEN lost \cup {e.of} ELSE lost)
  <2>1. CASE Full(QueueOf(m, e.of))
    BY <1>4, <2>1 DEF Truthful
  <2>2. CASE ~Full(QueueOf(m, e.of))
    BY <1>4, <1>5, <2>2 DEF Truthful
  <2> QED BY <2>1, <2>2
<1> QED BY <1>3, <1>6

(* A handler that leaves the queues and the states alone. *)
LEMMA StandingKeeps ==
  ASSUME NEW m, NEW new, NEW t, NEW lost, Sorted(m), Truthful(m, t, lost),
         \A s \in Sources : QueueOf(new, s) = QueueOf(m, s) /\ StateOf(new, s) = StateOf(m, s)
  PROVE  Sorted(new) /\ Truthful(new, t, lost)
BY DEF Sorted, Truthful

(* Firmware polls one queue and is told the event. *)
LEMMA PollingKeeps ==
  ASSUME NEW m \in InputManager, NEW new \in InputManager, NEW r \in Sources,
         NEW t \in [Sources -> BOOLEAN], NEW lost, Sorted(m), Truthful(m, t, lost),
         QueueOf(m, r) # << >>,
         \A s \in Sources : /\ QueueOf(new, s) = IF Alike(s, r) THEN Tail(QueueOf(m, s)) ELSE QueueOf(m, s)
                            /\ StateOf(new, s) = StateOf(m, s)
  PROVE  LET e == Head(QueueOf(m, r)) IN
         /\ Sorted(new) /\ Truthful(new, [t EXCEPT ![e.of] = e.pressed], lost)
         /\ e \in Events
<1> DEFINE e == Head(QueueOf(m, r))
<1>1. ASSUME NEW s \in Sources
      PROVE  /\ QueueOf(m, s) \in Seq(Events) /\ Len(QueueOf(m, s)) <= QueueCapacity
             /\ \A i \in 1..Len(QueueOf(m, s)) : Alike(QueueOf(m, s)[i].of, s)
  BY <1>1, QueuesAreTyped DEF Sorted
<1>2. e \in Events /\ Alike(e.of, r)
  BY <1>1, TailKeeps
<1>3. ASSUME NEW s \in Sources, Alike(s, r)
      PROVE  QueueOf(m, s) = QueueOf(m, r)
  BY <1>3 DEF Alike, QueueOf
<1>4. Sorted(new)
  <2> SUFFICES ASSUME NEW s \in Sources
               PROVE  /\ Len(QueueOf(new, s)) <= QueueCapacity
                      /\ \A i \in 1..Len(QueueOf(new, s)) : Alike(QueueOf(new, s)[i].of, s)
    BY DEF Sorted
  <2>1. CASE ~Alike(s, r)
    BY <1>1, <2>1
  <2>2. CASE Alike(s, r)
    <3>1. QueueOf(m, s) # << >> /\ QueueOf(new, s) = Tail(QueueOf(m, s))
      BY <1>3, <2>2
    <3>2. /\ Len(QueueOf(new, s)) <= Len(QueueOf(m, s)) /\ QueueOf(new, s) \in Seq(Events)
          /\ \A i \in 1..Len(QueueOf(new, s)) : \E j \in 1..Len(QueueOf(m, s)) : QueueOf(new, s)[i] = QueueOf(m, s)[j]
      BY <1>1, <3>1, TailKeeps
    <3>3. Len(QueueOf(new, s)) <= QueueCapacity
      <4>1. Len(QueueOf(new, s)) \in Nat /\ Len(QueueOf(m, s)) \in Nat /\ QueueCapacity \in Nat
        BY <1>1, <3>2, LenProperties, InputAssumption
      <4> QED BY <1>1, <3>2, <4>1
    <3>4. ASSUME NEW i \in 1..Len(QueueOf(new, s))
          PROVE  Alike(QueueOf(new, s)[i].of, s)
      BY <1>1, <3>2
    <3> QED BY <3>3, <3>4
  <2> QED BY <2>1, <2>2
<1>5. ASSUME NEW s \in Sources \ lost
      PROVE  /\ Tells(QueueOf(new, s), s, [t EXCEPT ![e.of] = e.pressed][s], StateOf(new, s))
             /\ s # Pointer => ToldInTurn(QueueOf(new, s), s, [t EXCEPT ![e.of] = e.pressed][s])
  <2>1. /\ Tells(QueueOf(m, s), s, t[s], StateOf(m, s))
        /\ s # Pointer => ToldInTurn(QueueOf(m, s), s, t[s])
    BY <1>5 DEF Truthful
  <2>2. e.of \in Sources /\ [t EXCEPT ![e.of] = e.pressed][s] = IF e.of = s THEN e.pressed ELSE t[s]
    BY <1>2 DEF Events
  <2>3. CASE Alike(s, r)
    <3>1. QueueOf(m, s) # << >> /\ QueueOf(new, s) = Tail(QueueOf(m, s)) /\ Head(QueueOf(m, s)) = e
      BY <1>3, <2>3
    <3> HIDE DEF e
    <3>2. Tells(Tail(QueueOf(m, s)), s, IF e.of = s THEN e.pressed ELSE t[s], StateOf(m, s))
      BY <1>1, <2>1, <3>1, TellsTail
    <3>3. s # Pointer => ToldInTurn(Tail(QueueOf(m, s)), s, IF e.of = s THEN e.pressed ELSE t[s])
      BY <1>1, <2>1, <3>1, InTurnTail
    <3> QED BY <2>2, <3>1, <3>2, <3>3
  <2>4. CASE ~Alike(s, r)
    <3>1. e.of # s
      BY <1>2, <2>4 DEF Alike
    <3> QED BY <2>1, <2>2, <2>4, <3>1
  <2> QED BY <2>3, <2>4
<1>6. Truthful(new, [t EXCEPT ![e.of] = e.pressed], lost)
  BY <1>5 DEF Truthful
<1> QED BY <1>2, <1>4, <1>6

-----------------------------------------------------------------------------
(* What a handler does to a device and to a manager. *)

(* A key byte that is given to a keyboard changes its queue only. *)
LEMMA InjectKeyByteKeeps ==
  ASSUME NEW d \in Device, NEW u \in BOOLEAN, injected \in Nat
  PROVE  LET new == InjectKeyByte(d, u) IN
         /\ new \in Device /\ new.queue = Append(d.queue, [at |-> injected + 1, upper |-> u])
         /\ new.contact = d.contact /\ new.keyMode = d.keyMode /\ new.backlight = d.backlight
<1>1. [at |-> injected + 1, upper |-> u] \in [at : Nat, upper : BOOLEAN]
  OBVIOUS
<1>2. Append(d.queue, [at |-> injected + 1, upper |-> u]) \in Seq([at : Nat, upper : BOOLEAN])
  BY <1>1, AppendProperties DEF Device
<1> QED BY <1>2 DEF InjectKeyByte, Device

(* A keyboard that is written to, or read, keeps its contact. *)
LEMMA WrittenToKeeps ==
  ASSUME NEW d \in Device, NEW bytes \in Seq(Bytes)
  PROVE  LET new == WrittenTo(d, bytes) IN
         /\ new \in Device /\ new.queue = d.queue /\ new.contact = d.contact
         /\ retained \in Bytes \cup {None} => RetainedBy(d, bytes) \in Bytes \cup {None}
<1>1. Len(bytes) > 1 => bytes[2] \in Bytes
  <2>1. Len(bytes) \in Nat /\ \A i \in 1..Len(bytes) : bytes[i] \in Bytes
    BY LenProperties, ElementOfSeq
  <2> QED BY <2>1
<1> QED BY <1>1 DEF WrittenTo, RetainedBy, Device

(* A fetched byte leaves the queue of its keyboard and nothing else        *)
(* changes.                                                                *)
LEMMA AfterKeyByteKeeps ==
  ASSUME NEW d \in Device
  PROVE  LET new == AfterKeyByte(d) IN
         /\ new \in Device /\ new.contact = d.contact
         /\ new.keyMode = d.keyMode /\ new.backlight = d.backlight
         /\ IF d.keyMode /\ d.queue # << >> THEN new.queue = Tail(d.queue) ELSE new = d
<1>1. d.queue # << >> => Tail(d.queue) \in Seq([at : Nat, upper : BOOLEAN])
  BY HeadTailProperties DEF Device
<1> QED BY <1>1 DEF AfterKeyByte, Device

(* A new device, and a new manager that uses it. *)
LEMMA NewDeviceKeeps ==
  ASSUME retained \in Bytes \cup {None}
  PROVE  /\ NewDevice \in Device /\ NewDevice.queue = << >> /\ NewDevice.contact = FALSE
<1>1. Dark \in Bytes
  BY InputAssumption DEF Bytes
<1>2. << >> \in Seq([at : Nat, upper : BOOLEAN])
  BY EmptySeq
<1> QED BY <1>1, <1>2 DEF NewDevice, Device

(* A device of no instance. *)
LEMMA LegacyDeviceKeeps ==
  ASSUME retained \in Bytes \cup {None}, NEW light \in Lights
  PROVE  LET new == LegacyDevice(light) IN
         new \in Device /\ new.queue = << >> /\ new.contact = FALSE
<1>1. \A old \in Device :
        LET new == [old EXCEPT !.owned = FALSE, !.backlight = light] IN
        new \in Device /\ new.queue = old.queue /\ new.contact = old.contact
  BY DEF Device, Bytes
<1> QED BY <1>1, NewDeviceKeeps DEF LegacyDevice

(* A new manager has told nothing and has nothing to tell. *)
LEMMA NewManagerKeeps ==
  ASSUME NEW d \in Nat \ {0}
  PROVE  LET m == NewManager(d) IN
         /\ m \in InputManager /\ m.device = d /\ m.pressing = FALSE /\ Sorted(m)
         /\ \A s \in Sources : QueueOf(m, s) = << >> /\ StateOf(m, s) = FALSE
         /\ \A lost : Truthful(m, [s \in Sources |-> FALSE], lost)
<1> DEFINE m == NewManager(d)
<1>1. /\ m.device = d /\ m.pressing = FALSE /\ m.held = {}
      /\ m.touches = << >> /\ m.keys = << >> /\ m.ball = << >>
  BY DEF NewManager
<1>2. m \in InputManager
  <2>1. << >> \in Seq(Events)
    BY EmptySeq
  <2> QED BY <2>1 DEF NewManager, InputManager
<1>3. \A s \in Sources : QueueOf(m, s) = << >> /\ StateOf(m, s) = FALSE
  BY <1>1 DEF QueueOf, StateOf
<1>4. Len(<< >>) = 0 /\ QueueCapacity >= 0 /\ 1..0 = {}
  BY InputAssumption
<1>5. Sorted(m)
  BY <1>3, <1>4 DEF Sorted
<1>6. \A lost : Truthful(m, [s \in Sources |-> FALSE], lost)
  <2>1. \A s : Tells(<< >>, s, FALSE, FALSE) /\ ToldInTurn(<< >>, s, FALSE)
    BY <1>4 DEF Tells, ToldInTurn
  <2>2. \A s \in Sources : [r \in Sources |-> FALSE][s] = FALSE
    OBVIOUS
  <2> HIDE DEF m
  <2> QED BY <1>3, <2>1, <2>2 DEF Truthful
<1> QED BY <1>1, <1>2, <1>3, <1>5, <1>6

(* The manager and the devices a call finds or makes. *)
LEMMA ManagerIsKept ==
  ASSUME InputInv
  PROVE  /\ Devices \in Seq(Device) /\ Len(devices) \in Nat /\ Len(Devices) \in Nat
         /\ Len(devices) <= Len(Devices) /\ \A i \in 1..Len(devices) : Devices[i] = devices[i]
         /\ \A i \in 1..Len(Devices) : i \notin 1..Len(devices) => Devices[i] = NewDevice
         /\ Kept(Manager, Devices) /\ Truthful(Manager, told, missed)
         /\ Manager # None /\ Manager.pressing = finger
<1>1. devices \in Seq(Device) /\ Len(devices) \in Nat /\ retained \in Bytes \cup {None}
  BY LenProperties DEF InputInv
<1>2. CASE manager # None
  BY <1>1, <1>2 DEF InputInv, Manager, Devices
<1>3. CASE manager = None
  <2>1. /\ Devices = Append(devices, NewDevice) /\ Manager = NewManager(Len(devices) + 1)
        /\ told = [s \in Sources |-> FALSE] /\ finger = FALSE
    BY <1>3 DEF InputInv, Manager, Devices
  <2>2. NewDevice \in Device /\ NewDevice.contact = FALSE
    BY <1>1, NewDeviceKeeps
  <2>3. /\ Devices \in Seq(Device) /\ Len(Devices) = Len(devices) + 1
        /\ Devices[Len(devices) + 1] = NewDevice
        /\ \A i \in 1..Len(devices) : Devices[i] = devices[i]
    BY <1>1, <2>1, <2>2, AppendProperties
  <2>4. /\ Manager \in InputManager /\ Manager.device = Len(devices) + 1
        /\ Manager.pressing = FALSE /\ Sorted(Manager) /\ Truthful(Manager, told, missed)
    <3>1. Len(devices) + 1 \in Nat \ {0}
      BY <1>1
    <3> QED BY <2>1, <3>1, NewManagerKeeps
  <2>5. Len(devices) + 1 \in 1..Len(Devices) /\ Devices[Len(devices) + 1].contact = FALSE
    BY <1>1, <2>2, <2>3
  <2>6. Kept(Manager, Devices)
    BY <2>4, <2>5 DEF Kept
  <2>7. Manager # None
    BY <2>4, NoneIsNoManager
  <2>8. /\ \A i \in 1..Len(Devices) : i \notin 1..Len(devices) => Devices[i] = NewDevice
        /\ Len(Devices) \in Nat /\ Len(devices) <= Len(Devices)
    BY <1>1, <2>3
  <2>9. Manager.pressing = finger
    BY <2>1, <2>4
  <2> QED BY <1>1, <2>3, <2>4, <2>6, <2>7, <2>8, <2>9
<1> QED BY <1>2, <1>3

(* What handle_keycode makes of a manager. *)
LEMMA WithKeyKeeps ==
  ASSUME NEW m \in InputManager, Sorted(m), NEW k \in Keys, NEW pressed \in BOOLEAN,
         KeyChanges(m, k, pressed)
  PROVE  LET new == WithKey(m, k, pressed) IN
         /\ new \in InputManager /\ new.device = m.device
         /\ new.pressing = m.pressing /\ new.known = m.known
         /\ \A s \in Sources :
              /\ QueueOf(new, s) = IF Alike(s, k) THEN Enqueue(QueueOf(m, s), Event(k, pressed))
                                   ELSE QueueOf(m, s)
              /\ s # k => StateOf(new, s) = StateOf(m, s)
         /\ StateOf(new, k) = pressed
<1> DEFINE new == WithKey(m, k, pressed)
           held == IF pressed THEN m.held \cup {k} ELSE m.held \ {k}
           e == Event(k, pressed)
<1>1. e \in Events /\ Sources = Keys \cup {Pointer} /\ Pointer \notin Keys /\ Up \in Sources
  BY InputAssumption DEF Event, Events, Sources, Keys
<1>2. ASSUME NEW s \in Sources
      PROVE  Enqueue(QueueOf(m, s), e) \in Seq(Events)
  BY <1>1, QueuesAreTyped, EnqueueKeeps DEF Sorted
<1>3. Letter \in Sources /\ Letter # Up /\ Letter # Pointer /\ Up # Pointer
  BY <1>1, InputAssumption DEF Sources, Keys
<1>4. Enqueue(m.ball, e) \in Seq(Events) /\ Enqueue(m.keys, e) \in Seq(Events)
  <2>1. QueueOf(m, Up) = m.ball /\ QueueOf(m, Letter) = m.keys
    BY <1>3 DEF QueueOf
  <2> QED BY <1>1, <1>2, <1>3, <2>1
<1>5. CASE k = Up
  <2>1. new = [m EXCEPT !.held = held, !.ball = Enqueue(m.ball, e),
                        !.edges = IF pressed /\ m.intr THEN m.edges + 1 ELSE m.edges]
    BY <1>5 DEF WithKey
  <2>2. /\ new \in InputManager /\ new.device = m.device /\ new.pressing = m.pressing
        /\ new.known = m.known /\ new.touches = m.touches /\ new.keys = m.keys
        /\ new.ball = Enqueue(m.ball, e) /\ new.held = held
    <3>1. held \in SUBSET Keys /\ (IF pressed /\ m.intr THEN m.edges + 1 ELSE m.edges) \in Nat
      BY DEF InputManager
    <3> HIDE DEF new, e, held
    <3> QED BY <1>4, <2>1, <3>1 DEF InputManager
  <2> HIDE DEF new, e
  <2>3. ASSUME NEW s \in Sources
        PROVE  QueueOf(new, s) = IF Alike(s, k) THEN Enqueue(QueueOf(m, s), e) ELSE QueueOf(m, s)
    BY <1>1, <1>5, <2>2 DEF QueueOf, Alike
  <2>4. \A s \in Sources : s # k => StateOf(new, s) = StateOf(m, s)
    BY <1>1, <2>2 DEF StateOf
  <2>5. StateOf(new, k) = pressed
    BY <1>1, <2>2 DEF StateOf
  <2> QED BY <2>2, <2>3, <2>4, <2>5 DEF new, e
<1>6. CASE k # Up
  <2>1. new = [m EXCEPT !.held = held, !.keys = Enqueue(m.keys, e)]
    BY <1>6 DEF WithKey
  <2>2. /\ new \in InputManager /\ new.device = m.device /\ new.pressing = m.pressing
        /\ new.known = m.known /\ new.touches = m.touches /\ new.ball = m.ball
        /\ new.keys = Enqueue(m.keys, e) /\ new.held = held
    <3>1. held \in SUBSET Keys
      BY DEF InputManager
    <3> HIDE DEF new, e, held
    <3> QED BY <1>4, <2>1, <3>1 DEF InputManager
  <2> HIDE DEF new, e
  <2>3. ASSUME NEW s \in Sources
        PROVE  QueueOf(new, s) = IF Alike(s, k) THEN Enqueue(QueueOf(m, s), e) ELSE QueueOf(m, s)
    BY <1>1, <1>6, <2>2 DEF QueueOf, Alike
  <2>4. \A s \in Sources : s # k => StateOf(new, s) = StateOf(m, s)
    BY <1>1, <2>2 DEF StateOf
  <2>5. StateOf(new, k) = pressed
    BY <1>1, <2>2 DEF StateOf
  <2> QED BY <2>2, <2>3, <2>4, <2>5 DEF new, e
<1> QED BY <1>5, <1>6

-----------------------------------------------------------------------------
(* What the host does to the keyboards: a queue has one byte more, the     *)
(* latest, or none has, and a keyboard that is new has none before.        *)

Before(all, i) == IF i \in 1..Len(all) THEN all[i].queue ELSE << >>
Grows(all, more, n, next) ==
  /\ Len(all) \in Nat /\ Len(more) \in Nat /\ Len(all) <= Len(more)
  /\ \/ next = n /\ \A i \in 1..Len(more) : more[i].queue = Before(all, i)
     \/ /\ next = n + 1
        /\ \E d \in 1..Len(more), u \in BOOLEAN : \A i \in 1..Len(more) :
             more[i].queue = IF i = d THEN Append(Before(all, i), [at |-> n + 1, upper |-> u])
                             ELSE Before(all, i)
Types(all, more, n, next) ==
  /\ Grows(all, more, n, next)
  /\ \A i \in 1..Len(all) : more[i].keyMode = all[i].keyMode /\ more[i].backlight = all[i].backlight

(* Another set of devices in which one was changed keeps what the input    *)
(* manager relies on, if the contact is the same.                          *)
LEMMA DeviceChanged ==
  ASSUME NEW all \in Seq(Device), NEW d \in 1..Len(all), NEW new \in Device
  PROVE  /\ [all EXCEPT ![d] = new] \in Seq(Device)
         /\ Len([all EXCEPT ![d] = new]) = Len(all) /\ Len(all) \in Nat
         /\ \A i \in 1..Len(all) : [all EXCEPT ![d] = new][i] = IF i = d THEN new ELSE all[i]
         /\ all[d] \in Device
BY ExceptSeq, LenProperties, ElementOfSeq

(* A manager does not notice devices that are added after its own. *)
LEMMA SameContacts ==
  ASSUME NEW m, NEW all, NEW more, Kept(m, all), Len(all) \in Nat, Len(more) \in Nat,
         Len(all) <= Len(more),
         \A i \in 1..Len(all) : more[i].contact = all[i].contact
  PROVE  Kept(m, more)
BY DEF Kept

(* The handler of a key. *)
LEMMA HandleKeycodeKeeps ==
  ASSUME NEW m, NEW all \in Seq(Device), Kept(m, all), Truthful(m, told, missed),
         missed \in SUBSET Sources, injected \in Nat,
         NEW k \in Keys, NEW pressed \in BOOLEAN, HandleKeycode(m, all, k, pressed)
  PROVE  /\ devices' \in Seq(Device) /\ Kept(manager', devices') /\ manager'.pressing = m.pressing
         /\ Truthful(manager', told, missed')
         /\ missed' \in SUBSET Sources /\ injected' \in Nat
         /\ Types(all, devices', injected, injected')
<1>1. m \in InputManager /\ Sorted(m) /\ m.device \in 1..Len(all) /\ Len(all) \in Nat
  BY LenProperties DEF Kept
<1>2. k \in Sources /\ k # Pointer
  BY InputAssumption DEF Sources
<1>3. /\ manager' = WithKey(m, k, pressed)
      /\ devices' = [all EXCEPT ![m.device] = TypedOn(m, k, pressed, all[m.device])]
  BY DEF HandleKeycode
<1>4. CASE ~KeyChanges(m, k, pressed)
  <2>1. /\ manager' = m /\ devices' = [all EXCEPT ![m.device] = all[m.device]]
        /\ injected' = injected /\ missed' = missed
    BY <1>4 DEF HandleKeycode, WithKey, TypedOn
  <2>2. devices' = all
    BY <1>1, <2>1
  <2>3. Types(all, devices', injected, injected')
    BY <1>1, <2>1, <2>2 DEF Types, Grows, Before
  <2> QED BY <2>1, <2>2, <2>3
<1>5. CASE KeyChanges(m, k, pressed)
  <2> DEFINE e == Event(k, pressed)
  <2>1. /\ manager' \in InputManager /\ manager'.device = m.device
        /\ manager'.pressing = m.pressing /\ manager'.known = m.known
        /\ \A s \in Sources :
             /\ QueueOf(manager', s) = IF Alike(s, k) THEN Enqueue(QueueOf(m, s), e) ELSE QueueOf(m, s)
             /\ s # k => StateOf(manager', s) = StateOf(m, s)
        /\ StateOf(manager', k) = pressed
    BY <1>1, <1>3, <1>5, WithKeyKeeps
  <2>2. e \in Events /\ e.of = k /\ e.pressed = pressed
    BY <1>2 DEF Event, Events
  <2>3. missed' = IF Full(QueueOf(m, k)) THEN missed \cup {k} ELSE missed
    BY <1>2, <1>5 DEF HandleKeycode, QueueOf
  <2>4. Sorted(manager') /\ Truthful(manager', told, missed')
    <3>1. e.of # Pointer => e.pressed # StateOf(m, e.of)
      BY <1>2, <1>5, <2>2 DEF KeyChanges, StateOf
    <3> HIDE DEF e
    <3> QED BY ZenonT(40), <1>1, <2>1, <2>2, <2>3, <3>1, QueueingKeeps
  <2>5. all[m.device] \in Device
    BY <1>1, ElementOfSeq
  <2>6. CASE k = Letter /\ pressed
    <3> DEFINE u == Shift \in m.held
               new == InjectKeyByte(all[m.device], u)
    <3>0. u \in BOOLEAN
      OBVIOUS
    <3>1. injected' = injected + 1 /\ devices' = [all EXCEPT ![m.device] = new]
      BY <1>3, <1>5, <2>6 DEF HandleKeycode, TypedOn
    <3>2. /\ new \in Device /\ new.contact = all[m.device].contact
          /\ new.queue = Append(all[m.device].queue, [at |-> injected + 1, upper |-> u])
          /\ new.keyMode = all[m.device].keyMode /\ new.backlight = all[m.device].backlight
      <4> HIDE DEF u
      <4> QED BY <2>5, <3>0, InjectKeyByteKeeps
    <3> HIDE DEF new, u
    <3>3. /\ devices' \in Seq(Device) /\ Len(devices') = Len(all)
          /\ \A i \in 1..Len(all) : devices'[i] = IF i = m.device THEN new ELSE all[i]
      BY <1>1, <3>1, <3>2, DeviceChanged
    <3>4. Types(all, devices', injected, injected')
      <4>1. \A i \in 1..Len(devices') :
              devices'[i].queue = IF i = m.device
                                  THEN Append(Before(all, i), [at |-> injected + 1, upper |-> u])
                                  ELSE Before(all, i)
        BY <1>1, <3>2, <3>3 DEF Before
      <4>2. \A i \in 1..Len(all) : /\ devices'[i].keyMode = all[i].keyMode
                                   /\ devices'[i].backlight = all[i].backlight
        BY <3>2, <3>3
      <4>3. m.device \in 1..Len(devices')
        BY <1>1, <3>3
      <4>4. \E d \in 1..Len(devices'), v \in BOOLEAN : \A i \in 1..Len(devices') :
              devices'[i].queue = IF i = d THEN Append(Before(all, i), [at |-> injected + 1, upper |-> v])
                                  ELSE Before(all, i)
        BY <3>0, <4>1, <4>3
      <4>5. Len(all) \in Nat /\ Len(devices') \in Nat /\ Len(all) <= Len(devices')
        BY <1>1, <3>3
      <4> QED BY <3>1, <4>2, <4>4, <4>5 DEF Types, Grows
    <3>5. Kept(manager', devices')
      BY <1>1, <2>1, <2>4, <3>2, <3>3 DEF Kept
    <3>6. injected' \in Nat /\ missed' \in SUBSET Sources
      BY <1>2, <2>3, <3>1
    <3> QED BY <2>1, <2>4, <3>3, <3>4, <3>5, <3>6
  <2>7. CASE ~(k = Letter /\ pressed)
    <3>1. injected' = injected /\ devices' = [all EXCEPT ![m.device] = all[m.device]]
      BY <1>3, <2>7 DEF HandleKeycode, TypedOn
    <3>2. devices' = all
      BY <1>1, <3>1
    <3>3. Types(all, devices', injected, injected')
      BY <1>1, <3>1, <3>2 DEF Types, Grows, Before
    <3>4. Kept(manager', devices')
      BY <1>1, <2>1, <2>4, <3>2 DEF Kept
    <3>5. injected' \in Nat /\ missed' \in SUBSET Sources
      BY <1>2, <2>3, <3>1
    <3> QED BY <2>1, <2>4, <3>2, <3>3, <3>4, <3>5
  <2> QED BY <2>6, <2>7
<1> QED BY <1>4, <1>5

(* The handler of a pointer that has been seen. *)
LEMMA TouchedKeeps ==
  ASSUME NEW m, NEW all \in Seq(Device), Kept(m, all), Truthful(m, told, missed),
         missed \in SUBSET Sources, injected \in Nat,
         m.known, NEW pressed \in BOOLEAN, Touched(m, all, pressed)
  PROVE  /\ devices' \in Seq(Device) /\ Kept(manager', devices') /\ manager'.pressing = pressed
         /\ Truthful(manager', told, missed')
         /\ missed' \in SUBSET Sources /\ injected' \in Nat
         /\ Types(all, devices', injected, injected')
<1> DEFINE e == Event(Pointer, pressed)
           new == [all[m.device] EXCEPT !.contact = pressed]
<1>1. m \in InputManager /\ Sorted(m) /\ m.device \in 1..Len(all) /\ Len(all) \in Nat
  BY LenProperties DEF Kept
<1>2. /\ e \in Events /\ e.of = Pointer /\ e.pressed = pressed
      /\ Pointer \in Sources /\ Pointer \notin Keys /\ Pointer # Up
  BY InputAssumption DEF Event, Events, Sources, Keys
<1>3. /\ manager' = [m EXCEPT !.pressing = pressed, !.touches = Enqueue(m.touches, e)]
      /\ devices' = [all EXCEPT ![m.device] = new] /\ injected' = injected
      /\ missed' = IF Full(QueueOf(m, Pointer)) THEN missed \cup {Pointer} ELSE missed
  BY DEF Touched, QueueOf
<1>4. Enqueue(m.touches, e) \in Seq(Events)
  <2>1. QueueOf(m, Pointer) = m.touches
    BY DEF QueueOf
  <2> HIDE DEF e
  <2> QED BY <1>1, <1>2, <2>1, QueuesAreTyped, EnqueueKeeps DEF Sorted
<1> HIDE DEF e
<1>5. /\ manager' \in InputManager /\ manager'.device = m.device /\ manager'.held = m.held
      /\ manager'.pressing = pressed /\ manager'.known = TRUE
      /\ manager'.touches = Enqueue(m.touches, e)
      /\ manager'.keys = m.keys /\ manager'.ball = m.ball
  BY <1>1, <1>3, <1>4 DEF InputManager
<1>6. ASSUME NEW s \in Sources
      PROVE  QueueOf(manager', s) = IF Alike(s, e.of) THEN Enqueue(QueueOf(m, s), e) ELSE QueueOf(m, s)
  BY <1>2, <1>5 DEF QueueOf, Alike
<1>7. /\ \A s \in Sources \ {e.of} : StateOf(manager', s) = StateOf(m, s)
      /\ StateOf(manager', e.of) = e.pressed
  BY <1>2, <1>5 DEF StateOf
<1>8. Sorted(manager') /\ Truthful(manager', told, missed')
  <2>1. missed' = IF Full(QueueOf(m, e.of)) THEN missed \cup {e.of} ELSE missed
    BY <1>2, <1>3
  <2>2. /\ Sorted(manager')
        /\ Truthful(manager', told, IF Full(QueueOf(m, e.of)) THEN missed \cup {e.of} ELSE missed)
    BY <1>1, <1>2, <1>5, <1>6, <1>7, QueueingKeeps
  <2> QED BY <2>1, <2>2
<1>9. /\ new \in Device /\ new.contact = pressed /\ new.queue = all[m.device].queue
      /\ new.keyMode = all[m.device].keyMode /\ new.backlight = all[m.device].backlight
  <2>1. all[m.device] \in Device
    BY <1>1, ElementOfSeq
  <2> QED BY <2>1 DEF Device
<1> HIDE DEF new
<1>10. /\ devices' \in Seq(Device) /\ Len(devices') = Len(all)
       /\ \A i \in 1..Len(all) : devices'[i] = IF i = m.device THEN new ELSE all[i]
  BY <1>1, <1>3, <1>9, DeviceChanged
<1>11. Kept(manager', devices')
  BY <1>1, <1>5, <1>8, <1>9, <1>10 DEF Kept
<1>12. Types(all, devices', injected, injected')
  BY <1>1, <1>3, <1>9, <1>10 DEF Types, Grows, Before
<1>13. missed' \in SUBSET Sources
  BY <1>2, <1>3
<1> QED BY <1>3, <1>5, <1>8, <1>10, <1>11, <1>12, <1>13

(* To know where the pointer was last changes nothing else. *)
LEMMA KnownKeeps ==
  ASSUME NEW m, NEW all, Kept(m, all), NEW t, NEW lost, Truthful(m, t, lost), NEW inside \in BOOLEAN
  PROVE  LET new == Positioned(m, inside) IN
         /\ Kept(new, all) /\ Truthful(new, t, lost) /\ new.pressing = m.pressing
         /\ inside \/ m.pressing => new.known
<1> DEFINE new == Positioned(m, inside)
<1>1. /\ m \in InputManager /\ Sorted(m) /\ m.device \in 1..Len(all)
      /\ all[m.device].contact = m.pressing /\ (m.pressing => m.known)
  BY DEF Kept
<1>2. /\ new \in InputManager /\ new.device = m.device /\ new.held = m.held
      /\ new.pressing = m.pressing /\ new.known = (m.known \/ inside)
      /\ new.touches = m.touches /\ new.keys = m.keys /\ new.ball = m.ball
  <2>1. (m.known \/ inside) \in BOOLEAN
    BY <1>1 DEF InputManager
  <2>2. \A known \in BOOLEAN : LET n == [m EXCEPT !.known = known] IN
          /\ n \in InputManager /\ n.device = m.device /\ n.held = m.held
          /\ n.pressing = m.pressing /\ n.known = known
          /\ n.touches = m.touches /\ n.keys = m.keys /\ n.ball = m.ball
    BY <1>1 DEF InputManager
  <2> QED BY <2>1, <2>2 DEF Positioned
<1> HIDE DEF new
<1>3. \A s \in Sources : QueueOf(new, s) = QueueOf(m, s) /\ StateOf(new, s) = StateOf(m, s)
  BY <1>2 DEF QueueOf, StateOf
<1>4. Sorted(new) /\ Truthful(new, t, lost)
  BY <1>1, <1>3, StandingKeeps
<1> QED BY <1>1, <1>2, <1>4 DEF Kept, new

(* Nothing typed, and typing on what a call found or made. *)
LEMMA NothingTyped ==
  ASSUME InputInv
  PROVE  /\ Types(devices, devices, injected, injected)
         /\ Types(devices, Devices, injected, injected)
         /\ \A more, next : Types(Devices, more, injected, next) => Types(devices, more, injected, next)
<1>1. /\ Len(devices) \in Nat /\ Len(Devices) \in Nat /\ Len(devices) <= Len(Devices)
      /\ \A i \in 1..Len(devices) : Devices[i] = devices[i]
      /\ \A i \in 1..Len(Devices) : i \notin 1..Len(devices) => Devices[i].queue = << >>
  BY ManagerIsKept, NewDeviceKeeps DEF InputInv
<1>2. Types(devices, devices, injected, injected)
  BY <1>1 DEF Types, Grows, Before
<1>3. \A i : Before(Devices, i) = Before(devices, i)
  BY <1>1 DEF Before
<1>4. Types(devices, Devices, injected, injected)
  BY <1>1, <1>3 DEF Types, Grows, Before
<1>5. ASSUME NEW more, NEW next, Types(Devices, more, injected, next)
      PROVE  Types(devices, more, injected, next)
  <2>1. /\ Len(more) \in Nat /\ Len(devices) <= Len(more)
        /\ \A i \in 1..Len(devices) : /\ more[i].keyMode = devices[i].keyMode
                                      /\ more[i].backlight = devices[i].backlight
    BY <1>1, <1>5 DEF Types, Grows
  <2>2. \/ /\ next = injected
           /\ \A i \in 1..Len(more) : more[i].queue = Before(devices, i)
        \/ /\ next = injected + 1
           /\ \E d \in 1..Len(more), u \in BOOLEAN : \A i \in 1..Len(more) :
                more[i].queue = IF i = d THEN Append(Before(devices, i), [at |-> injected + 1, upper |-> u])
                                ELSE Before(devices, i)
    <3>1. CASE next = injected /\ \A i \in 1..Len(more) : more[i].queue = Before(Devices, i)
      BY <1>3, <3>1
    <3>2. ASSUME next = injected + 1,
                 NEW d \in 1..Len(more), NEW u \in BOOLEAN,
                 \A i \in 1..Len(more) :
                   more[i].queue = IF i = d THEN Append(Before(Devices, i), [at |-> injected + 1, upper |-> u])
                                   ELSE Before(Devices, i)
          PROVE  \A i \in 1..Len(more) :
                   more[i].queue = IF i = d THEN Append(Before(devices, i), [at |-> injected + 1, upper |-> u])
                                   ELSE Before(devices, i)
      BY <1>3, <3>2
    <3> QED BY ZenonT(40), <1>5, <3>1, <3>2 DEF Types, Grows
  <2> QED BY <1>1, <2>1, <2>2 DEF Types, Grows
<1> QED BY <1>2, <1>4, <1>5

-----------------------------------------------------------------------------
(* The input manager keeps its part, and only types on the keyboards. *)

(* At first there is neither a manager nor a device. *)
LEMMA InputStarts == InputInit => InputInv
<1> SUFFICES ASSUME InputInit PROVE InputInv
  OBVIOUS
<1>1. << >> \in Seq(Device)
  BY EmptySeq
<1> QED BY <1>1 DEF InputInit, InputInv

(* Firmware takes the first event of a queue and is told what it says. *)
LEMMA PollStep ==
  ASSUME InputInv, manager # None, NEW r \in Sources, NEW new \in InputManager,
         QueueOf(manager, r) # << >>, Polled(QueueOf(manager, r)), manager' = new,
         /\ new.device = manager.device /\ new.pressing = manager.pressing
         /\ new.known = manager.known /\ new.held = manager.held,
         \A s \in Sources : QueueOf(new, s) = IF Alike(s, r) THEN Tail(QueueOf(manager, s))
                                              ELSE QueueOf(manager, s),
         UNCHANGED <<window, devices, retained, missed, injected, finger, hostEvents>>
  PROVE  InputInv'
<1> DEFINE e == Head(QueueOf(manager, r))
<1>1. /\ manager \in InputManager /\ Sorted(manager) /\ Truthful(manager, told, missed)
      /\ told \in [Sources -> BOOLEAN]
  BY DEF InputInv, Kept
<1>2. \A s \in Sources : StateOf(new, s) = StateOf(manager, s)
  BY DEF StateOf
<1>3. Sorted(new) /\ Truthful(new, [told EXCEPT ![e.of] = e.pressed], missed) /\ e \in Events
  <2> HIDE DEF e
  <2> USE DEF e
  <2> QED BY <1>1, <1>2, PollingKeeps
<1>4. told' = [told EXCEPT ![e.of] = e.pressed]
  BY DEF Polled
<1>5. told' \in [Sources -> BOOLEAN]
  <2>1. e.of \in Sources /\ e.pressed \in BOOLEAN
    BY <1>3 DEF Events
  <2> HIDE DEF e
  <2> QED BY <1>1, <1>4, <2>1
<1>6. Kept(manager', devices') /\ Truthful(manager', told', missed')
  BY <1>1, <1>3, <1>4 DEF InputInv, Kept
<1>7. manager' # None
  BY NoneIsNoManager
<1> QED BY <1>5, <1>6, <1>7 DEF InputInv

(* Every call of the input manager keeps its part and types in order. *)
LEMMA InputStep ==
  ASSUME InputInv, InputNext
  PROVE  InputInv' /\ Types(devices, devices', injected, injected')
<1>1. /\ devices \in Seq(Device) /\ retained \in Bytes \cup {None}
      /\ told \in [Sources -> BOOLEAN] /\ missed \in SUBSET Sources
      /\ injected \in Nat /\ hostEvents \in Nat /\ window \in BOOLEAN /\ finger \in BOOLEAN
  BY DEF InputInv
<1>2. manager # None =>
        /\ Kept(manager, devices) /\ Truthful(manager, told, missed) /\ manager \in InputManager
        /\ manager.pressing = finger
  BY DEF InputInv, Kept
<1>3. /\ Devices \in Seq(Device) /\ Kept(Manager, Devices) /\ Truthful(Manager, told, missed)
      /\ Manager # None /\ Manager.pressing = finger
  BY ManagerIsKept
<1>4. /\ Types(devices, devices, injected, injected) /\ Types(devices, Devices, injected, injected)
      /\ \A more, next : Types(Devices, more, injected, next) => Types(devices, more, injected, next)
  BY NothingTyped
<1>5. HostEvent => hostEvents' \in Nat
  BY <1>1 DEF HostEvent
<1>6. HandleEvent => manager # None
  BY DEF HandleEvent, InputInv
<1>7. ASSUME Kept(manager', devices'), Truthful(manager', told', missed')
      PROVE  manager' # None
  BY <1>7, NoneIsNoManager DEF Kept
<1>8. CASE CreateWindow
  BY <1>1, <1>3, <1>4, <1>7, <1>8 DEF CreateWindow, InputInv
<1>9. CASE DestroyWindow
  BY <1>1, <1>4, <1>9 DEF DestroyWindow, InputInv
<1>10. ASSUME NEW m, NEW all \in Seq(Device), Kept(m, all), Truthful(m, told, missed),
              \A more, next : Types(all, more, injected, next) => Types(devices, more, injected, next),
              Types(devices, all, injected, injected),
              NEW pressed \in BOOLEAN,
              \/ m.known /\ Touched(m, all, pressed)
              \/ Untouched(m, all) /\ m.pressing = pressed,
              UNCHANGED <<retained, told>>, hostEvents' \in Nat, window' \in BOOLEAN,
              finger' = pressed
       PROVE  InputInv' /\ Types(devices, devices', injected, injected')
  <2>1. CASE m.known /\ Touched(m, all, pressed)
    <3>1. /\ devices' \in Seq(Device) /\ Kept(manager', devices') /\ Truthful(manager', told, missed')
          /\ missed' \in SUBSET Sources /\ injected' \in Nat /\ manager'.pressing = pressed
          /\ Types(all, devices', injected, injected')
      BY <1>1, <1>10, <2>1, TouchedKeeps
    <3> QED BY <1>1, <1>7, <1>10, <3>1 DEF InputInv
  <2>2. CASE Untouched(m, all) /\ m.pressing = pressed
    BY <1>1, <1>7, <1>10, <2>2 DEF InputInv, Untouched
  <2> QED BY <1>10, <2>1, <2>2
<1>11. ASSUME NEW inside \in BOOLEAN, NEW pressed \in BOOLEAN, HandleEvent,
              LET m == Positioned(manager, inside) IN
              \/ m.known /\ Touched(m, devices, pressed)
              \/ Untouched(m, devices) /\ m.pressing = pressed,
              UNCHANGED <<window, retained, told>>, finger' = pressed
       PROVE  InputInv' /\ Types(devices, devices', injected, injected')
  <2>1. manager # None /\ hostEvents' \in Nat
    BY <1>5, <1>6, <1>11 DEF HandleEvent
  <2> DEFINE m == Positioned(manager, inside)
  <2>2. Kept(m, devices) /\ Truthful(m, told, missed)
    BY <1>2, <2>1, KnownKeeps
  <2>3. \/ m.known /\ Touched(m, devices, pressed)
        \/ Untouched(m, devices) /\ m.pressing = pressed
    BY <1>11
  <2> HIDE DEF m
  <2> QED BY <1>1, <1>4, <1>10, <1>11, <2>1, <2>2, <2>3
<1>12. ASSUME NEW inside \in BOOLEAN, manager # None
       PROVE  LET m == Positioned(manager, inside) IN
              m.pressing = finger /\ (inside \/ finger => m.known)
  BY <1>2, <1>12, KnownKeeps
<1>22. CASE MouseMotion
  <2> DEFINE m == Positioned(manager, TRUE)
  <2>1. /\ HandleEvent /\ UNCHANGED <<window, retained, told, finger>>
        /\ IF m.pressing THEN Touched(m, devices, TRUE) ELSE Untouched(m, devices)
    BY <1>22 DEF MouseMotion
  <2>2. m.known /\ m.pressing = finger
    BY <1>6, <1>12, <2>1
  <2>3. \/ m.known /\ Touched(m, devices, finger)
        \/ Untouched(m, devices) /\ m.pressing = finger
    BY <1>1, <2>1, <2>2
  <2> QED BY <1>1, <1>11, <2>1, <2>3
<1>23. ASSUME NEW pressed \in BOOLEAN, NEW inside \in BOOLEAN, MouseButton(pressed, inside)
       PROVE  InputInv' /\ Types(devices, devices', injected, injected')
  <2> DEFINE m == Positioned(manager, inside)
  <2>1. /\ HandleEvent /\ UNCHANGED <<window, retained, told>>
        /\ IF (inside \/ ~pressed) /\ m.pressing # pressed
           THEN Touched(m, devices, pressed) ELSE Untouched(m, devices)
        /\ finger' = IF pressed /\ ~inside THEN finger ELSE pressed
    BY <1>23 DEF MouseButton, Tapped
  <2>2. m.pressing = finger /\ (inside \/ finger => m.known)
    BY <1>6, <1>12, <2>1
  <2>3. /\ finger' \in BOOLEAN
        /\ \/ m.known /\ Touched(m, devices, finger')
           \/ Untouched(m, devices) /\ m.pressing = finger'
    <3>1. CASE (inside \/ ~pressed) /\ m.pressing # pressed
      BY <1>1, <2>1, <2>2, <3>1
    <3>2. CASE ~((inside \/ ~pressed) /\ m.pressing # pressed)
      BY <1>1, <2>1, <2>2, <3>2
    <3> QED BY <3>1, <3>2
  <2> QED BY <1>11, <2>1, <2>3
<1>24. ASSUME NEW pressed \in BOOLEAN, NEW inside \in BOOLEAN, InjectTouch(inside, pressed)
       PROVE  InputInv' /\ Types(devices, devices', injected, injected')
  <2>1. hostEvents' \in Nat /\ UNCHANGED <<window, retained, told>>
    BY <1>5, <1>24 DEF InjectTouch
  <2>2. CASE inside
    <3> DEFINE m == Positioned(Manager, TRUE)
    <3>1. Kept(m, Devices) /\ Truthful(m, told, missed) /\ m.known
      BY <1>3, KnownKeeps
    <3>2. Touched(m, Devices, pressed) /\ finger' = pressed
      BY <1>24, <2>2 DEF InjectTouch
    <3> HIDE DEF m
    <3> QED BY <1>1, <1>3, <1>4, <1>10, <2>1, <3>1, <3>2
  <2>3. CASE ~inside
    <3>1. Untouched(Manager, Devices) /\ finger' = finger
      BY <1>24, <2>3 DEF InjectTouch
    <3> QED BY <1>1, <1>3, <1>4, <1>10, <2>1, <3>1
  <2> QED BY <2>2, <2>3
<1>13. ASSUME NEW k \in Keys, NEW pressed \in BOOLEAN, KeyEvent(k, pressed)
       PROVE  InputInv' /\ Types(devices, devices', injected, injected')
  <2>1. /\ manager # None /\ hostEvents' \in Nat /\ UNCHANGED <<window, retained, told, finger>>
        /\ HandleKeycode(manager, devices, k, pressed)
    BY <1>5, <1>6, <1>13 DEF KeyEvent, HandleEvent
  <2>2. /\ devices' \in Seq(Device) /\ Kept(manager', devices') /\ Truthful(manager', told, missed')
        /\ missed' \in SUBSET Sources /\ injected' \in Nat
        /\ Types(devices, devices', injected, injected')
    BY <1>1, <1>2, <2>1, HandleKeycodeKeeps
  <2>3. manager'.pressing = finger'
    BY <1>1, <1>2, <2>1, HandleKeycodeKeeps
  <2> QED BY <1>1, <1>7, <2>1, <2>2, <2>3 DEF InputInv
<1>14. ASSUME NEW k \in Keys, NEW pressed \in BOOLEAN, InjectKey(k, pressed)
       PROVE  InputInv' /\ Types(devices, devices', injected, injected')
  <2>1. /\ hostEvents' \in Nat /\ UNCHANGED <<window, retained, told, finger>>
        /\ HandleKeycode(Manager, Devices, k, pressed)
    BY <1>5, <1>14 DEF InjectKey
  <2>2. /\ devices' \in Seq(Device) /\ Kept(manager', devices') /\ Truthful(manager', told, missed')
        /\ missed' \in SUBSET Sources /\ injected' \in Nat
        /\ Types(Devices, devices', injected, injected')
    BY <1>1, <1>3, <2>1, HandleKeycodeKeeps
  <2>3. manager'.pressing = finger'
    BY <1>1, <1>3, <2>1, HandleKeycodeKeeps
  <2> QED BY <1>1, <1>4, <1>7, <2>1, <2>2, <2>3 DEF InputInv
<1>15. /\ Letter \in Sources /\ Up \in Sources /\ Pointer \in Sources /\ Letter # Up
       /\ Letter # Pointer /\ Up # Pointer
  BY InputAssumption DEF Sources, Keys
<1>16. CASE PollTouch
  <2> DEFINE new == [manager EXCEPT !.touches = Tail(@)]
  <2>1. manager # None /\ manager.touches # << >> /\ manager \in InputManager
    BY <1>2, <1>16 DEF PollTouch
  <2>2. /\ new \in InputManager /\ new.device = manager.device /\ new.pressing = manager.pressing
        /\ new.known = manager.known /\ new.held = manager.held
        /\ new.touches = Tail(manager.touches) /\ new.keys = manager.keys /\ new.ball = manager.ball
    <3>1. Tail(manager.touches) \in Seq(Events)
      BY <2>1, TailKeeps DEF InputManager
    <3> QED BY <2>1, <3>1 DEF InputManager
  <2>3. QueueOf(manager, Pointer) = manager.touches
    BY DEF QueueOf
  <2>4. manager' = new /\ UNCHANGED <<window, devices, retained, missed, injected, finger, hostEvents>>
        /\ Polled(manager.touches)
    BY <1>16 DEF PollTouch
  <2> HIDE DEF new
  <2>5. \A s \in Sources : QueueOf(new, s) = IF Alike(s, Pointer) THEN Tail(QueueOf(manager, s))
                                             ELSE QueueOf(manager, s)
    BY <1>15, <2>2 DEF QueueOf, Alike
  <2>6. InputInv'
    BY <1>15, <2>1, <2>2, <2>3, <2>4, <2>5, PollStep
  <2> QED BY <1>4, <2>4, <2>6
<1>17. CASE PollKeyboard
  <2> DEFINE new == [manager EXCEPT !.keys = Tail(@)]
  <2>1. manager # None /\ manager.keys # << >> /\ manager \in InputManager
    BY <1>2, <1>17 DEF PollKeyboard
  <2>2. /\ new \in InputManager /\ new.device = manager.device /\ new.pressing = manager.pressing
        /\ new.known = manager.known /\ new.held = manager.held
        /\ new.keys = Tail(manager.keys) /\ new.touches = manager.touches /\ new.ball = manager.ball
    <3>1. Tail(manager.keys) \in Seq(Events)
      BY <2>1, TailKeeps DEF InputManager
    <3> QED BY <2>1, <3>1 DEF InputManager
  <2>3. QueueOf(manager, Letter) = manager.keys
    BY <1>15 DEF QueueOf
  <2>4. manager' = new /\ UNCHANGED <<window, devices, retained, missed, injected, finger, hostEvents>>
        /\ Polled(manager.keys)
    BY <1>17 DEF PollKeyboard
  <2> HIDE DEF new
  <2>5. \A s \in Sources : QueueOf(new, s) = IF Alike(s, Letter) THEN Tail(QueueOf(manager, s))
                                             ELSE QueueOf(manager, s)
    BY <1>15, <2>2 DEF QueueOf, Alike
  <2>6. InputInv'
    BY <1>15, <2>1, <2>2, <2>3, <2>4, <2>5, PollStep
  <2> QED BY <1>4, <2>4, <2>6
<1>18. CASE PollTrackball
  <2> DEFINE new == [manager EXCEPT !.ball = Tail(@)]
  <2>1. manager # None /\ manager.ball # << >> /\ manager \in InputManager
    BY <1>2, <1>18 DEF PollTrackball
  <2>2. /\ new \in InputManager /\ new.device = manager.device /\ new.pressing = manager.pressing
        /\ new.known = manager.known /\ new.held = manager.held
        /\ new.ball = Tail(manager.ball) /\ new.touches = manager.touches /\ new.keys = manager.keys
    <3>1. Tail(manager.ball) \in Seq(Events)
      BY <2>1, TailKeeps DEF InputManager
    <3> QED BY <2>1, <3>1 DEF InputManager
  <2>3. QueueOf(manager, Up) = manager.ball
    BY <1>15 DEF QueueOf
  <2>4. manager' = new /\ UNCHANGED <<window, devices, retained, missed, injected, finger, hostEvents>>
        /\ Polled(manager.ball)
    BY <1>18 DEF PollTrackball
  <2> HIDE DEF new
  <2>5. \A s \in Sources : QueueOf(new, s) = IF Alike(s, Up) THEN Tail(QueueOf(manager, s))
                                             ELSE QueueOf(manager, s)
    BY <1>15, <2>2 DEF QueueOf, Alike
  <2>6. InputInv'
    BY <1>15, <2>1, <2>2, <2>3, <2>4, <2>5, PollStep
  <2> QED BY <1>4, <2>4, <2>6
<1>19. ASSUME manager # None, NEW new \in InputManager, manager' = new,
              /\ new.device = manager.device /\ new.pressing = manager.pressing
              /\ new.known = manager.known /\ new.held = manager.held
              /\ new.touches = manager.touches /\ new.keys = manager.keys /\ new.ball = manager.ball,
              UNCHANGED <<window, devices, retained, told, missed, injected, finger>>, hostEvents' \in Nat
       PROVE  InputInv' /\ Types(devices, devices', injected, injected')
  <2>1. \A s \in Sources : QueueOf(new, s) = QueueOf(manager, s) /\ StateOf(new, s) = StateOf(manager, s)
    BY <1>19 DEF QueueOf, StateOf
  <2>2. Sorted(new) /\ Truthful(new, told, missed)
    BY <1>2, <1>19, <2>1, StandingKeeps DEF Kept
  <2>3. Kept(manager', devices') /\ Truthful(manager', told', missed')
    BY <1>2, <1>19, <2>2 DEF Kept
  <2> QED BY <1>1, <1>4, <1>7, <1>19, <2>3 DEF InputInv
<1>20. CASE TakeFallingEdges
  <2> DEFINE new == [manager EXCEPT !.edges = 0]
  <2>1. manager # None /\ manager \in InputManager
    BY <1>2, <1>20 DEF TakeFallingEdges
  <2>2. /\ new \in InputManager /\ new.device = manager.device /\ new.pressing = manager.pressing
        /\ new.known = manager.known /\ new.held = manager.held
        /\ new.touches = manager.touches /\ new.keys = manager.keys /\ new.ball = manager.ball
    BY <2>1 DEF InputManager
  <2>3. /\ manager' = new /\ hostEvents' \in Nat
        /\ UNCHANGED <<window, devices, retained, told, missed, injected, finger>>
    BY <1>1, <1>20 DEF TakeFallingEdges
  <2> HIDE DEF new
  <2> QED BY <1>19, <2>1, <2>2, <2>3
<1>21. ASSUME NEW enabled \in BOOLEAN, SetGpioIntrEnabled(enabled)
       PROVE  InputInv' /\ Types(devices, devices', injected, injected')
  <2> DEFINE new == [manager EXCEPT !.intr = enabled]
  <2>1. manager # None /\ manager \in InputManager
    BY <1>2, <1>21 DEF SetGpioIntrEnabled
  <2>2. /\ new \in InputManager /\ new.device = manager.device /\ new.pressing = manager.pressing
        /\ new.known = manager.known /\ new.held = manager.held
        /\ new.touches = manager.touches /\ new.keys = manager.keys /\ new.ball = manager.ball
    BY <2>1 DEF InputManager
  <2>3. /\ manager' = new /\ hostEvents' \in Nat
        /\ UNCHANGED <<window, devices, retained, told, missed, injected, finger>>
    BY <1>5, <1>21 DEF SetGpioIntrEnabled
  <2> HIDE DEF new
  <2> QED BY <1>19, <2>1, <2>2, <2>3
<1> QED BY <1>8, <1>9, <1>13, <1>14, <1>16, <1>17, <1>18, <1>20, <1>21, <1>22, <1>23, <1>24
        DEF InputNext

-----------------------------------------------------------------------------
(* The bytes a wire has taken, and those that are queued. *)

KeyBytes == [of : Nat, at : Nat]

(* What a wire has read comes before what it has fetched. *)
LEMMA TakenExtendsGot ==
  ASSUME WireTyped, NEW w \in Wires
  PROVE  /\ got[w] \in Seq(KeyBytes) /\ Len(got[w]) \in Nat
         /\ Taken(w) \in Seq(KeyBytes) /\ Len(Taken(w)) \in Nat
         /\ Len(got[w]) <= Len(Taken(w))
         /\ \A i \in 1..Len(got[w]) : Taken(w)[i] = got[w][i]
         /\ Pending(w) => /\ wires[w].rx[1] \in KeyBytes /\ Len(Taken(w)) = Len(got[w]) + 1
                          /\ Taken(w)[Len(got[w]) + 1] = wires[w].rx[1]
<1>1. got[w] \in Seq(KeyBytes) /\ Len(got[w]) \in Nat
  BY LenProperties DEF WireTyped, KeyBytes
<1>2. CASE Pending(w)
  <2>1. wires[w].rx \in Seq(KeyBytes) /\ Len(wires[w].rx) = 1
    BY <1>2 DEF Pending, WireTyped, ShimTyped, Shim, KeyBytes
  <2>2. wires[w].rx[1] \in KeyBytes
    BY <2>1, ElementOfSeq
  <2> QED BY <1>1, <1>2, <2>2, AppendProperties DEF Taken
<1>3. CASE ~Pending(w)
  BY <1>1, <1>3 DEF Taken
<1> QED BY <1>2, <1>3

(* A byte that the host types comes after all that were taken or queued;   *)
(* what a wire drops of its own makes no difference to the others.         *)
LEMMA TypingKeepsOrder ==
  ASSUME InputInv, WireTyped, QueuesOrdered, TakenOrdered,
         Grows(devices, devices', injected, injected'),
         \A w \in Wires : /\ Len(Taken(w)') \in Nat /\ Len(Taken(w)') <= Len(Taken(w))
                          /\ \A i \in 1..Len(Taken(w)') : Taken(w)'[i] = Taken(w)[i]
  PROVE  QueuesOrdered' /\ TakenOrdered'
<1> DEFINE Old(d, j) == /\ d \in DeviceIds /\ j \in 1..Len(Queued(d))
                        /\ Queued(d)'[j] = Queued(d)[j]
           New(d, j) == /\ injected' = injected + 1 /\ Queued(d)'[j].at = injected + 1
                        /\ j = Len(Queued(d)')
<1>1. injected \in Nat /\ injected' \in Nat /\ injected <= injected'
  BY DEF InputInv, Grows
<1>2. ASSUME NEW d \in DeviceIds'
      PROVE  /\ Before(devices, d) \in Seq([at : Nat, upper : BOOLEAN])
             /\ Before(devices, d) # << >> => d \in DeviceIds
             /\ d \in DeviceIds => Before(devices, d) = Queued(d)
  <2>1. CASE d \in DeviceIds
    <3>1. devices[d] \in Device
      BY <2>1, ElementOfSeq DEF InputInv, DeviceIds
    <3> QED BY <2>1, <3>1 DEF Before, DeviceIds, Device, Queued
  <2>2. CASE d \notin DeviceIds
    BY <2>2, EmptySeq DEF Before, DeviceIds
  <2> QED BY <2>1, <2>2
<1>3. ASSUME NEW d \in DeviceIds', NEW j \in 1..Len(Queued(d)')
      PROVE  Old(d, j) \/ New(d, j)
  <2>1. CASE Queued(d)' = Before(devices, d)
    <3>1. Before(devices, d) # << >>
      <4>1. Len(<< >>) = 0 /\ 1..0 = {}
        OBVIOUS
      <4> QED BY <1>3, <2>1, <4>1
    <3> QED BY <1>2, <1>3, <2>1, <3>1
  <2>2. ASSUME injected' = injected + 1, NEW u \in BOOLEAN,
               Queued(d)' = Append(Before(devices, d), [at |-> injected + 1, upper |-> u])
        PROVE  Old(d, j) \/ New(d, j)
    <3> DEFINE b == Before(devices, d)
               byte == [at |-> injected + 1, upper |-> u]
    <3>1. byte \in [at : Nat, upper : BOOLEAN] /\ byte.at = injected + 1
      BY <1>1
    <3>2. b \in Seq([at : Nat, upper : BOOLEAN])
      BY <1>2
    <3> HIDE DEF b, byte
    <3>3. /\ Len(b) \in Nat /\ Len(Append(b, byte)) = Len(b) + 1
          /\ Append(b, byte)[Len(b) + 1] = byte
          /\ \A i \in 1..Len(b) : Append(b, byte)[i] = b[i]
      BY <3>1, <3>2, AppendProperties, LenProperties
    <3>4. Queued(d)' = Append(b, byte)
      BY <2>2 DEF b, byte
    <3>5. CASE j = Len(b) + 1
      BY <2>2, <3>1, <3>3, <3>4, <3>5
    <3>6. CASE j \in 1..Len(b)
      <4>1. b # << >>
        <5>1. Len(<< >>) = 0 /\ 1..0 = {}
          OBVIOUS
        <5> QED BY <3>6, <5>1
      <4>2. d \in DeviceIds /\ b = Queued(d)
        BY <1>2, <4>1 DEF b
      <4> QED BY <3>3, <3>4, <3>6, <4>2
    <3>7. j = Len(b) + 1 \/ j \in 1..Len(b)
      BY <1>3, <3>3, <3>4
    <3> QED BY <3>5, <3>6, <3>7
  <2>3. d \in 1..Len(devices') /\ Queued(d)' = devices'[d].queue
    BY DEF DeviceIds, Queued
  <2>4. \/ Queued(d)' = Before(devices, d)
        \/ /\ injected' = injected + 1
           /\ \E u \in BOOLEAN : Queued(d)' = Append(Before(devices, d), [at |-> injected + 1, upper |-> u])
    BY <2>3 DEF Grows
  <2> QED BY <2>1, <2>2, <2>4
<1>4. ASSUME NEW d \in DeviceIds', NEW j \in 1..Len(Queued(d)'), NEW e \in DeviceIds',
             NEW k \in 1..Len(Queued(e)'), New(d, j), New(e, k)
      PROVE  d = e
  <2>1. PICK D \in 1..Len(devices'), u \in BOOLEAN : \A i \in 1..Len(devices') :
             devices'[i].queue = IF i = D THEN Append(Before(devices, i), [at |-> injected + 1, upper |-> u])
                                 ELSE Before(devices, i)
    <3>1. injected' # injected
      BY <1>1, <1>4
    <3> QED BY <3>1 DEF Grows
  <2>2. ASSUME NEW i \in DeviceIds', NEW l \in 1..Len(Queued(i)'), New(i, l)
        PROVE  i = D
    <3> SUFFICES ASSUME i # D PROVE FALSE
      OBVIOUS
    <3>1. Queued(i)' = Before(devices, i)
      BY <2>1 DEF DeviceIds, Queued
    <3>2. Before(devices, i) # << >>
      <4>1. Len(<< >>) = 0 /\ 1..0 = {}
        OBVIOUS
      <4> QED BY <2>2, <3>1, <4>1
    <3>3. i \in DeviceIds /\ Queued(i)' = Queued(i)
      BY <1>2, <3>1, <3>2
    <3>4. Queued(i)[l].at \in 1..injected
      BY <2>2, <3>3 DEF QueuesOrdered
    <3> QED BY <1>1, <2>2, <3>3, <3>4
  <2> QED BY <1>4, <2>2
<1>5. ASSUME NEW d \in DeviceIds', NEW j \in 1..Len(Queued(d)'), Old(d, j)
      PROVE  Queued(d)'[j].at \in 1..injected
  BY <1>5 DEF QueuesOrdered
<1>6. QueuesOrdered'
  <2> SUFFICES ASSUME NEW d \in DeviceIds', NEW i \in 1..Len(Queued(d)')
               PROVE  /\ Queued(d)'[i].at \in 1..injected'
                      /\ \A j \in 1..Len(Queued(d)') : i < j => Queued(d)'[i].at < Queued(d)'[j].at
                      /\ \A e \in DeviceIds' : \A j \in 1..Len(Queued(e)') :
                           Queued(d)'[i].at = Queued(e)'[j].at => d = e
    BY DEF QueuesOrdered
  <2>1. Queued(d)'[i].at \in 1..injected'
    <3>1. CASE Old(d, i)
      BY <1>1, <1>5, <3>1
    <3>2. CASE New(d, i)
      BY <1>1, <3>2
    <3> QED BY <1>3, <3>1, <3>2
  <2>2. ASSUME NEW j \in 1..Len(Queued(d)'), i < j
        PROVE  Queued(d)'[i].at < Queued(d)'[j].at
    <3>1. CASE New(d, i)
      BY <2>2, <3>1
    <3>2. CASE Old(d, i) /\ New(d, j)
      BY <1>1, <1>5, <3>2
    <3>3. CASE Old(d, i) /\ Old(d, j)
      BY <2>2, <3>3 DEF QueuesOrdered
    <3> QED BY <1>3, <3>1, <3>2, <3>3
  <2>3. ASSUME NEW e \in DeviceIds', NEW j \in 1..Len(Queued(e)'),
               Queued(d)'[i].at = Queued(e)'[j].at
        PROVE  d = e
    <3>1. CASE New(d, i) /\ New(e, j)
      BY <1>4, <3>1
    <3>2. CASE Old(d, i) /\ New(e, j)
      BY <1>1, <1>5, <2>3, <3>2
    <3>3. CASE New(d, i) /\ Old(e, j)
      <4>1. Queued(e)'[j].at \in 1..injected
        BY <1>5, <3>3
      <4> QED BY <1>1, <2>3, <3>3, <4>1
    <3>4. CASE Old(d, i) /\ Old(e, j)
      BY <2>3, <3>4 DEF QueuesOrdered
    <3> QED BY <1>3, <3>1, <3>2, <3>3, <3>4
  <2> QED BY <2>1, <2>2, <2>3
<1>7. TakenOrdered'
  <2>1. ASSUME NEW w \in Wires, NEW i \in 1..Len(Taken(w)')
        PROVE  i \in 1..Len(Taken(w)) /\ Taken(w)'[i] = Taken(w)[i] /\ Taken(w)[i].at \in 1..injected
    <3>1. i \in 1..Len(Taken(w)) /\ Taken(w)'[i] = Taken(w)[i]
      BY TakenExtendsGot
    <3> QED BY <3>1 DEF TakenOrdered
  <2> SUFFICES ASSUME NEW w \in Wires, NEW i \in 1..Len(Taken(w)')
               PROVE  /\ Taken(w)'[i].at \in 1..injected'
                      /\ \A j \in 1..Len(Taken(w)') :
                           i < j /\ Taken(w)'[i].of = Taken(w)'[j].of => Taken(w)'[i].at < Taken(w)'[j].at
                      /\ \A v \in Wires : \A j \in 1..Len(Taken(v)') :
                           Taken(w)'[i].at = Taken(v)'[j].at => v = w
                      /\ \A d \in DeviceIds' : \A j \in 1..Len(Queued(d)') :
                           /\ Taken(w)'[i].at # Queued(d)'[j].at
                           /\ Taken(w)'[i].of = d => Taken(w)'[i].at < Queued(d)'[j].at
    BY DEF TakenOrdered
  <2>2. Taken(w)'[i].at \in 1..injected'
    BY <1>1, <2>1
  <2>3. \A j \in 1..Len(Taken(w)') :
           i < j /\ Taken(w)'[i].of = Taken(w)'[j].of => Taken(w)'[i].at < Taken(w)'[j].at
    BY <2>1 DEF TakenOrdered
  <2>4. \A v \in Wires : \A j \in 1..Len(Taken(v)') : Taken(w)'[i].at = Taken(v)'[j].at => v = w
    BY <2>1 DEF TakenOrdered
  <2>5. ASSUME NEW d \in DeviceIds', NEW j \in 1..Len(Queued(d)')
        PROVE  /\ Taken(w)'[i].at # Queued(d)'[j].at
               /\ Taken(w)'[i].of = d => Taken(w)'[i].at < Queued(d)'[j].at
    <3>1. CASE New(d, j)
      BY <1>1, <2>1, <3>1
    <3>2. CASE Old(d, j)
      BY <2>1, <3>2 DEF TakenOrdered
    <3> QED BY <1>3, <3>1, <3>2
  <2> QED BY <2>2, <2>3, <2>4, <2>5
<1> QED BY <1>6, <1>7

-----------------------------------------------------------------------------
(* The shims. *)

(* A call on one wire leaves the others as they were. *)
LEMMA OneWire ==
  ASSUME WireTyped, NEW w \in Wires, NEW new, NEW g \in Seq(KeyBytes),
         wires' = [wires EXCEPT ![w] = new], new = None \/ ShimTyped(new, DeviceIds'),
         got' = [got EXCEPT ![w] = g], \A i \in 1..Len(g) : g[i].of \in DeviceIds',
         DeviceIds \subseteq DeviceIds', handles' \subseteq DeviceIds', powered' \in BOOLEAN
  PROVE  /\ WireTyped' /\ wires'[w] = new /\ got'[w] = g
         /\ \A v \in Wires : v # w => Taken(v)' = Taken(v)
<1>1. /\ wires'[w] = new /\ got'[w] = g
      /\ \A v \in Wires : v # w => wires'[v] = wires[v] /\ got'[v] = got[v]
  BY DEF WireTyped
<1>2. \A s : ShimTyped(s, DeviceIds) => ShimTyped(s, DeviceIds')
  BY DEF ShimTyped
<1>3. got' \in [Wires -> Seq(KeyBytes)]
  BY DEF WireTyped, KeyBytes
<1>4. \A v \in Wires : \A i \in 1..Len(got'[v]) : got'[v][i].of \in DeviceIds'
  BY <1>1 DEF WireTyped
<1>5. \A v \in Wires : wires'[v] = None \/ ShimTyped(wires'[v], DeviceIds')
  BY <1>1, <1>2 DEF WireTyped
<1>6. WireTyped'
  <2>1. wires' \in [Wires -> Shim \cup {None}]
    BY DEF WireTyped, ShimTyped
  <2> QED BY <1>3, <1>4, <1>5, <2>1 DEF WireTyped, KeyBytes
<1>7. \A v \in Wires : v # w => Taken(v)' = Taken(v)
  BY <1>1 DEF Taken, Pending
<1> QED BY <1>1, <1>6, <1>7

(* A call on no wire leaves them all. *)
LEMMA NoWire ==
  ASSUME WireTyped, UNCHANGED <<wires, got>>,
         DeviceIds \subseteq DeviceIds', handles' \subseteq DeviceIds', powered' \in BOOLEAN
  PROVE  WireTyped' /\ \A w \in Wires : Taken(w)' = Taken(w)
<1>1. \A s : ShimTyped(s, DeviceIds) => ShimTyped(s, DeviceIds')
  BY DEF ShimTyped
<1>2. \A v \in Wires : wires'[v] = None \/ ShimTyped(wires'[v], DeviceIds')
  BY <1>1 DEF WireTyped
<1>3. \A v \in Wires : \A i \in 1..Len(got'[v]) : got'[v][i].of \in DeviceIds'
  BY DEF WireTyped
<1>4. WireTyped'
  BY <1>2, <1>3 DEF WireTyped
<1> QED BY <1>4 DEF Taken, Pending

(* Typing adds devices, and takes nothing from those there are. *)
LEMMA TypingAdds ==
  ASSUME InputInv, Types(devices, devices', injected, injected')
  PROVE  /\ DeviceIds \subseteq DeviceIds'
         /\ \A d \in DeviceIds : /\ ~(Len(devices'[d].queue) < Len(devices[d].queue))
                                 /\ devices'[d].keyMode = devices[d].keyMode
                                 /\ devices'[d].backlight = devices[d].backlight
<1>1. DeviceIds \subseteq DeviceIds'
  BY DEF Types, Grows, DeviceIds
<1>2. ASSUME NEW d \in DeviceIds
      PROVE  ~(Len(devices'[d].queue) < Len(devices[d].queue))
  <2>1. d \in 1..Len(devices') /\ Before(devices, d) = devices[d].queue /\ injected \in Nat
    BY <1>1 DEF DeviceIds, Before, InputInv
  <2>2. devices[d].queue \in Seq([at : Nat, upper : BOOLEAN])
    <3>1. devices[d] \in Device
      BY ElementOfSeq DEF InputInv, DeviceIds
    <3> QED BY <3>1 DEF Device
  <2>3. ASSUME NEW u \in BOOLEAN
        PROVE  Len(Append(devices[d].queue, [at |-> injected + 1, upper |-> u])) = Len(devices[d].queue) + 1
    BY <2>1, <2>2, AppendProperties
  <2>4. \/ devices'[d].queue = devices[d].queue
        \/ \E u \in BOOLEAN : devices'[d].queue = Append(devices[d].queue, [at |-> injected + 1, upper |-> u])
    BY <2>1 DEF Types, Grows
  <2>5. Len(devices[d].queue) \in Nat
    BY <2>2, LenProperties
  <2>6. CASE devices'[d].queue = devices[d].queue
    BY <2>5, <2>6
  <2>7. ASSUME NEW u \in BOOLEAN,
               devices'[d].queue = Append(devices[d].queue, [at |-> injected + 1, upper |-> u])
        PROVE  ~(Len(devices'[d].queue) < Len(devices[d].queue))
    <3>1. Len(devices'[d].queue) = Len(devices[d].queue) + 1
      BY <2>3, <2>7
    <3> QED BY <2>5, <3>1
  <2> QED BY <2>4, <2>6, <2>7
<1> QED BY <1>1, <1>2 DEF Types, Grows, DeviceIds

(* A step of the input manager alone. *)
LEMMA ManagerStep ==
  ASSUME WireInv, InputNext, UNCHANGED <<wires, handles, powered, got>>
  PROVE  WireInv' /\ Types(devices, devices', injected, injected')
<1>1. InputInv' /\ Types(devices, devices', injected, injected')
  BY InputStep DEF WireInv
<1>2. DeviceIds \subseteq DeviceIds'
  BY <1>1, TypingAdds DEF WireInv
<1>3. WireTyped' /\ \A w \in Wires : Taken(w)' = Taken(w)
  <2>1. handles' \subseteq DeviceIds' /\ powered' \in BOOLEAN
    BY <1>2 DEF WireInv, KeysInv, WireTyped
  <2> QED BY <1>2, <2>1, NoWire DEF WireInv, KeysInv
<1>4. \A w \in Wires : /\ Len(Taken(w)') \in Nat /\ Len(Taken(w)') <= Len(Taken(w))
                       /\ \A i \in 1..Len(Taken(w)') : Taken(w)'[i] = Taken(w)[i]
  BY <1>3, TakenExtendsGot DEF WireInv, KeysInv
<1>5. QueuesOrdered' /\ TakenOrdered'
  BY <1>1, <1>4, TypingKeepsOrder DEF WireInv, KeysInv, Types
<1> QED BY <1>1, <1>3, <1>5 DEF WireInv, KeysInv

(* A call on one wire that leaves the devices alone, and keeps or drops    *)
(* what it has read, or reads the touch controller.                        *)
KeepsRead(new, old) ==
  \/ new.rx = old.rx /\ new.at = old.at
  \/ new.rx = << >>
  \/ new.rx[1].of = 0

Only(w, new) ==
  wires' = [wires EXCEPT ![w] = new] /\ UNCHANGED <<inputVars, handles, powered, got>>

(* A step on one wire that reads no further key. *)
LEMMA OnWireStep ==
  ASSUME WireInv, NEW w \in Open, NEW new, ShimTyped(new, DeviceIds), KeepsRead(new, wires[w]),
         Only(w, new)
  PROVE  WireInv' /\ Types(devices, devices', injected, injected')
<1>1. w \in Wires /\ WireTyped /\ InputInv /\ w \in Open /\ wires[w] # None
  BY DEF Open, WireInv, KeysInv
<1>2. /\ wires' = [wires EXCEPT ![w] = new]
      /\ UNCHANGED <<manager, window, devices, retained, told, missed, injected, finger, hostEvents,
                     handles, powered, got>>
  BY DEF Only, inputVars
<1>3. InputInv' /\ Types(devices, devices', injected, injected')
  BY <1>1, <1>2, NothingTyped DEF InputInv
<1>4. DeviceIds' = DeviceIds
  BY <1>2 DEF DeviceIds
<1>5. /\ WireTyped' /\ wires'[w] = new /\ got'[w] = got[w]
      /\ \A v \in Wires : v # w => Taken(v)' = Taken(v)
  <2>1. got[w] \in Seq(KeyBytes) /\ got' = [got EXCEPT ![w] = got[w]]
    BY <1>1, <1>2 DEF WireTyped, KeyBytes
  <2>2. /\ \A i \in 1..Len(got[w]) : got[w][i].of \in DeviceIds
        /\ handles \subseteq DeviceIds /\ powered \in BOOLEAN
    BY <1>1 DEF WireTyped
  <2> QED BY <1>1, <1>2, <1>4, <2>1, <2>2, OneWire
<1>6. Taken(w)' = Taken(w) \/ Taken(w)' = got[w]
  <2>1. CASE new.rx = wires[w].rx /\ new.at = wires[w].at
    <3>1. new # None
      BY NoneIsNoShim DEF ShimTyped
    <3> QED BY <1>1, <1>5, <2>1, <3>1 DEF Taken, Pending
  <2>2. CASE new.rx = << >> \/ new.rx[1].of = 0
    BY <1>5, <2>2 DEF Taken, Pending
  <2> QED BY <2>1, <2>2 DEF KeepsRead
<1>7. \A v \in Wires : /\ Len(Taken(v)') \in Nat /\ Len(Taken(v)') <= Len(Taken(v))
                       /\ \A i \in 1..Len(Taken(v)') : Taken(v)'[i] = Taken(v)[i]
  BY SMTT(30), <1>1, <1>5, <1>6, TakenExtendsGot
<1>8. QueuesOrdered' /\ TakenOrdered'
  BY <1>1, <1>3, <1>7, TypingKeepsOrder DEF WireInv, KeysInv, Types
<1> QED BY <1>3, <1>5, <1>8 DEF WireInv, KeysInv

(* A shim that has dropped what it read. *)
LEMMA ClearedReadTyped ==
  ASSUME NEW ids, NEW s, ShimTyped(s, ids)
  PROVE  LET new == ClearedRead(s) IN ShimTyped(new, ids) /\ new.rx = << >> /\ new.at = 0
<1> DEFINE new == ClearedRead(s)
<1>1. s \in Shim /\ s.keyboard \in ids /\ s.gt911 \in ids
  BY DEF ShimTyped
<1>2. << >> \in Seq([of : Nat, at : Nat]) /\ Len(<< >>) = 0
  BY EmptySeq
<1>3. /\ new \in Shim /\ new.rx = << >> /\ new.at = 0
      /\ new.keyboard = s.keyboard /\ new.gt911 = s.gt911
  BY <1>1, <1>2 DEF Shim, ClearedRead
<1> HIDE DEF new
<1>4. ShimTyped(new, ids)
  BY <1>1, <1>2, <1>3 DEF ShimTyped
<1> QED BY <1>3, <1>4 DEF new

(* What the calls make of a shim. *)
LEMMA ShimsStayTyped ==
  ASSUME NEW ids \in SUBSET Nat, NEW s, ShimTyped(s, ids)
  PROVE  /\ LET new == [s EXCEPT !.begun = TRUE] IN
              ShimTyped(new, ids) /\ new.rx = s.rx /\ new.at = s.at
         /\ ShimTyped(Stopped(s), ids) /\ Stopped(s).rx = << >>
         /\ ShimTyped(ClearedRead(s), ids) /\ ClearedRead(s).rx = << >> /\ ClearedRead(s).at = 0
         /\ LET new == Stopped([s EXCEPT !.stuck = TRUE]) IN
              ShimTyped(new, ids) /\ new.rx = << >>
         /\ LET new == [s EXCEPT !.stuck = FALSE] IN
              ShimTyped(new, ids) /\ new.rx = s.rx /\ new.at = s.at
         /\ \A to \in {KeyboardAt, TouchAt, Nowhere, None} :
              LET new == [s EXCEPT !.to = to, !.tx = << >>] IN
              ShimTyped(new, ids) /\ new.rx = s.rx /\ new.at = s.at
         /\ \A byte \in Bytes : LET new == [s EXCEPT !.tx = Append(@, byte)] IN
              ShimTyped(new, ids) /\ new.rx = s.rx /\ new.at = s.at
         /\ \A status \in BOOLEAN : LET new == [s EXCEPT !.to = None, !.tx = << >>, !.status = status] IN
              ShimTyped(new, ids) /\ new.rx = s.rx /\ new.at = s.at
<1>1. /\ s \in Shim /\ s.keyboard \in ids /\ s.gt911 \in ids /\ s.at <= Len(s.rx)
      /\ s.rx = << >> \/ (Len(s.rx) = 1 /\ s.rx[1].of \in ids \cup {0})
  BY DEF ShimTyped
<1>2. << >> \in Seq(KeyBytes) /\ << >> \in Seq(Bytes) /\ Len(<< >>) = 0
  BY EmptySeq
<1>3. \A byte \in Bytes : Append(s.tx, byte) \in Seq(Bytes)
  BY <1>1, AppendProperties DEF Shim
<1>5. LET new == [s EXCEPT !.begun = TRUE] IN ShimTyped(new, ids) /\ new.rx = s.rx /\ new.at = s.at
  BY <1>1 DEF ShimTyped, Shim
<1>7. ASSUME NEW t, ShimTyped(t, ids)
      PROVE  ShimTyped(Stopped(t), ids) /\ Stopped(t).rx = << >>
  <2>1. ShimTyped([t EXCEPT !.to = None, !.tx = << >>], ids)
    BY <1>2, <1>7 DEF ShimTyped, Shim
  <2> QED BY <2>1, ClearedReadTyped DEF Stopped
<1>8. ShimTyped(ClearedRead(s), ids) /\ ClearedRead(s).rx = << >> /\ ClearedRead(s).at = 0
  BY ClearedReadTyped
<1>9. LET new == Stopped([s EXCEPT !.stuck = TRUE]) IN ShimTyped(new, ids) /\ new.rx = << >>
  <2>1. ShimTyped([s EXCEPT !.stuck = TRUE], ids)
    BY <1>1 DEF ShimTyped, Shim
  <2> QED BY <1>7, <2>1
<1>10. LET new == [s EXCEPT !.stuck = FALSE] IN ShimTyped(new, ids) /\ new.rx = s.rx /\ new.at = s.at
  BY <1>1 DEF ShimTyped, Shim
<1>11. ASSUME NEW to \in {KeyboardAt, TouchAt, Nowhere, None}
       PROVE  LET new == [s EXCEPT !.to = to, !.tx = << >>] IN
              ShimTyped(new, ids) /\ new.rx = s.rx /\ new.at = s.at
  BY <1>1, <1>2 DEF ShimTyped, Shim
<1>12. ASSUME NEW byte \in Bytes
       PROVE  LET new == [s EXCEPT !.tx = Append(@, byte)] IN
              ShimTyped(new, ids) /\ new.rx = s.rx /\ new.at = s.at
  BY <1>1, <1>3 DEF ShimTyped, Shim
<1>13. ASSUME NEW status \in BOOLEAN
       PROVE  LET new == [s EXCEPT !.to = None, !.tx = << >>, !.status = status] IN
              ShimTyped(new, ids) /\ new.rx = s.rx /\ new.at = s.at
  BY <1>1, <1>2 DEF ShimTyped, Shim
<1> QED BY <1>5, <1>7, <1>8, <1>9, <1>10, <1>11, <1>12, <1>13

(* A read that returned one byte. *)
LEMMA FetchedTyped ==
  ASSUME NEW ids, NEW s, ShimTyped(s, ids), s.rx = << >>, NEW r \in KeyBytes, r.of \in ids \cup {0}
  PROVE  LET new == [s EXCEPT !.rx = <<r>>] IN
         /\ ShimTyped(new, ids) /\ new.at = 0 /\ new.rx # << >> /\ Len(new.rx) = 1 /\ new.rx[1] = r
<1> DEFINE new == [s EXCEPT !.rx = <<r>>]
<1>1. s \in Shim /\ s.at = 0
  BY DEF ShimTyped, Shim
<1>2. <<r>> \in Seq(KeyBytes) /\ Len(<<r>>) = 1 /\ <<r>>[1] = r /\ <<r>> # << >>
  OBVIOUS
<1>3. \A q \in Seq(KeyBytes) : LET t == [s EXCEPT !.rx = q] IN
        /\ t \in Shim /\ t.at = 0 /\ t.rx = q
        /\ t.keyboard = s.keyboard /\ t.gt911 = s.gt911
  BY <1>1 DEF Shim, KeyBytes
<1>4. /\ new \in Shim /\ new.at = 0 /\ new.rx = <<r>>
      /\ new.keyboard = s.keyboard /\ new.gt911 = s.gt911
  BY <1>2, <1>3
<1> HIDE DEF new
<1>5. new.at = 0 /\ Len(new.rx) = 1 /\ new.rx[1] = r /\ new.rx # << >>
  BY <1>2, <1>4
<1>6. ShimTyped(new, ids)
  BY <1>1, <1>4, <1>5 DEF ShimTyped
<1> QED BY <1>5, <1>6 DEF new

(* What is known inside a call. *)
LEMMA InCallFacts ==
  ASSUME CallInv, NEW w \in Wires, NEW a \in {KeyboardAt, TouchAt, None}, InCall(w, a)
  PROVE  /\ calling # None /\ calling.wire = w /\ w \in Open
         /\ wires[w].begun /\ ~wires[w].stuck /\ (powered \/ late \/ ~wires[w].checked)
         /\ a # None => wires[w].rx = << >>
<1>1. calling \in Calls /\ calling.wire = w /\ calling.asks = a
  BY DEF InCall, Calls
<1>2. calling # None
  BY <1>1, NoneIsNoCall
<1> QED BY <1>1, <1>2 DEF CallInv, Open

(* The calls on one wire that leave the devices alone. *)
LEMMA ShimCalls ==
  ASSUME WireInv, CallInv, NEW w \in Wires,
         \/ Begin(w) \/ EmitStop(w) \/ ClockOutRecovery(w)
         \/ \E clock \in Clocks : SetClock(w, clock)
         \/ \E stuck \in BOOLEAN : SetSdaStuck(w, stuck)
         \/ \E address \in {KeyboardAt, TouchAt, Nowhere} : BeginTransmission(w, address)
         \/ \E byte \in Bytes : Write(w, byte)
         \/ EndFails(w) \/ EndPasses(w) \/ EndToGt911(w) \/ EndToNobody(w)
         \/ RequestFails(w) \/ \E address \in {KeyboardAt, TouchAt} : RequestPasses(w, address)
         \/ RequestContact(w)
         \/ \E d \in handles : SetKeyboard(w, d)
  PROVE  WireInv' /\ Types(devices, devices', injected, injected')
<1> DEFINE s == wires[w]
           Done == WireInv' /\ Types(devices, devices', injected, injected')
<1>1. w \in Open
  <2>1. CASE EndToGt911(w) \/ EndToNobody(w) \/ RequestContact(w)
    BY <2>1, InCallFacts DEF EndToGt911, EndToNobody, RequestContact
  <2>2. CASE ~(EndToGt911(w) \/ EndToNobody(w) \/ RequestContact(w))
    BY <2>2 DEF Begin, EmitStop, ClockOutRecovery, SetClock, SetSdaStuck, BeginTransmission,
                RequestFails, Write, EndFails, EndPasses, RequestPasses, SetKeyboard
  <2> QED BY <2>1, <2>2
<1>2. ShimTyped(s, DeviceIds) /\ handles \subseteq DeviceIds /\ DeviceIds \in SUBSET Nat
  <2>1. Len(devices) \in Nat
    BY LenProperties DEF WireInv, InputInv
  <2> QED BY <1>1, <2>1 DEF Open, WireInv, KeysInv, WireTyped, DeviceIds
<1>17. ASSUME NEW new, ShimTyped(new, DeviceIds), Only(w, new),
              (new.rx = s.rx /\ new.at = s.at) \/ new.rx = << >>
       PROVE  Done
  BY <1>1, <1>17, OnWireStep DEF KeepsRead
<1>3. ASSUME NEW new, ShimTyped(new, DeviceIds), OnWire(w, new),
             (new.rx = s.rx /\ new.at = s.at) \/ new.rx = << >>
      PROVE  Done
  <2>1. Only(w, new)
    BY <1>3 DEF OnWire, Only
  <2> QED BY <1>3, <1>17, <2>1
<1>18. ASSUME NEW new, wires' = [wires EXCEPT ![w] = new], Returns, UNCHANGED <<devices, retained>>
       PROVE  Only(w, new)
  BY <1>18 DEF Returns, Only, hostVars, inputVars
<1>19. wires \in [Wires -> Shim \cup {None}]
  BY DEF WireInv, KeysInv, WireTyped
<1>20. LET new == Ended(w) IN ShimTyped(new, DeviceIds) /\ new.rx = s.rx /\ new.at = s.at
  BY <1>2, ShimsStayTyped DEF Ended
<1> SUFFICES Done
  OBVIOUS
<1> HIDE DEF Done
<1>4. CASE Begin(w)
  BY <1>2, <1>3, <1>4, ShimsStayTyped DEF Begin
<1>5. CASE EmitStop(w)
  BY <1>2, <1>3, <1>5, ShimsStayTyped DEF EmitStop
<1>6. CASE ClockOutRecovery(w)
  <2>1. CASE Powered(s)
    BY <1>2, <1>3, <1>6, <2>1, ShimsStayTyped DEF ClockOutRecovery
  <2>2. CASE ~Powered(s)
    BY <1>2, <1>3, <1>6, <2>2 DEF ClockOutRecovery
  <2> QED BY <2>1, <2>2
<1>7. ASSUME NEW clock \in Clocks, SetClock(w, clock)
      PROVE  Done
  <2> DEFINE new == [s EXCEPT !.clock = clock]
  <2>1. OnWire(w, new)
    BY <1>7 DEF SetClock
  <2>2. ShimTyped(new, DeviceIds) /\ new.rx = s.rx /\ new.at = s.at
    BY <1>2, <1>7 DEF ShimTyped, Shim
  <2> HIDE DEF new
  <2> QED BY <1>3, <2>1, <2>2
<1>8. ASSUME NEW stuck \in BOOLEAN, SetSdaStuck(w, stuck)
      PROVE  Done
  <2>1. CASE stuck
    BY <1>2, <1>3, <1>8, <2>1, ShimsStayTyped DEF SetSdaStuck
  <2>2. CASE ~stuck
    BY <1>2, <1>3, <1>8, <2>2, ShimsStayTyped DEF SetSdaStuck
  <2> QED BY <2>1, <2>2
<1>9. ASSUME NEW address \in {KeyboardAt, TouchAt, Nowhere}, BeginTransmission(w, address)
      PROVE  Done
  <2>0. address \in {KeyboardAt, TouchAt, Nowhere, None}
    BY <1>9
  <2> DEFINE new == [s EXCEPT !.to = address, !.tx = << >>]
  <2>1. OnWire(w, new)
    BY <1>9 DEF BeginTransmission
  <2>2. ShimTyped(new, DeviceIds) /\ new.rx = s.rx /\ new.at = s.at
    <3>1. \A to \in {KeyboardAt, TouchAt, Nowhere, None} :
            LET t == [s EXCEPT !.to = to, !.tx = << >>] IN
            ShimTyped(t, DeviceIds) /\ t.rx = s.rx /\ t.at = s.at
      BY <1>2, ShimsStayTyped
    <3> QED BY <2>0, <3>1
  <2> HIDE DEF new
  <2> QED BY <1>3, <2>1, <2>2
<1>10. CASE RequestFails(w)
  BY <1>2, <1>3, <1>10, ShimsStayTyped DEF RequestFails
<1>11. ASSUME NEW byte \in Bytes, Write(w, byte)
       PROVE  Done
  BY <1>2, <1>3, <1>11, ShimsStayTyped DEF Write
<1>12. CASE EndFails(w)
  <2> DEFINE new == [s EXCEPT !.to = None, !.tx = << >>]
  <2>1. ShimTyped(new, DeviceIds) /\ new.rx = s.rx /\ new.at = s.at
    BY <1>2, ShimsStayTyped
  <2>2. ShimTyped(ClearedRead(new), DeviceIds) /\ ClearedRead(new).rx = << >>
    BY <2>1, ClearedReadTyped
  <2>0. new.stuck = s.stuck /\ (Powered(new) <=> Powered(s))
    BY <1>2 DEF ShimTyped, Shim, Powered
  <2>3. OnWire(w, IF ~Powered(s) \/ s.stuck THEN ClearedRead(new) ELSE new)
    BY <1>12, <2>0 DEF EndFails
  <2> HIDE DEF new
  <2>4. CASE ~Powered(s) \/ s.stuck
    BY <1>3, <2>2, <2>3, <2>4
  <2>5. CASE ~(~Powered(s) \/ s.stuck)
    BY <1>3, <2>1, <2>3, <2>5
  <2> QED BY <2>4, <2>5
<1>13. CASE EndToGt911(w)
  <2>1. PICK status \in BOOLEAN :
          wires' = [wires EXCEPT ![w] =
            [Ended(w) EXCEPT !.status = IF Len(s.tx) < 2 THEN Ended(w).status ELSE status]]
    BY <1>13 DEF EndToGt911
  <2> DEFINE shown == IF Len(s.tx) < 2 THEN Ended(w).status ELSE status
             new == [Ended(w) EXCEPT !.status = shown]
  <2>2. shown \in BOOLEAN
    BY <1>20 DEF ShimTyped, Shim
  <2>3. Only(w, new)
    BY <1>13, <1>18, <2>1 DEF EndToGt911
  <2> HIDE DEF shown
  <2>4. ShimTyped(new, DeviceIds) /\ new.rx = s.rx /\ new.at = s.at
    BY <1>20, <2>2 DEF ShimTyped, Shim
  <2> HIDE DEF new
  <2> QED BY <1>17, <2>3, <2>4
<1>14. CASE EndToNobody(w)
  BY <1>14, <1>17, <1>18, <1>20 DEF EndToNobody
<1>15. CASE RequestContact(w)
  <2>1. s.rx = << >> /\ Returns /\ UNCHANGED <<devices, retained>>
    BY <1>15, InCallFacts, WireAssumption DEF RequestContact
  <2>2. CASE UNCHANGED wires
    <3>1. wires' = [wires EXCEPT ![w] = s]
      BY <1>19, <2>2
    <3> QED BY <1>2, <1>17, <1>18, <2>1, <3>1
  <2>3. ASSUME NEW at \in {0, 1}, Received(w, 0, at)
        PROVE  Done
    <3> DEFINE r == [of |-> 0, at |-> at]
               new == [s EXCEPT !.rx = <<r>>]
    <3>1. r \in KeyBytes /\ r.of = 0
      BY DEF KeyBytes
    <3>2. wires' = [wires EXCEPT ![w] = new]
      BY <1>19, <2>3 DEF Received
    <3>3. Only(w, new)
      BY <1>18, <2>1, <3>2
    <3>4. ShimTyped(new, DeviceIds) /\ new.rx[1].of = 0
      <4> HIDE DEF r
      <4> QED BY <1>2, <2>1, <3>1, FetchedTyped
    <3> HIDE DEF new
    <3> QED BY <1>1, <3>3, <3>4, OnWireStep DEF KeepsRead, Done
  <2> QED BY <1>15, <2>2, <2>3 DEF RequestContact
<1>21. CASE EndPasses(w)
  <2>1. UNCHANGED <<inputVars, wires, handles, powered, got>>
    BY <1>21 DEF EndPasses
  <2>2. wires' = [wires EXCEPT ![w] = s]
    BY <1>19, <2>1
  <2> QED BY <1>2, <1>17, <2>1, <2>2 DEF Only
<1>22. ASSUME NEW address, RequestPasses(w, address)
       PROVE  Done
  <2>1. Only(w, ClearedRead(s))
    BY <1>19, <1>22 DEF RequestPasses, Only
  <2> QED BY <1>2, <1>17, <2>1, ClearedReadTyped
<1>16. ASSUME NEW d \in handles, SetKeyboard(w, d)
       PROVE  Done
  <2>0. d \in DeviceIds
    BY <1>2, <1>16
  <2> DEFINE new == ClearedRead([s EXCEPT !.keyboard = d])
  <2>1. OnWire(w, new)
    BY <1>16 DEF SetKeyboard
  <2>2. ShimTyped(new, DeviceIds) /\ new.rx = << >>
    <3>1. ShimTyped([s EXCEPT !.keyboard = d], DeviceIds)
      BY <1>2, <2>0 DEF ShimTyped, Shim
    <3> QED BY <3>1, ClearedReadTyped
  <2> HIDE DEF new
  <2> QED BY <1>3, <2>1, <2>2
<1> QED BY <1>4, <1>5, <1>6, <1>7, <1>8, <1>9, <1>10, <1>11, <1>12, <1>13, <1>14, <1>15, <1>16,
           <1>21, <1>22

-----------------------------------------------------------------------------
(* The calls that make, destroy or change a device. *)

(* A step in which a device gives up a key or changes its mode or light is *)
(* the end of a call on a wire that is attached to it.                     *)
Reached(d) ==
  /\ d \in DeviceIds /\ \A e \in DeviceIds : e # d => devices'[e] = devices[e]
  /\ calling # None /\ wires[calling.wire].keyboard = d
Done == WireInv' /\ (Types(devices, devices', injected, injected') \/ \E d \in DeviceIds : Reached(d))

(* One device is changed, and not its contact. *)
LEMMA DeviceStep ==
  ASSUME InputInv, NEW d \in DeviceIds, NEW new \in Device, new.contact = devices[d].contact,
         devices' = [devices EXCEPT ![d] = new], retained' \in Bytes \cup {None},
         injected' \in Nat, hostEvents' \in Nat, UNCHANGED <<manager, window, told, missed, finger>>
  PROVE  /\ InputInv' /\ DeviceIds' = DeviceIds /\ Len(devices') = Len(devices) /\ Len(devices) \in Nat
         /\ \A e \in DeviceIds : devices'[e] = IF e = d THEN new ELSE devices[e]
<1>1. /\ devices' \in Seq(Device) /\ Len(devices') = Len(devices) /\ Len(devices) \in Nat
      /\ \A e \in 1..Len(devices) : devices'[e] = IF e = d THEN new ELSE devices[e]
  BY DeviceChanged DEF InputInv, DeviceIds
<1>2. manager # None => /\ Kept(manager', devices') /\ Truthful(manager', told', missed')
                        /\ manager'.pressing = finger'
  <2>1. \A i \in 1..Len(devices) : devices'[i].contact = devices[i].contact
    BY <1>1 DEF DeviceIds
  <2>2. Len(devices') \in Nat /\ Len(devices) <= Len(devices')
    BY <1>1
  <2>3. ASSUME manager # None
        PROVE  /\ Kept(manager, devices) /\ Truthful(manager, told, missed)
               /\ manager.pressing = finger
    BY <2>3 DEF InputInv
  <2>4. ASSUME Kept(manager, devices)
        PROVE  Kept(manager, devices')
    BY <1>1, <2>1, <2>2, <2>4, SameContacts
  <2> QED BY <2>3, <2>4
<1> QED BY <1>1, <1>2 DEF InputInv, DeviceIds

(* A device is added. *)
LEMMA DeviceAdded ==
  ASSUME InputInv, NEW new \in Device, new.queue = << >>, devices' = Append(devices, new),
         UNCHANGED <<manager, window, retained, told, missed, injected, finger, hostEvents>>
  PROVE  /\ InputInv' /\ Types(devices, devices', injected, injected')
         /\ Len(devices) + 1 \in DeviceIds'
<1>1. devices \in Seq(Device) /\ Len(devices) \in Nat /\ injected \in Nat
  BY LenProperties DEF InputInv
<1>2. /\ devices' \in Seq(Device) /\ Len(devices') = Len(devices) + 1
      /\ devices'[Len(devices) + 1] = new
      /\ \A i \in 1..Len(devices) : devices'[i] = devices[i]
  BY <1>1, AppendProperties
<1>3. manager # None => /\ Kept(manager', devices') /\ Truthful(manager', told', missed')
                        /\ manager'.pressing = finger'
  <2>1. \A i \in 1..Len(devices) : devices'[i].contact = devices[i].contact
    BY <1>2
  <2>2. Len(devices') \in Nat /\ Len(devices) <= Len(devices')
    BY <1>1, <1>2
  <2>3. ASSUME manager # None
        PROVE  /\ Kept(manager, devices) /\ Truthful(manager, told, missed)
               /\ manager.pressing = finger
    BY <2>3 DEF InputInv
  <2>4. ASSUME Kept(manager, devices)
        PROVE  Kept(manager, devices')
    BY <1>1, <2>1, <2>2, <2>4, SameContacts
  <2> QED BY <2>3, <2>4
<1>4. InputInv'
  BY <1>2, <1>3 DEF InputInv
<1>5. Types(devices, devices', injected, injected')
  BY <1>1, <1>2 DEF Types, Grows, Before
<1> QED BY <1>1, <1>2, <1>4, <1>5 DEF DeviceIds

(* A call that types at most, and leaves the shims. *)
LEMMA KeyboardStep ==
  ASSUME WireInv, InputInv', Types(devices, devices', injected, injected'),
         UNCHANGED <<wires, got>>, handles' \subseteq DeviceIds', powered' \in BOOLEAN
  PROVE  Done
<1>1. DeviceIds \subseteq DeviceIds'
  BY TypingAdds DEF WireInv
<1>2. WireTyped' /\ \A w \in Wires : Taken(w)' = Taken(w)
  BY <1>1, NoWire DEF WireInv, KeysInv
<1>3. \A w \in Wires : /\ Len(Taken(w)') \in Nat /\ Len(Taken(w)') <= Len(Taken(w))
                       /\ \A i \in 1..Len(Taken(w)') : Taken(w)'[i] = Taken(w)[i]
  BY <1>2, TakenExtendsGot DEF WireInv, KeysInv
<1>4. QueuesOrdered' /\ TakenOrdered'
  BY <1>3, TypingKeepsOrder DEF WireInv, KeysInv, Types
<1> QED BY <1>2, <1>4 DEF Done, WireInv, KeysInv

(* The calls on devices and on the rail. *)
LEMMA DeviceCalls ==
  ASSUME WireInv,
         \/ KeyboardCreate \/ SwitchRail
         \/ \E d \in handles : KeyboardDestroy(d) \/ KeyboardInject(d)
         \/ \E d \in handles, persist \in BOOLEAN : SetCrossReset(d, persist)
  PROVE  Done
<1>1. /\ InputInv /\ handles \subseteq DeviceIds /\ powered \in BOOLEAN
      /\ devices \in Seq(Device) /\ injected \in Nat /\ hostEvents \in Nat
      /\ retained \in Bytes \cup {None}
  BY DEF WireInv, KeysInv, WireTyped, InputInv
<1>2. \A d \in DeviceIds : devices[d] \in Device
  BY <1>1, ElementOfSeq DEF DeviceIds
<1>3. CASE KeyboardCreate
  <2>0. PICK new \in {NewDevice} \cup {LegacyDevice(light) : light \in Lights} :
          devices' = Append(devices, new)
    BY <1>3 DEF KeyboardCreate
  <2>4. new \in Device /\ new.queue = << >>
    BY <1>1, <2>0, NewDeviceKeeps, LegacyDeviceKeeps
  <2>1. /\ devices' = Append(devices, new) /\ handles' = handles \cup {Len(devices) + 1}
        /\ UNCHANGED <<manager, window, retained, told, missed, injected, finger, hostEvents>>
        /\ UNCHANGED <<wires, powered, got>>
    BY <1>3, <2>0 DEF KeyboardCreate, hostVars
  <2>2. /\ InputInv' /\ Types(devices, devices', injected, injected')
        /\ Len(devices) + 1 \in DeviceIds'
    BY <1>1, <2>1, <2>4, DeviceAdded
  <2>3. handles' \subseteq DeviceIds' /\ powered' \in BOOLEAN
    BY <1>1, <2>1, <2>2, TypingAdds
  <2> QED BY <2>1, <2>2, <2>3, KeyboardStep
<1>4. ASSUME UNCHANGED <<inputVars, wires, got>>, handles' \subseteq handles, powered' \in BOOLEAN
      PROVE  Done
  <2>1. /\ InputInv' /\ Types(devices, devices', injected, injected') /\ DeviceIds' = DeviceIds
    BY <1>1, <1>4, NothingTyped DEF InputInv, inputVars, DeviceIds
  <2> QED BY <1>1, <1>4, <2>1, KeyboardStep
<1>5. CASE SwitchRail
  BY <1>1, <1>4, <1>5 DEF SwitchRail
<1>6. ASSUME NEW d \in handles, KeyboardDestroy(d)
      PROVE  Done
  BY <1>1, <1>4, <1>6 DEF KeyboardDestroy
<1>7. ASSUME NEW d \in handles, KeyboardInject(d)
      PROVE  Done
  <2> DEFINE new == InjectKeyByte(devices[d], FALSE)
  <2>1. /\ devices' = [devices EXCEPT ![d] = new] /\ injected' = injected + 1
        /\ UNCHANGED <<manager, window, retained, told, missed, finger, wires, handles, powered, got>>
        /\ hostEvents' = hostEvents + 1
    BY <1>7 DEF KeyboardInject, HostEvent, busVars
  <2>2. d \in DeviceIds /\ devices[d] \in Device
    BY <1>1, <1>2, <1>7
  <2>3. /\ new \in Device /\ new.contact = devices[d].contact
        /\ new.queue = Append(devices[d].queue, [at |-> injected + 1, upper |-> FALSE])
        /\ new.keyMode = devices[d].keyMode /\ new.backlight = devices[d].backlight
    BY <1>1, <2>2, InjectKeyByteKeeps
  <2> HIDE DEF new
  <2>4. /\ InputInv' /\ DeviceIds' = DeviceIds /\ Len(devices') = Len(devices) /\ Len(devices) \in Nat
        /\ \A e \in DeviceIds : devices'[e] = IF e = d THEN new ELSE devices[e]
    <3>1. retained' \in Bytes \cup {None} /\ injected' \in Nat /\ hostEvents' \in Nat
      BY <1>1, <2>1
    <3> QED BY <1>1, <2>1, <2>2, <2>3, <3>1, DeviceStep
  <2>5. Types(devices, devices', injected, injected')
    <3>1. \A e \in 1..Len(devices') :
            devices'[e].queue = IF e = d THEN Append(Before(devices, e), [at |-> injected + 1, upper |-> FALSE])
                                ELSE Before(devices, e)
      BY <2>2, <2>3, <2>4 DEF DeviceIds, Before
    <3>2. d \in 1..Len(devices') /\ FALSE \in BOOLEAN
      BY <2>2, <2>4 DEF DeviceIds
    <3>3. \E c \in 1..Len(devices'), u \in BOOLEAN : \A e \in 1..Len(devices') :
            devices'[e].queue = IF e = c THEN Append(Before(devices, e), [at |-> injected + 1, upper |-> u])
                                ELSE Before(devices, e)
      BY <3>1, <3>2
    <3>4. \A e \in 1..Len(devices) : /\ devices'[e].keyMode = devices[e].keyMode
                                    /\ devices'[e].backlight = devices[e].backlight
      BY <2>3, <2>4 DEF DeviceIds
    <3>5. Len(devices) <= Len(devices') /\ Len(devices') \in Nat
      BY <2>4
    <3> QED BY <2>1, <2>4, <3>3, <3>4, <3>5 DEF Types, Grows
  <2> QED BY <1>1, <2>1, <2>4, <2>5, KeyboardStep
<1>8. ASSUME NEW d \in handles, NEW persist \in BOOLEAN, SetCrossReset(d, persist)
      PROVE  Done
  <2> DEFINE new == [devices[d] EXCEPT !.persist = persist]
  <2>1. /\ devices' = [devices EXCEPT ![d] = new]
        /\ retained' \in {retained, devices[d].backlight, None}
        /\ UNCHANGED <<manager, window, told, missed, finger, hostEvents, injected, wires, handles, powered, got>>
    BY <1>8 DEF SetCrossReset, hostVars, busVars
  <2>2. d \in DeviceIds /\ devices[d] \in Device
    BY <1>1, <1>2, <1>8
  <2>3. /\ new \in Device /\ new.contact = devices[d].contact /\ new.queue = devices[d].queue
        /\ new.keyMode = devices[d].keyMode /\ new.backlight = devices[d].backlight
    BY <2>2 DEF Device
  <2> HIDE DEF new
  <2>6. retained' \in Bytes \cup {None}
    <3>1. devices[d].backlight \in Bytes
      BY <2>2 DEF Device
    <3>2. retained \in Bytes \cup {None}
      BY <1>1 DEF InputInv
    <3> QED BY <2>1, <3>1, <3>2
  <2>4. /\ InputInv' /\ DeviceIds' = DeviceIds /\ Len(devices') = Len(devices) /\ Len(devices) \in Nat
        /\ \A e \in DeviceIds : devices'[e] = IF e = d THEN new ELSE devices[e]
    BY <1>1, <2>1, <2>2, <2>3, <2>6, DeviceStep
  <2>5. Types(devices, devices', injected, injected')
    BY <2>1, <2>3, <2>4 DEF Types, Grows, Before, DeviceIds
  <2> QED BY <1>1, <2>1, <2>4, <2>5, KeyboardStep
<1> QED BY <1>3, <1>5, <1>6, <1>7, <1>8

(* A call on one wire that types at most, and drops at most what the wire  *)
(* has read.                                                               *)
LEMMA WireCallKeeps ==
  ASSUME WireInv, NEW w \in Wires, InputInv', Grows(devices, devices', injected, injected'),
         WireTyped', \A v \in Wires : v # w => Taken(v)' = Taken(v),
         Taken(w)' = Taken(w) \/ Taken(w)' = got[w] \/ Taken(w)' = << >>
  PROVE  WireInv'
<1>1. ASSUME NEW v \in Wires
      PROVE  /\ Len(Taken(v)') \in Nat /\ Len(Taken(v)') <= Len(Taken(v))
             /\ \A i \in 1..Len(Taken(v)') : Taken(v)'[i] = Taken(v)[i]
  <2>1. /\ Len(Taken(v)) \in Nat /\ Len(got[v]) \in Nat /\ Len(got[v]) <= Len(Taken(v))
        /\ \A i \in 1..Len(got[v]) : Taken(v)[i] = got[v][i]
    BY TakenExtendsGot DEF WireInv, KeysInv
  <2>2. Len(<< >>) = 0 /\ 1..0 = {}
    OBVIOUS
  <2>3. CASE Taken(v)' = Taken(v)
    BY <2>1, <2>3
  <2>4. CASE Taken(v)' = got[v]
    BY <2>1, <2>4
  <2>5. CASE Taken(v)' = << >>
    BY <2>1, <2>2, <2>5
  <2> QED BY <2>3, <2>4, <2>5
<1>2. QueuesOrdered' /\ TakenOrdered'
  BY <1>1, TypingKeepsOrder DEF WireInv, KeysInv
<1> QED BY <1>2 DEF WireInv, KeysInv

(* A new wire has fetched nothing. *)
LEMMA NewWireTyped ==
  ASSUME NEW ids \in SUBSET Nat, NEW d \in ids, NEW checked \in BOOLEAN
  PROVE  ShimTyped(NewWire(d, checked), ids) /\ NewWire(d, checked).rx = << >>
<1>1. << >> \in Seq([of : Nat, at : Nat]) /\ << >> \in Seq(Bytes) /\ Len(<< >>) = 0
  BY EmptySeq
<1>2. "slow" \in Clocks
  BY DEF Clocks
<1>3. d \in Nat
  OBVIOUS
<1>4. NewWire(d, checked) \in Shim
  BY <1>1, <1>2, <1>3 DEF NewWire, Shim
<1>5. /\ NewWire(d, checked).keyboard = d /\ NewWire(d, checked).gt911 = d
      /\ NewWire(d, checked).rx = << >> /\ NewWire(d, checked).at = 0
  BY DEF NewWire
<1>6. NewWire(d, checked).at <= Len(NewWire(d, checked).rx)
  BY <1>1, <1>5
<1> QED BY <1>4, <1>5, <1>6 DEF ShimTyped

(* A wire is created, with a manager if there was none. *)
LEMMA WireCreateStep ==
  ASSUME WireInv, NEW w \in Wires, WireCreate(w)
  PROVE  Done
<1> DEFINE new == NewWire(Manager.device, TRUE)
<1>1. /\ manager' = Manager /\ devices' = Devices
      /\ wires' = [wires EXCEPT ![w] = new] /\ got' = [got EXCEPT ![w] = << >>]
      /\ UNCHANGED <<window, retained, told, missed, injected, finger, hostEvents, handles, powered>>
  BY DEF WireCreate
<1>2. InputInv /\ WireTyped
  BY DEF WireInv, KeysInv
<1>3. /\ devices' \in Seq(Device) /\ Kept(manager', devices') /\ Truthful(manager', told', missed')
      /\ manager' # None /\ Len(devices') \in Nat /\ manager'.pressing = finger'
  BY <1>1, <1>2, ManagerIsKept
<1>4. InputInv'
  BY <1>1, <1>2, <1>3 DEF InputInv
<1>5. Types(devices, devices', injected, injected')
  BY <1>1, <1>2, NothingTyped
<1>6. DeviceIds \subseteq DeviceIds' /\ DeviceIds' \in SUBSET Nat
  BY <1>2, <1>3, <1>5, TypingAdds DEF DeviceIds
<1>7. ShimTyped(new, DeviceIds') /\ new.rx = << >>
  <2>1. Manager.device \in DeviceIds'
    BY <1>1, <1>3 DEF Kept, DeviceIds
  <2> QED BY <1>6, <2>1, NewWireTyped
<1> HIDE DEF new
<1>8. /\ WireTyped' /\ wires'[w] = new /\ got'[w] = << >>
      /\ \A v \in Wires : v # w => Taken(v)' = Taken(v)
  <2>1. << >> \in Seq(KeyBytes) /\ \A i \in 1..Len(<< >>) : << >>[i].of \in DeviceIds'
    BY EmptySeq
  <2>2. handles' \subseteq DeviceIds' /\ powered' \in BOOLEAN
    BY <1>1, <1>2, <1>6 DEF WireTyped
  <2> QED BY <1>1, <1>2, <1>6, <1>7, <2>1, <2>2, OneWire
<1>9. Taken(w)' = << >>
  BY <1>7, <1>8 DEF Taken, Pending
<1>10. WireInv'
  BY <1>4, <1>5, <1>8, <1>9, WireCallKeeps DEF Types
<1> QED BY <1>5, <1>10 DEF Done

(* A wire of no instance is created, with devices of its own. *)
LEMMA WireCreateLegacyStep ==
  ASSUME WireInv, NEW w \in Wires, WireCreateLegacy(w)
  PROVE  Done
<1> DEFINE new == NewWire(Len(devices) + 1, FALSE)
<1>1. PICK light \in Lights : devices' = Append(devices, LegacyDevice(light))
  BY DEF WireCreateLegacy
<1>2. /\ wires' = [wires EXCEPT ![w] = new] /\ got' = [got EXCEPT ![w] = << >>]
      /\ UNCHANGED <<manager, window, retained, told, missed, injected, finger, hostEvents>>
      /\ UNCHANGED <<handles, powered>>
  BY DEF WireCreateLegacy, hostVars
<1>3. InputInv /\ WireTyped
  BY DEF WireInv, KeysInv
<1>4. /\ InputInv' /\ Types(devices, devices', injected, injected')
      /\ Len(devices) + 1 \in DeviceIds'
  <2>1. retained \in Bytes \cup {None}
    BY <1>3 DEF InputInv
  <2> QED BY <1>1, <1>2, <1>3, <2>1, LegacyDeviceKeeps, DeviceAdded
<1>5. DeviceIds \subseteq DeviceIds' /\ DeviceIds' \in SUBSET Nat
  <2>1. Len(devices') \in Nat
    BY <1>4, LenProperties DEF InputInv
  <2> QED BY <1>3, <1>4, <2>1, TypingAdds DEF DeviceIds
<1>6. ShimTyped(new, DeviceIds') /\ new.rx = << >>
  BY <1>4, <1>5, NewWireTyped
<1> HIDE DEF new
<1>7. /\ WireTyped' /\ wires'[w] = new /\ got'[w] = << >>
      /\ \A v \in Wires : v # w => Taken(v)' = Taken(v)
  <2>1. << >> \in Seq(KeyBytes) /\ \A i \in 1..Len(<< >>) : << >>[i].of \in DeviceIds'
    BY EmptySeq
  <2>2. handles' \subseteq DeviceIds' /\ powered' \in BOOLEAN
    BY <1>2, <1>3, <1>5 DEF WireTyped
  <2> QED BY <1>2, <1>3, <1>5, <1>6, <2>1, <2>2, OneWire
<1>8. Taken(w)' = << >>
  BY <1>6, <1>7 DEF Taken, Pending
<1>9. WireInv'
  BY <1>4, <1>7, <1>8, WireCallKeeps DEF Types
<1> QED BY <1>4, <1>9 DEF Done

(* A wire is destroyed with what it had fetched. *)
LEMMA WireDestroyStep ==
  ASSUME WireInv, NEW w \in Wires, WireDestroy(w)
  PROVE  Done
<1>1. /\ wires' = [wires EXCEPT ![w] = None]
      /\ UNCHANGED <<manager, window, devices, retained, told, missed, injected, finger, hostEvents,
                     handles, powered, got>>
  BY DEF WireDestroy, inputVars
<1>2. InputInv /\ WireTyped /\ InputInv' /\ DeviceIds' = DeviceIds
      /\ Types(devices, devices', injected, injected')
  BY <1>1, NothingTyped DEF WireInv, KeysInv, InputInv, DeviceIds
<1>3. /\ got[w] \in Seq(KeyBytes) /\ got' = [got EXCEPT ![w] = got[w]]
      /\ \A i \in 1..Len(got[w]) : got[w][i].of \in DeviceIds
      /\ handles \subseteq DeviceIds /\ powered \in BOOLEAN
  BY <1>1, <1>2 DEF WireTyped, KeyBytes
<1>4. /\ WireTyped' /\ wires'[w] = None /\ got'[w] = got[w]
      /\ \A v \in Wires : v # w => Taken(v)' = Taken(v)
  BY <1>1, <1>2, <1>3, OneWire
<1>5. Taken(w)' = got[w]
  BY <1>4 DEF Taken, Pending
<1>6. WireInv'
  BY <1>2, <1>4, <1>5, WireCallKeeps DEF Types
<1> QED BY <1>2, <1>6 DEF Done

(* A key byte that is read was fetched, and nothing else changes hands. *)
LEMMA ReadByteStep ==
  ASSUME WireInv, NEW w \in Wires, ReadByte(w)
  PROVE  Done
<1> DEFINE s == wires[w]
           byte == s.rx[1]
           noted == byte.of # 0 /\ byte.at # 0
           g == IF noted THEN Append(got[w], byte) ELSE got[w]
           new == [s EXCEPT !.at = 1]
<1>1. /\ InputInv /\ WireTyped /\ w \in Open /\ s # None /\ ShimTyped(s, DeviceIds)
  BY DEF ReadByte, Open, WireInv, KeysInv, WireTyped
<1>2. s.at = 0 /\ Len(s.rx) = 1 /\ s.rx # << >> /\ byte.of \in DeviceIds \cup {0} /\ byte \in KeyBytes
  <2>1. /\ s.at \in Nat /\ s.at <= Len(s.rx) /\ Len(s.rx) - s.at > 0 /\ Len(<< >>) = 0
        /\ s.rx \in Seq(KeyBytes)
        /\ s.rx = << >> \/ (Len(s.rx) = 1 /\ s.rx[1].of \in DeviceIds \cup {0})
    BY <1>1 DEF ReadByte, Available, ShimTyped, Shim, KeyBytes
  <2>2. Len(s.rx) = 1 /\ s.rx # << >> /\ s.rx[1].of \in DeviceIds \cup {0}
    BY <2>1
  <2>3. s.rx[1] \in KeyBytes
    BY <2>1, <2>2, ElementOfSeq
  <2> QED BY <2>1, <2>2, <2>3
<1>3. /\ wires' = [wires EXCEPT ![w] = new] /\ got' = [got EXCEPT ![w] = g]
      /\ UNCHANGED <<manager, window, devices, retained, told, missed, injected, finger, hostEvents,
                     handles, powered>>
  <2>1. /\ wires' = [wires EXCEPT ![w].at = s.at + 1]
        /\ got' = IF s.rx[s.at + 1].of = 0 \/ s.rx[s.at + 1].at = 0 THEN got
                  ELSE [got EXCEPT ![w] = Append(got[w], s.rx[s.at + 1])]
        /\ UNCHANGED <<inputVars, handles, powered>>
    BY DEF ReadByte
  <2>2. s.at + 1 = 1
    BY <1>2
  <2>3. wires' = [wires EXCEPT ![w] = new]
    BY <2>1, <2>2
  <2>4. got' = [got EXCEPT ![w] = g]
    <3>1. DOMAIN got = Wires /\ got = [got EXCEPT ![w] = got[w]]
      BY <1>1 DEF WireTyped
    <3>2. CASE noted
      BY <2>1, <2>2, <3>2
    <3>3. CASE ~noted
      BY <2>1, <2>2, <3>1, <3>3
    <3> QED BY <3>2, <3>3
  <2> QED BY <2>1, <2>3, <2>4 DEF inputVars
<1>4. /\ InputInv' /\ DeviceIds' = DeviceIds
      /\ Types(devices, devices', injected, injected')
  BY <1>1, <1>3, NothingTyped DEF InputInv, DeviceIds
<1>5. /\ ShimTyped(new, DeviceIds) /\ new.rx = s.rx /\ new.at = 1
  <2>1. s \in Shim /\ s.keyboard \in DeviceIds /\ s.gt911 \in DeviceIds
    BY <1>1 DEF ShimTyped
  <2>2. /\ new \in Shim /\ new.rx = s.rx /\ new.at = 1
        /\ new.keyboard = s.keyboard /\ new.gt911 = s.gt911
    BY <2>1 DEF Shim
  <2> HIDE DEF new, s
  <2>3. new.at <= Len(new.rx)
    BY <1>2, <2>2
  <2> USE DEF s
  <2> QED BY <1>2, <2>1, <2>2, <2>3 DEF ShimTyped
<1>6. /\ g \in Seq(KeyBytes) /\ \A i \in 1..Len(g) : g[i].of \in DeviceIds
  <2>1. got[w] \in Seq(KeyBytes) /\ \A i \in 1..Len(got[w]) : got[w][i].of \in DeviceIds
    BY <1>1 DEF WireTyped, KeyBytes
  <2>2. CASE noted
    <3>1. byte.of \in DeviceIds
      BY <1>2, <2>2
    <3> HIDE DEF byte
    <3>2. /\ Append(got[w], byte) \in Seq(KeyBytes) /\ Len(Append(got[w], byte)) = Len(got[w]) + 1
          /\ Append(got[w], byte)[Len(got[w]) + 1] = byte /\ Len(got[w]) \in Nat
          /\ \A i \in 1..Len(got[w]) : Append(got[w], byte)[i] = got[w][i]
      BY <1>2, <2>1, AppendProperties, LenProperties
    <3>3. \A i \in 1..Len(got[w]) + 1 : i = Len(got[w]) + 1 \/ i \in 1..Len(got[w])
      BY <3>2
    <3> QED BY <2>1, <2>2, <3>1, <3>2, <3>3
  <2>3. CASE ~noted
    BY <2>1, <2>3
  <2> QED BY <2>2, <2>3
<1> HIDE DEF new, g
<1>7. /\ WireTyped' /\ wires'[w] = new /\ got'[w] = g
      /\ \A v \in Wires : v # w => Taken(v)' = Taken(v)
  <2>1. handles' \subseteq DeviceIds' /\ powered' \in BOOLEAN
    BY <1>1, <1>3, <1>4 DEF WireTyped
  <2> QED BY <1>1, <1>3, <1>4, <1>5, <1>6, <2>1, OneWire
<1>8. Taken(w)' = Taken(w)
  <2>1. Taken(w)' = g
    BY <1>5, <1>7 DEF Taken, Pending
  <2>2. Pending(w) <=> noted
    BY <1>1, <1>2 DEF Pending
  <2> QED BY <2>1, <2>2 DEF Taken, g
<1>9. WireInv'
  BY <1>4, <1>7, <1>8, WireCallKeeps DEF Types
<1> QED BY <1>4, <1>9 DEF Done

(* A transmission reaches the keyboard of the wire, and leaves its queue. *)
LEMMA EndToKeyboardStep ==
  ASSUME WireInv, CallInv, NEW w \in Wires, EndToKeyboard(w)
  PROVE  Done
<1> DEFINE s == wires[w]
           d == s.keyboard
           new == WrittenTo(devices[d], s.tx)
           shim == [s EXCEPT !.to = None, !.tx = << >>]
<1>1. InputInv /\ WireTyped /\ w \in Open /\ ShimTyped(s, DeviceIds) /\ d \in DeviceIds
  <2>1. w \in Open
    BY InCallFacts DEF EndToKeyboard
  <2> QED BY <2>1 DEF Open, WireInv, KeysInv, WireTyped, ShimTyped
<1>2. /\ calling # None /\ calling.wire = w
      /\ devices' = [devices EXCEPT ![d] = new]
      /\ retained' = RetainedBy(devices[d], s.tx)
      /\ UNCHANGED <<manager, window, told, missed, finger, hostEvents, injected, handles, powered, got>>
  BY InCallFacts DEF EndToKeyboard, Returns, hostVars
<1>3. wires' = [wires EXCEPT ![w] = shim]
  BY DEF EndToKeyboard, Ended
<1>4. ShimTyped(shim, DeviceIds) /\ shim.rx = s.rx /\ shim.at = s.at /\ shim.to = None
  <2>1. ShimTyped(shim, DeviceIds) /\ shim.rx = s.rx /\ shim.at = s.at
    <3>1. DeviceIds \in SUBSET Nat
      BY <1>1, LenProperties DEF InputInv, DeviceIds
    <3> QED BY <1>1, <3>1, ShimsStayTyped
  <2>2. shim.to = None
    BY <1>1 DEF ShimTyped, Shim
  <2> QED BY <2>1, <2>2
<1>5. devices[d] \in Device /\ s.tx \in Seq(Bytes) /\ retained \in Bytes \cup {None}
  BY <1>1, ElementOfSeq DEF InputInv, DeviceIds, ShimTyped, Shim
<1>6. /\ new \in Device /\ new.queue = devices[d].queue /\ new.contact = devices[d].contact
      /\ retained' \in Bytes \cup {None}
  BY <1>2, <1>5, WrittenToKeeps
<1>7. injected \in Nat /\ hostEvents \in Nat
  BY <1>1 DEF InputInv
<1> HIDE DEF shim, new
<1>8. /\ InputInv' /\ DeviceIds' = DeviceIds /\ Len(devices') = Len(devices) /\ Len(devices) \in Nat
      /\ \A e \in DeviceIds : devices'[e] = IF e = d THEN new ELSE devices[e]
  BY <1>1, <1>2, <1>6, <1>7, DeviceStep
<1>9. Grows(devices, devices', injected, injected')
  BY <1>2, <1>6, <1>8 DEF Grows, Before, DeviceIds
<1>10. /\ WireTyped' /\ wires'[w] = shim /\ got'[w] = got[w]
       /\ \A v \in Wires : v # w => Taken(v)' = Taken(v)
  <2>1. /\ got[w] \in Seq(KeyBytes) /\ got' = [got EXCEPT ![w] = got[w]]
        /\ \A i \in 1..Len(got[w]) : got[w][i].of \in DeviceIds
        /\ handles \subseteq DeviceIds /\ powered \in BOOLEAN
    BY <1>1, <1>2 DEF WireTyped, KeyBytes
  <2> QED BY <1>1, <1>2, <1>3, <1>4, <1>8, <2>1, OneWire
<1>11. Taken(w)' = Taken(w)
  <2>1. shim # None /\ s # None
    BY <1>1, <1>4, NoneIsNoShim DEF ShimTyped
  <2> QED BY <1>4, <1>10, <2>1 DEF Taken, Pending
<1>12. WireInv'
  BY <1>8, <1>9, <1>10, <1>11, WireCallKeeps
<1>13. Reached(d)
  BY <1>1, <1>2, <1>8 DEF Reached
<1> QED BY <1>1, <1>12, <1>13 DEF Done

(* A request takes the key at the head of the keyboard's queue. *)
LEMMA RequestKeyStep ==
  ASSUME WireInv, CallInv, NEW w \in Wires, RequestKey(w)
  PROVE  Done
<1> DEFINE s == wires[w]
           d == s.keyboard
           new == AfterKeyByte(devices[d])
           r == [of |-> d, at |-> KeyByte(devices[d])]
           shim == [s EXCEPT !.rx = <<r>>]
           byte == devices[d].keyMode /\ devices[d].queue # << >>
           q == devices[d].queue
           rest == Tail(q)
<1>1. InputInv /\ WireTyped /\ w \in Open /\ s # None /\ ShimTyped(s, DeviceIds) /\ d \in DeviceIds
  <2>1. w \in Open
    BY InCallFacts DEF RequestKey
  <2> QED BY <2>1 DEF Open, WireInv, KeysInv, WireTyped, ShimTyped
<1>0. wires' = [wires EXCEPT ![w] = shim]
  BY <1>1 DEF RequestKey, Received, WireTyped
<1>2. /\ calling # None /\ calling.wire = w /\ s.rx = << >>
      /\ wires' = [wires EXCEPT ![w] = shim]
      /\ devices' = [devices EXCEPT ![d] = new]
      /\ UNCHANGED <<manager, window, told, missed, finger, hostEvents, retained, injected, handles, powered, got>>
  BY <1>0, InCallFacts, WireAssumption DEF RequestKey, Returns, hostVars
<1>3. /\ devices[d] \in Device /\ injected \in Nat /\ hostEvents \in Nat
      /\ retained \in Bytes \cup {None} /\ d # 0 /\ d \in Nat
  <2>1. devices \in Seq(Device) /\ Len(devices) \in Nat
    BY <1>1, LenProperties DEF InputInv
  <2> QED BY <1>1, <2>1, ElementOfSeq DEF InputInv, DeviceIds
<1>4. /\ new \in Device /\ new.contact = devices[d].contact
      /\ new.keyMode = devices[d].keyMode /\ new.backlight = devices[d].backlight
      /\ IF byte THEN new.queue = rest ELSE new = devices[d]
  BY <1>3, AfterKeyByteKeeps
<1>5. /\ q \in Seq([at : Nat, upper : BOOLEAN]) /\ Len(q) \in Nat
      /\ byte => /\ Len(q) > 0 /\ Head(q) = q[1] /\ Len(rest) = Len(q) - 1
                 /\ \A i \in 1..Len(rest) : rest[i] = q[i + 1]
  <2>1. q \in Seq([at : Nat, upper : BOOLEAN])
    BY <1>3 DEF Device
  <2> QED BY <2>1, HeadTailProperties, LenProperties, EmptySeq
<1>6. /\ byte => r.at = q[1].at /\ q[1].at \in 1..injected
      /\ ~byte => r.at = 0
      /\ r.of = d /\ r.at \in Nat
  <2>1. byte => q[1].at \in 1..injected
    BY <1>1, <1>5 DEF WireInv, KeysInv, QueuesOrdered, Queued
  <2>2. r.of = d /\ r.at = IF byte THEN Head(q).at ELSE 0
    BY DEF KeyByte
  <2>3. byte => Head(q) = q[1]
    BY <1>5
  <2>4. d \in Nat /\ injected \in Nat
    BY <1>3
  <2> HIDE DEF r, byte, q, d
  <2> QED BY <2>1, <2>2, <2>3, <2>4
<1>7. r \in KeyBytes /\ r.of \in DeviceIds \cup {0}
  BY <1>1, <1>3, <1>6 DEF KeyBytes
<1> HIDE DEF new, r, rest
<1>8. /\ ShimTyped(shim, DeviceIds) /\ shim.at = 0 /\ shim.rx # << >> /\ shim.rx[1] = r
      /\ shim # None
  <2>1. ShimTyped(shim, DeviceIds) /\ shim.at = 0 /\ shim.rx # << >> /\ shim.rx[1] = r
    BY <1>1, <1>2, <1>7, FetchedTyped
  <2> QED BY <2>1, NoneIsNoShim DEF ShimTyped
<1> HIDE DEF shim
<1>9. /\ InputInv' /\ DeviceIds' = DeviceIds /\ Len(devices') = Len(devices) /\ Len(devices) \in Nat
      /\ \A e \in DeviceIds : devices'[e] = IF e = d THEN new ELSE devices[e]
  <2>1. retained' \in Bytes \cup {None} /\ injected' \in Nat /\ hostEvents' \in Nat
    BY <1>2, <1>3
  <2> QED BY <1>1, <1>2, <1>4, <2>1, DeviceStep
<1>10. /\ WireTyped' /\ wires'[w] = shim /\ got'[w] = got[w]
       /\ \A v \in Wires : v # w => Taken(v)' = Taken(v)
  <2>1. /\ got[w] \in Seq(KeyBytes) /\ got' = [got EXCEPT ![w] = got[w]]
        /\ \A i \in 1..Len(got[w]) : got[w][i].of \in DeviceIds
        /\ handles \subseteq DeviceIds /\ powered \in BOOLEAN
    BY <1>1, <1>2 DEF WireTyped, KeyBytes
  <2> QED BY <1>1, <1>2, <1>8, <1>9, <2>1, OneWire
<1>11. CASE ~byte
  <2>1. Types(devices, devices', injected, injected')
    BY <1>2, <1>4, <1>9, <1>11 DEF Types, Grows, Before, DeviceIds
  <2>2. Taken(w)' = got[w]
    BY <1>6, <1>8, <1>10, <1>11 DEF Taken, Pending
  <2>3. WireInv'
    BY <1>9, <1>10, <2>1, <2>2, WireCallKeeps DEF Types
  <2> QED BY <2>1, <2>3 DEF Done
<1>12. CASE byte
  <2> DEFINE n == Len(got[w])
  <2>1. /\ n \in Nat /\ Taken(w)' = Append(got[w], r) /\ Len(Taken(w)') = n + 1
        /\ Taken(w)'[n + 1] = r /\ \A i \in 1..n : Taken(w)'[i] = Taken(w)[i] /\ i \in 1..Len(Taken(w))
    <3>1. Taken(w)' = Append(got[w], r)
      BY <1>3, <1>6, <1>8, <1>10, <1>12 DEF Taken, Pending
    <3>2. /\ got[w] \in Seq(KeyBytes) /\ n \in Nat /\ Len(Taken(w)) \in Nat /\ n <= Len(Taken(w))
          /\ \A i \in 1..n : Taken(w)[i] = got[w][i]
      BY <1>1, TakenExtendsGot
    <3>3. Len(Append(got[w], r)) = n + 1 /\ Append(got[w], r)[n + 1] = r
          /\ \A i \in 1..n : Append(got[w], r)[i] = got[w][i]
      BY <1>7, <3>2, AppendProperties
    <3> QED BY <3>1, <3>2, <3>3
  <2> HIDE DEF n
  <2>2. ASSUME NEW e \in DeviceIds, NEW j \in 1..Len(Queued(e)')
        PROVE  \E k \in 1..Len(Queued(e)) : /\ Queued(e)'[j] = Queued(e)[k]
                                            /\ k = (IF e = d THEN j + 1 ELSE j)
    <3>1. CASE e = d
      <4>1. Queued(e)' = rest /\ Queued(e) = q
        BY <1>4, <1>9, <1>12, <3>1 DEF Queued
      <4>2. Len(rest) = Len(q) - 1 /\ \A i \in 1..Len(rest) : rest[i] = q[i + 1]
        BY <1>5, <1>12
      <4>3. j + 1 \in 1..Len(q) /\ rest[j] = q[j + 1]
        BY <1>5, <2>2, <4>1, <4>2
      <4> QED BY <3>1, <4>1, <4>3
    <3>2. CASE e # d
      <4>1. Queued(e)' = Queued(e)
        BY <1>9, <3>2 DEF Queued
      <4> QED BY <2>2, <3>2, <4>1
    <3> QED BY <3>1, <3>2
  <2>3. QueuesOrdered'
    <3> SUFFICES ASSUME NEW e \in DeviceIds, NEW i \in 1..Len(Queued(e)')
                 PROVE  /\ Queued(e)'[i].at \in 1..injected
                        /\ \A j \in 1..Len(Queued(e)') : i < j => Queued(e)'[i].at < Queued(e)'[j].at
                        /\ \A f \in DeviceIds : \A j \in 1..Len(Queued(f)') :
                             Queued(e)'[i].at = Queued(f)'[j].at => e = f
      BY <1>2, <1>9 DEF QueuesOrdered
    <3>1. PICK k \in 1..Len(Queued(e)) : Queued(e)'[i] = Queued(e)[k] /\ k = (IF e = d THEN i + 1 ELSE i)
      BY <2>2
    <3>2. /\ Queued(e)[k].at \in 1..injected
          /\ \A j \in 1..Len(Queued(e)) : k < j => Queued(e)[k].at < Queued(e)[j].at
          /\ \A f \in DeviceIds : \A j \in 1..Len(Queued(f)) : Queued(e)[k].at = Queued(f)[j].at => e = f
      BY DEF WireInv, KeysInv, QueuesOrdered
    <3>3. ASSUME NEW j \in 1..Len(Queued(e)'), i < j
          PROVE  Queued(e)'[i].at < Queued(e)'[j].at
      <4>1. PICK l \in 1..Len(Queued(e)) : Queued(e)'[j] = Queued(e)[l] /\ l = (IF e = d THEN j + 1 ELSE j)
        BY <2>2
      <4>2. k < l
        BY <3>1, <3>3, <4>1
      <4> QED BY <3>1, <3>2, <4>1, <4>2
    <3>4. ASSUME NEW f \in DeviceIds, NEW j \in 1..Len(Queued(f)'), Queued(e)'[i].at = Queued(f)'[j].at
          PROVE  e = f
      <4>1. PICK l \in 1..Len(Queued(f)) : Queued(f)'[j] = Queued(f)[l]
        BY <2>2
      <4> QED BY <3>1, <3>2, <3>4, <4>1
    <3> QED BY <3>1, <3>2, <3>3, <3>4
  <2>4. /\ 1 \in 1..Len(Queued(d)) /\ Queued(d)[1] = q[1] /\ r.at = q[1].at /\ r.of = d
        /\ r.at \in 1..injected
    BY <1>5, <1>6, <1>12 DEF Queued
  <2>5. ASSUME NEW v \in Wires, NEW i \in 1..Len(Taken(v))
        PROVE  /\ Taken(v)[i].at \in 1..injected /\ Taken(v)[i].at # r.at
               /\ Taken(v)[i].of = d => Taken(v)[i].at < r.at
    BY <1>1, <2>4 DEF WireInv, KeysInv, TakenOrdered
  <2>6. ASSUME NEW e \in DeviceIds, NEW j \in 1..Len(Queued(e)')
        PROVE  r.at # Queued(e)'[j].at /\ (e = d => r.at < Queued(e)'[j].at)
    <3>1. PICK k \in 1..Len(Queued(e)) : Queued(e)'[j] = Queued(e)[k] /\ k = (IF e = d THEN j + 1 ELSE j)
      BY <2>2
    <3>2. CASE e = d
      <4>1. 1 < k
        BY <2>6, <3>1, <3>2
      <4>2. Queued(d)[1].at < Queued(d)[k].at /\ Queued(d)[k].at \in 1..injected
        BY <1>1, <2>4, <3>1, <3>2, <4>1 DEF WireInv, KeysInv, QueuesOrdered
      <4> QED BY <2>4, <3>1, <3>2, <4>2
    <3>3. CASE e # d
      <4>1. Queued(d)[1].at # Queued(e)[k].at
        BY <1>1, <2>4, <3>1, <3>3 DEF WireInv, KeysInv, QueuesOrdered
      <4> QED BY <2>4, <3>1, <3>3, <4>1
    <3> QED BY <3>2, <3>3
  <2> DEFINE Was(v, i) == i \in 1..Len(Taken(v)) /\ Taken(v)'[i] = Taken(v)[i]
             Is(v, i) == v = w /\ i = n + 1 /\ Taken(v)'[i] = r
  <2>7. ASSUME NEW v \in Wires, NEW i \in 1..Len(Taken(v)')
        PROVE  Was(v, i) \/ Is(v, i)
    <3>1. CASE v = w
      <4>1. i = n + 1 \/ i \in 1..n
        BY <2>1, <2>7, <3>1
      <4> QED BY <2>1, <3>1, <4>1
    <3>2. CASE v # w
      BY <1>10, <2>7, <3>2
    <3> QED BY <3>1, <3>2
  <2>8. TakenOrdered'
    <3> SUFFICES ASSUME NEW v \in Wires, NEW i \in 1..Len(Taken(v)')
                 PROVE  /\ Taken(v)'[i].at \in 1..injected
                        /\ \A j \in 1..Len(Taken(v)') :
                             i < j /\ Taken(v)'[i].of = Taken(v)'[j].of => Taken(v)'[i].at < Taken(v)'[j].at
                        /\ \A u \in Wires : \A j \in 1..Len(Taken(u)') :
                             Taken(v)'[i].at = Taken(u)'[j].at => u = v
                        /\ \A e \in DeviceIds : \A j \in 1..Len(Queued(e)') :
                             /\ Taken(v)'[i].at # Queued(e)'[j].at
                             /\ Taken(v)'[i].of = e => Taken(v)'[i].at < Queued(e)'[j].at
      BY <1>2, <1>9 DEF TakenOrdered
    <3>1. Taken(v)'[i].at \in 1..injected
      BY <2>4, <2>5, <2>7
    <3>2. ASSUME NEW j \in 1..Len(Taken(v)'), i < j, Taken(v)'[i].of = Taken(v)'[j].of
          PROVE  Taken(v)'[i].at < Taken(v)'[j].at
      <4>1. CASE Was(v, i) /\ Was(v, j)
        BY <3>2, <4>1 DEF WireInv, KeysInv, TakenOrdered
      <4>2. CASE Was(v, i) /\ Is(v, j)
        BY <2>4, <2>5, <3>2, <4>2
      <4>3. CASE Is(v, i)
        BY <2>1, <3>2, <4>3
      <4> QED BY <2>7, <4>1, <4>2, <4>3
    <3>3. ASSUME NEW u \in Wires, NEW j \in 1..Len(Taken(u)'), Taken(v)'[i].at = Taken(u)'[j].at
          PROVE  u = v
      <4>1. CASE Was(v, i) /\ Was(u, j)
        BY <3>3, <4>1 DEF WireInv, KeysInv, TakenOrdered
      <4>2. CASE Was(v, i) /\ Is(u, j)
        BY <2>5, <3>3, <4>2
      <4>3. CASE Is(v, i) /\ Was(u, j)
        BY <2>5, <3>3, <4>3
      <4>4. CASE Is(v, i) /\ Is(u, j)
        BY <4>4
      <4> QED BY <2>7, <4>1, <4>2, <4>3, <4>4
    <3>4. ASSUME NEW e \in DeviceIds, NEW j \in 1..Len(Queued(e)')
          PROVE  /\ Taken(v)'[i].at # Queued(e)'[j].at
                 /\ Taken(v)'[i].of = e => Taken(v)'[i].at < Queued(e)'[j].at
      <4>1. CASE Is(v, i)
        BY <2>4, <2>6, <3>4, <4>1
      <4>2. CASE Was(v, i)
        <5>1. PICK k \in 1..Len(Queued(e)) : Queued(e)'[j] = Queued(e)[k]
          BY <2>2
        <5> QED BY <4>2, <5>1 DEF WireInv, KeysInv, TakenOrdered
      <4> QED BY <2>7, <4>1, <4>2
    <3> QED BY <3>1, <3>2, <3>3, <3>4
  <2>9. Reached(d)
    BY <1>1, <1>2, <1>9 DEF Reached
  <2> QED BY <1>1, <1>9, <1>10, <2>3, <2>8, <2>9 DEF Done, WireInv, KeysInv
<1> QED BY <1>11, <1>12

-----------------------------------------------------------------------------
(* The theorems. *)

(* At first nothing is typed, queued or read. *)
LEMMA WireStarts == WireInit => WireInv
<1> SUFFICES ASSUME WireInit PROVE WireInv
  OBVIOUS
<1>1. InputInv /\ devices = << >> /\ injected = 0 /\ Len(devices) = 0 /\ DeviceIds = {}
  BY InputStarts DEF WireInit, InputInit, DeviceIds
<1>2. /\ wires = [w \in Wires |-> None] /\ handles = {} /\ powered = TRUE
      /\ got = [w \in Wires |-> << >>]
  BY DEF WireInit
<1>3. << >> \in Seq([of : Nat, at : Nat]) /\ Len(<< >>) = 0 /\ 1..0 = {}
  BY EmptySeq
<1>4. WireTyped
  BY <1>1, <1>2, <1>3 DEF WireTyped
<1>5. \A w \in Wires : Taken(w) = << >>
  BY <1>2 DEF Taken, Pending
<1> QED BY <1>1, <1>3, <1>4, <1>5 DEF WireInv, KeysInv, QueuesOrdered, TakenOrdered

(* Every step keeps the invariant and reads keys in order. *)
LEMMA WireStep ==
  ASSUME WireInv, CallInv, [WireNext]_wireVars
  PROVE  Done
<1>1. ASSUME WireInv' /\ Types(devices, devices', injected, injected')
      PROVE  Done
  BY <1>1 DEF Done
<1>2. CASE InputNext /\ UNCHANGED <<busVars, wireCalls>>
  BY <1>1, <1>2, ManagerStep DEF busVars
<1>3. CASE \/ KeyboardCreate \/ SwitchRail
           \/ \E d \in handles : KeyboardDestroy(d) \/ KeyboardInject(d)
           \/ \E d \in handles, persist \in BOOLEAN : SetCrossReset(d, persist)
  BY <1>3, DeviceCalls
<1>4. ASSUME NEW w \in Wires, BusNext(w)
      PROVE  Done
  <2>1. CASE \/ WireCreate(w) \/ WireCreateLegacy(w) \/ WireDestroy(w)
             \/ EndToKeyboard(w) \/ RequestKey(w) \/ ReadByte(w)
    BY <2>1, WireCreateStep, WireCreateLegacyStep, WireDestroyStep, EndToKeyboardStep, RequestKeyStep, ReadByteStep
  <2>2. CASE \/ Begin(w) \/ EmitStop(w) \/ ClockOutRecovery(w)
             \/ \E clock \in Clocks : SetClock(w, clock)
             \/ \E stuck \in BOOLEAN : SetSdaStuck(w, stuck)
             \/ \E address \in {KeyboardAt, TouchAt, Nowhere} : BeginTransmission(w, address)
             \/ \E byte \in Bytes : Write(w, byte)
             \/ EndFails(w) \/ EndPasses(w) \/ EndToGt911(w) \/ EndToNobody(w)
             \/ RequestFails(w) \/ \E address \in {KeyboardAt, TouchAt} : RequestPasses(w, address)
             \/ RequestContact(w)
             \/ \E d \in handles : SetKeyboard(w, d)
    BY <1>1, <2>2, ShimCalls
  <2> QED BY <1>4, <2>1, <2>2 DEF BusNext
<1>5. CASE UNCHANGED wireVars
  <2>1. /\ UNCHANGED <<manager, window, devices, retained, told, missed, injected, finger, hostEvents>>
        /\ UNCHANGED <<wires, handles, powered, got>>
    BY <1>5 DEF wireVars, busVars, inputVars
  <2>2. InputInv' /\ Types(devices, devices', injected, injected') /\ DeviceIds' = DeviceIds
    BY <2>1, NothingTyped DEF WireInv, InputInv, DeviceIds
  <2>3. handles' \subseteq DeviceIds' /\ powered' \in BOOLEAN
    BY <2>1, <2>2 DEF WireInv, KeysInv, WireTyped
  <2> QED BY <2>1, <2>2, <2>3, KeyboardStep
<1> QED BY <1>2, <1>3, <1>4, <1>5 DEF WireNext

(* A call that found its bus in order finds it so until it returns, unless *)
(* the rail falls.                                                         *)
LEMMA CallStep ==
  ASSUME WireInv, CallInv, [WireNext]_wireVars
  PROVE  CallInv'
<1>0. DOMAIN wires = Wires
  BY DEF WireInv, KeysInv, WireTyped
<1>1. CASE calling' = None
  BY <1>1 DEF CallInv
<1>2. CASE UNCHANGED <<calling, wires, powered, late>>
  BY <1>2 DEF CallInv
<1>3. ASSUME NEW w \in Wires, NEW new, wires' = [wires EXCEPT ![w] = new],
             calling = None \/ calling.wire # w, UNCHANGED <<calling, powered, late>>
      PROVE  CallInv'
  BY <1>0, <1>3 DEF CallInv, Calls
<1>4. CASE SwitchRail
  BY <1>4 DEF SwitchRail, CallInv
<1>5. ASSUME NEW w \in Wires, NEW new, OnWire(w, new)
      PROVE  CallInv'
  BY <1>1, <1>5 DEF OnWire
<1>6. ASSUME NEW w \in Wires, BusNext(w)
      PROVE  CallInv'
  <2>1. CASE WireCreate(w) \/ WireCreateLegacy(w)
    <3>1. calling = None \/ calling.wire # w
      BY <2>1 DEF WireCreate, WireCreateLegacy, CallInv, Open
    <3> QED BY <1>3, <2>1, <3>1 DEF WireCreate, WireCreateLegacy
  <2>2. CASE WireDestroy(w)
    BY <1>3, <2>2 DEF WireDestroy
  <2>3. CASE \/ EndToKeyboard(w) \/ EndToGt911(w) \/ EndToNobody(w)
             \/ RequestKey(w) \/ RequestContact(w)
    BY <1>1, <2>3 DEF EndToKeyboard, EndToGt911, EndToNobody, RequestKey, RequestContact, Returns
  <2>4. CASE ReadByte(w)
    BY <1>1, <2>4 DEF ReadByte
  <2>5. CASE \/ Begin(w) \/ EmitStop(w) \/ ClockOutRecovery(w)
             \/ \E clock \in Clocks : SetClock(w, clock)
             \/ \E stuck \in BOOLEAN : SetSdaStuck(w, stuck)
             \/ \E address \in {KeyboardAt, TouchAt, Nowhere} : BeginTransmission(w, address)
             \/ \E byte \in Bytes : Write(w, byte)
             \/ EndFails(w) \/ RequestFails(w)
             \/ \E d \in handles : SetKeyboard(w, d)
    BY <1>5, <2>5 DEF Begin, EmitStop, ClockOutRecovery, SetClock, SetSdaStuck, BeginTransmission,
                      Write, EndFails, RequestFails, SetKeyboard
  <2>6. CASE EndPasses(w)
    <3>1. /\ calling' = [wire |-> w, asks |-> None] /\ UNCHANGED <<wires, powered>>
          /\ wires[w] # None /\ ~Fails(wires[w])
      BY <2>6 DEF EndPasses, Open
    <3>2. calling' \in Calls /\ calling'.wire = w /\ calling'.asks = None
      BY <3>1 DEF Calls
    <3> QED BY <3>1, <3>2 DEF CallInv, Fails, Powered
  <2>7. ASSUME NEW address \in {KeyboardAt, TouchAt}, RequestPasses(w, address)
        PROVE  CallInv'
    <3>1. /\ calling' = [wire |-> w, asks |-> address] /\ wires'[w] = ClearedRead(wires[w])
          /\ wires[w] # None /\ BusReady(wires[w]) /\ UNCHANGED powered
      BY <1>0, <2>7 DEF RequestPasses, CanRequest, Open
    <3>2. calling' \in Calls /\ calling'.wire = w
      BY <3>1 DEF Calls
    <3>3. ShimTyped(wires[w], DeviceIds)
      BY <3>1 DEF WireInv, KeysInv, WireTyped
    <3> DEFINE s == ClearedRead(wires[w])
    <3>4. /\ s # None /\ s.rx = << >> /\ s.begun = wires[w].begun /\ s.stuck = wires[w].stuck
          /\ s.checked = wires[w].checked
      <4>1. ShimTyped(s, DeviceIds) /\ s.rx = << >>
        BY <3>3, ClearedReadTyped
      <4>2. s # None
        BY <4>1, NoneIsNoShim DEF ShimTyped
      <4>3. wires[w] \in Shim
        BY <3>3 DEF ShimTyped
      <4> QED BY <4>1, <4>2, <4>3 DEF ClearedRead, Shim
    <3> HIDE DEF s
    <3> QED BY <3>1, <3>2, <3>4 DEF CallInv, BusReady, Powered, s
  <2> QED BY <1>6, <2>1, <2>2, <2>3, <2>4, <2>5, <2>6, <2>7 DEF BusNext
<1>7. CASE InputNext /\ UNCHANGED <<busVars, wireCalls>>
  BY <1>2, <1>7 DEF busVars
<1>8. CASE \/ KeyboardCreate
           \/ \E d \in handles : KeyboardDestroy(d) \/ KeyboardInject(d)
           \/ \E d \in handles, persist \in BOOLEAN : SetCrossReset(d, persist)
  BY <1>2, <1>8 DEF KeyboardCreate, KeyboardDestroy, KeyboardInject, SetCrossReset, busVars
<1>9. CASE UNCHANGED wireVars
  BY <1>2, <1>9 DEF wireVars, busVars
<1> QED BY <1>4, <1>6, <1>7, <1>8, <1>9 DEF WireNext

(* The state of the queues, the devices and the shims is as described at   *)
(* the head of this module whatever the host, firmware and wires do.       *)
THEOREM WireInvariant == WireSpec => [](WireInv /\ CallInv)
<1>1. WireInit => WireInv /\ CallInv
  BY WireStarts DEF WireInit, CallInv
<1>2. WireInv /\ CallInv /\ [WireNext]_wireVars => WireInv' /\ CallInv'
  BY WireStep, CallStep DEF Done
<1> QED BY <1>1, <1>2, PTL DEF WireSpec

(* Firmware that polls all that is queued believes the present state of    *)
(* every key and of the pointer of which no event met a full queue, and    *)
(* such a key is told pressed and released in turn (manager.rs).           *)
THEOREM QueuesTellTheTruth == WireSpec => []OnlyFullQueuesMisreport
<1>1. WireInv => OnlyFullQueuesMisreport
  <2> SUFFICES ASSUME WireInv, manager # None
               PROVE  /\ \A queue \in Queues : Len(queue) <= QueueCapacity
                      /\ \A k \in Keys \ missed :
                           /\ WillBelieve(k, k \in manager.held)
                           /\ \A queue \in Queues : ToldInTurn(queue, k, told[k])
                      /\ Up \notin missed => WillBelieve(Up, ~DigitalRead)
                      /\ Pointer \notin missed => WillBelieve(Pointer, manager.pressing)
    BY DEF OnlyFullQueuesMisreport
  <2>1. Sorted(manager) /\ Truthful(manager, told, missed)
    BY DEF WireInv, InputInv, Kept
  <2>2. /\ Sources = Keys \cup {Pointer} /\ Pointer \notin Keys /\ Up \in Keys /\ Letter \in Keys
        /\ Letter # Up
    BY InputAssumption DEF Sources, Keys
  <2>3. \A queue \in Queues : \E s \in Sources : queue = QueueOf(manager, s)
    <3>1. /\ manager.touches = QueueOf(manager, Pointer) /\ manager.ball = QueueOf(manager, Up)
          /\ manager.keys = QueueOf(manager, Letter)
      BY <2>2 DEF QueueOf
    <3> QED BY <2>2, <3>1 DEF Queues
  <2>4. \A s \in Sources : QueueOf(manager, s) \in Queues
    BY DEF QueueOf, Queues
  <2>5. ASSUME NEW s \in Sources, NEW queue \in Queues, NEW i \in 1..Len(queue), queue[i].of = s
        PROVE  queue = QueueOf(manager, s)
    <3>1. PICK r \in Sources : queue = QueueOf(manager, r)
      BY <2>3, <2>5
    <3>2. Alike(s, r)
      BY <2>1, <2>5, <3>1 DEF Sorted
    <3> QED BY <3>1, <3>2 DEF Alike, QueueOf
  <2>6. ASSUME NEW s \in Sources \ missed
        PROVE  WillBelieve(s, StateOf(manager, s))
    <3>1. Tells(QueueOf(manager, s), s, told[s], StateOf(manager, s))
      BY <2>1, <2>6 DEF Truthful
    <3>2. ASSUME NEW queue \in Queues, NEW i \in 1..Len(queue), queue[i].of = s,
                 \A j \in 1..Len(queue) : j > i => queue[j].of # s
          PROVE  queue[i].pressed = StateOf(manager, s)
      BY <2>5, <3>1, <3>2 DEF Tells
    <3>3. ASSUME \A queue \in Queues : \A i \in 1..Len(queue) : queue[i].of # s
          PROVE  told[s] = StateOf(manager, s)
      BY <2>4, <2>6, <3>1, <3>3 DEF Tells
    <3> QED BY <3>2, <3>3 DEF WillBelieve
  <2>7. \A queue \in Queues : Len(queue) <= QueueCapacity
    BY <2>1, <2>3 DEF Sorted
  <2>8. ASSUME NEW k \in Keys \ missed
        PROVE  WillBelieve(k, k \in manager.held)
    <3>1. StateOf(manager, k) = (k \in manager.held) /\ k \in Sources \ missed
      BY <2>2, <2>8 DEF StateOf
    <3> QED BY <2>6, <3>1
  <2>9. ASSUME NEW k \in Keys \ missed, NEW queue \in Queues
        PROVE  ToldInTurn(queue, k, told[k])
    <3>1. k \in Sources /\ ToldInTurn(QueueOf(manager, k), k, told[k])
      BY <2>1, <2>2, <2>9 DEF Truthful
    <3>2. CASE queue = QueueOf(manager, k)
      BY <3>1, <3>2
    <3>3. CASE queue # QueueOf(manager, k)
      <4>1. \A j \in 1..Len(queue) : queue[j].of # k
        BY <2>5, <3>1, <3>3
      <4> QED BY <4>1 DEF ToldInTurn
    <3> QED BY <3>2, <3>3
  <2>10. (~DigitalRead) = (Up \in manager.held)
    BY DEF DigitalRead
  <2>11. ASSUME Up \notin missed
         PROVE  WillBelieve(Up, ~DigitalRead)
    BY <2>2, <2>8, <2>10, <2>11
  <2>12. ASSUME Pointer \notin missed
         PROVE  WillBelieve(Pointer, manager.pressing)
    <3>1. StateOf(manager, Pointer) = manager.pressing /\ Pointer \in Sources \ missed
      BY <2>2, <2>12 DEF StateOf
    <3> QED BY <2>6, <3>1
  <2> QED BY <2>7, <2>8, <2>9, <2>11, <2>12
<1> QED BY <1>1, WireInvariant, PTL

(* The touch controller has a contact, and the manager presses, exactly    *)
(* while the last the host did to the pointer was to put it down on the    *)
(* screen (touch.rs), whichever way the host drives it, whatever falls     *)
(* beside the screen or is dropped, and whenever the manager was made.     *)
THEOREM ContactsFollowThePointer == WireSpec => []ContactFollowsPointer
<1>1. WireInv => ContactFollowsPointer
  BY DEF WireInv, InputInv, Kept, ContactFollowsPointer
<1> QED BY <1>1, WireInvariant, PTL

(* No key byte is read twice, by one wire or by two, nor is a keyboard's   *)
(* read out of order (i2c_keyboard.rs, wire_shim.rs).                      *)
THEOREM KeysAreReadOnce == WireSpec => []EachKeyOnce
<1>1. WireInv => EachKeyOnce
  <2> SUFFICES ASSUME WireInv PROVE EachKeyOnce
    OBVIOUS
  <2>1. ASSUME NEW w \in Wires
        PROVE  /\ DOMAIN got[w] = 1..Len(got[w])
               /\ \A i \in 1..Len(got[w]) : i \in 1..Len(Taken(w)) /\ Taken(w)[i] = got[w][i]
    <3>1. /\ got[w] \in Seq(KeyBytes) /\ Len(got[w]) \in Nat /\ Len(Taken(w)) \in Nat
          /\ Len(got[w]) <= Len(Taken(w)) /\ \A i \in 1..Len(got[w]) : Taken(w)[i] = got[w][i]
      BY TakenExtendsGot DEF WireInv, KeysInv
    <3> QED BY <3>1, LenProperties
  <2>2. /\ DOMAIN devices = DeviceIds
        /\ \A d \in DeviceIds : DOMAIN devices[d].queue = 1..Len(Queued(d))
    <3>1. devices \in Seq(Device)
      BY DEF WireInv, InputInv
    <3>2. \A d \in DeviceIds : devices[d] \in Device
      BY <3>1, ElementOfSeq DEF DeviceIds
    <3>3. DOMAIN devices = DeviceIds
      BY <3>1, LenProperties DEF DeviceIds
    <3>4. \A d \in DeviceIds : devices[d].queue \in Seq([at : Nat, upper : BOOLEAN])
      BY <3>2 DEF Device
    <3> QED BY <3>3, <3>4, LenProperties DEF Queued
  <2>3. \A w \in Wires : \A i, j \in DOMAIN got[w] :
           i < j /\ got[w][i].of = got[w][j].of => got[w][i].at < got[w][j].at
    BY SMTT(30), <2>1 DEF WireInv, KeysInv, TakenOrdered
  <2>4. \A v, w \in Wires : v # w =>
           {got[v][i].at : i \in DOMAIN got[v]} \cap {got[w][i].at : i \in DOMAIN got[w]} = {}
    <3> SUFFICES ASSUME NEW v \in Wires, NEW w \in Wires, v # w,
                        NEW i \in DOMAIN got[v], NEW j \in DOMAIN got[w], got[v][i].at = got[w][j].at
                 PROVE  FALSE
      OBVIOUS
    <3>1. /\ i \in 1..Len(Taken(v)) /\ Taken(v)[i] = got[v][i]
          /\ j \in 1..Len(Taken(w)) /\ Taken(w)[j] = got[w][j]
      BY <2>1
    <3>2. Taken(v)[i].at # Taken(w)[j].at
      BY <3>1 DEF WireInv, KeysInv, TakenOrdered
    <3> QED BY <3>1, <3>2
  <2>5. \A w \in Open : \A i \in DOMAIN got[w] : \A d \in DOMAIN devices :
           \A k \in DOMAIN devices[d].queue : devices[d].queue[k].at # got[w][i].at
    BY SMTT(30), <2>1, <2>2 DEF WireInv, KeysInv, TakenOrdered, Open, Queued
  <2> QED BY <2>3, <2>4, <2>5 DEF EachKeyOnce
<1> QED BY <1>1, WireInvariant, PTL

(* A keyboard gives up a key, or changes its mode or light, only for a     *)
(* call on a wire that is attached to it, begun and not stuck, whose rail  *)
(* is on or fell inside that call, unless the wire is of no instance       *)
(* (wire_shim.rs).                                                         *)
THEOREM DevicesAnswerTheirBus == WireSpec => DevicesObeyTheBus
<1> DEFINE Obeys ==
      \A d \in DOMAIN devices :
        LET old == devices[d] new == devices'[d] IN
        Len(new.queue) < Len(old.queue) \/ new.keyMode # old.keyMode \/ new.backlight # old.backlight
        => /\ calling # None
           /\ LET s == wires[calling.wire] IN
              s.keyboard = d /\ s.begun /\ ~s.stuck /\ (powered \/ late \/ ~s.checked)
<1>1. WireInv /\ CallInv /\ [WireNext]_wireVars => Obeys
  <2> SUFFICES ASSUME WireInv, CallInv, [WireNext]_wireVars PROVE Obeys
    OBVIOUS
  <2>1. Done
    BY WireStep
  <2>2. DOMAIN devices = DeviceIds /\ InputInv
    BY LenProperties DEF WireInv, InputInv, DeviceIds
  <2>3. CASE Types(devices, devices', injected, injected')
    BY <2>2, <2>3, TypingAdds
  <2>4. ASSUME NEW d \in DeviceIds, Reached(d)
        PROVE  Obeys
    <3>1. \A e \in DeviceIds : e # d => devices'[e] = devices[e] /\ ~(Len(devices[e].queue) < Len(devices[e].queue))
      <4>1. \A e \in DeviceIds : Len(devices[e].queue) \in Nat
        <5>1. \A e \in DeviceIds : devices[e] \in Device
          BY <2>2, ElementOfSeq DEF InputInv, DeviceIds
        <5>2. \A e \in DeviceIds : devices[e].queue \in Seq([at : Nat, upper : BOOLEAN])
          BY <5>1 DEF Device
        <5> QED BY <5>2, LenProperties
      <4> QED BY <2>4, <4>1 DEF Reached
    <3>2. /\ calling # None /\ wires[calling.wire].keyboard = d
          /\ LET s == wires[calling.wire] IN s.begun /\ ~s.stuck /\ (powered \/ late \/ ~s.checked)
      BY <2>4 DEF Reached, CallInv
    <3> QED BY <2>2, <2>4, <3>1, <3>2
  <2> QED BY <2>1, <2>3, <2>4 DEF Done
<1> QED BY <1>1, WireInvariant, PTL DEF WireSpec, DevicesObeyTheBus
=============================================================================
