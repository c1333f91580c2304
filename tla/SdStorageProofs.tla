--------------------------- MODULE SdStorageProofs ---------------------------
(***************************************************************************)
(* Proofs about SdStorage for every number of threads, files, handles and  *)
(* calls.  The argument: what a thread has left of its call is the end of  *)
(* the call's program, or the way out of it, and each step of a program    *)
(* comes once.  So the steps a thread has left tell which locks it holds,  *)
(* which handle it has reserved and whether it drives the bus.             *)
(*                                                                         *)
(* Then the sums of file sizes, for the card and for the partition of      *)
(* Spiffs, and what they account for.                                      *)
(***************************************************************************)
EXTENDS SdStorage, Spiffs, SequenceTheorems, FiniteSetTheorems, WellFoundedInduction, TLAPS

Left(s) == {s[i] : i \in 1..Len(s)}
StepsOf(kind) == Left(Program(kind))
Locking == {"open", "write", "read"}
BusCalls == {"init", "open", "write", "read", "put", "remove", "peek", "end", "flush"}
Calls == {"init", "behave", "open", "write", "read", "close", "put", "remove", "peek", "end",
          "destroy", "spiffs", "attach", "flush", "quiesce", "powerOn"}
Steps == UNION {StepsOf(kind) : kind \in Calls}

(* The order of the steps, as far as it matters. *)
Ordered(s) ==
  /\ s \in Seq(Left(s))
  /\ \A i, j \in 1..Len(s) : s[i] = s[j] => i = j
  /\ \A i \in 1..Len(s) :
       /\ s[i] = "unlock" => i = Len(s)
       /\ s[i] = "lock" => /\ i = 1 \/ (i = 2 /\ s[1] = "power")
                           /\ i < Len(s) /\ s[i + 1] \in {"pick", "find"}
       /\ s[i] \in {"pick", "find"} /\ i > 1 => s[i - 1] = "lock"
       /\ i > 1 => /\ s[i] = "acquire" => s[i - 1] = "bus"
                   /\ s[i] \in {"transfer", "draw"} => s[i - 1] = "acquire"
                   /\ s[i] = "release" => s[i - 1] \in {"transfer", "draw"}

(* What there may be left of a call. *)
Shape(kind, s) ==
  /\ Ordered(s) /\ Left(s) \subseteq StepsOf(kind)
  /\ kind \in Locking /\ s # << >> => s[Len(s)] = "unlock"

(* The values a call may have come to hold. *)
CallArgs ==
  [kind : {"peek", "end"}, bus : Nat]
  \cup [kind : {"destroy", "spiffs", "attach", "quiesce", "powerOn"}]
  \cup [kind : {"init"}, bus : Nat, slow : BOOLEAN, delay : Delays]
  \cup [kind : {"behave"}, slow : BOOLEAN, delay : Delays]
  \cup [kind : {"open"}, bus : Nat, path : Paths, mode : 0..2, handle : 0..MaxHandle, position : Nat]
  \cup [kind : {"write"}, bus : Nat, handle : HandleIds, block : Blocks]
  \cup [kind : {"read"}, bus : Nat, handle : HandleIds]
  \cup [kind : {"close"}, handle : HandleIds]
  \cup [kind : {"put"}, bus : Nat, path : Paths, block : Blocks]
  \cup [kind : {"remove"}, bus : Nat, path : Paths] \cup [kind : {"flush"}, bus : Nat]

Calling(t) == todo[t] # << >> => args[t] \in CallArgs /\ Shape(args[t].kind, todo[t])

(* Whoever has the unlock before it, and the lock behind it, is the owner. *)
Owning(t) == handlesOwner = t <=> "unlock" \in Left(todo[t]) /\ "lock" \notin Left(todo[t])

(* A handle that was picked is free until it is put in the table, and one  *)
(* that was found is there until the call is done with it.                 *)
Picked(t) == "insert" \in Left(todo[t]) /\ "pick" \notin Left(todo[t])
Found(t) ==
  /\ "transfer" \in Left(todo[t]) /\ "find" \notin Left(todo[t])
  /\ args[t].kind \in {"write", "read"}
Reserved(t) ==
  /\ Picked(t) => args[t].handle \in HandleIds /\ handles[args[t].handle] = None
  /\ Found(t) => handles[args[t].handle] # None

Control ==
  /\ todo \in [Threads -> Seq(Steps)] /\ args \in [Threads -> CallArgs \cup {None}]
  /\ handlesOwner \in Threads \cup {None}
  /\ \A t \in Threads : Calling(t) /\ Owning(t) /\ Reserved(t)

Tables ==
  /\ handles \in [HandleIds -> Handle \cup {None}]
  /\ files \in [Paths -> Seq(Blocks) \cup {None}]
  /\ behavior \in Behavior /\ {registry, buses, screenBus} \subseteq Nat

SdInv == Control /\ Tables

(* Without the call that destroys it there is one arbiter at most, and who *)
(* is at a transfer owns it.                                               *)
Driving(t) ==
  /\ todo[t] # << >> => calls > 0 /\ args[t].kind # "destroy"
  /\ todo[t] # << >> /\ NextStep(t) \in {"acquire", "transfer", "draw", "release"}
       => registry = 1 /\ args[t].bus = 1
  /\ Transferring(t) => spiOwner[1] = t

BusInv ==
  /\ calls \in 0..MaxCalls /\ buses \in {0, 1} /\ registry = buses /\ screenBus \in {0, buses}
  /\ spiOwner \in [Buses -> Threads \cup {None}]
  /\ \A t \in Threads : Driving(t)

-----------------------------------------------------------------------------
(* Facts about sequences of steps. *)

(* The programs, step by step. *)
LEMMA Programs ==
  /\ Program("init") = <<"power", "loadSlow", "loadDelay", "bus", "acquire", "transfer", "release">>
  /\ Program("behave") = <<"storeSlow", "storeDelay", "apply">>
  /\ Program("open") = <<"power", "lock", "pick", "bus", "acquire", "transfer", "release", "insert",
                         "unlock">>
  /\ \A kind \in {"write", "read"} :
       Program(kind) = <<"lock", "find", "bus", "acquire", "transfer", "release", "unlock">>
  /\ Program("close") = <<"close">>
  /\ \A kind \in {"put", "remove", "peek"} :
       Program(kind) = <<"power", "bus", "acquire", "transfer", "release">>
  /\ Program("end") = <<"closeAll", "bus", "acquire", "transfer", "release">>
  /\ Program("destroy") = <<"closeAll", "dropCard", "dropBus">>
  /\ Program("spiffs") = <<"create">> /\ Program("attach") = <<"attach">>
  /\ Program("flush") = <<"acquire", "draw", "release">>
  /\ Program("quiesce") = <<"unmount", "railDown">> /\ Program("powerOn") = <<"railUp">>
BY DEF Program

(* Their steps come in order. *)
LEMMA ProgramsOrdered ==
  /\ Ordered(<<"power", "loadSlow", "loadDelay", "bus", "acquire", "transfer", "release">>)
  /\ Ordered(<<"storeSlow", "storeDelay", "apply">>)
  /\ Ordered(<<"power", "lock", "pick", "bus", "acquire", "transfer", "release", "insert",
              "unlock">>)
  /\ Ordered(<<"lock", "find", "bus", "acquire", "transfer", "release", "unlock">>)
  /\ Ordered(<<"power", "bus", "acquire", "transfer", "release">>)
  /\ Ordered(<<"closeAll", "bus", "acquire", "transfer", "release">>)
  /\ Ordered(<<"closeAll", "dropCard", "dropBus">>)
  /\ Ordered(<<"acquire", "draw", "release">>)
  /\ Ordered(<<"unmount", "railDown">>)
  /\ \A step \in {"close", "create", "attach", "railUp"} : Ordered(<<step>>)
<1>1. Ordered(<<"power", "loadSlow", "loadDelay", "bus", "acquire", "transfer", "release">>)
  BY DEF Ordered, Left
<1>2. Ordered(<<"storeSlow", "storeDelay", "apply">>)
  BY DEF Ordered, Left
<1>3. Ordered(<<"power", "lock", "pick", "bus", "acquire", "transfer", "release", "insert",
              "unlock">>)
  BY DEF Ordered, Left
<1>4. Ordered(<<"lock", "find", "bus", "acquire", "transfer", "release", "unlock">>)
  BY DEF Ordered, Left
<1>5. Ordered(<<"power", "bus", "acquire", "transfer", "release">>)
  BY DEF Ordered, Left
<1>6. Ordered(<<"closeAll", "bus", "acquire", "transfer", "release">>)
  BY DEF Ordered, Left
<1>7. Ordered(<<"closeAll", "dropCard", "dropBus">>)
  BY DEF Ordered, Left
<1>8. Ordered(<<"acquire", "draw", "release">>)
  BY DEF Ordered, Left
<1>9. Ordered(<<"unmount", "railDown">>)
  BY DEF Ordered, Left
<1>10. \A step \in {"close", "create", "attach", "railUp"} : Ordered(<<step>>)
  BY DEF Ordered, Left
<1> QED BY <1>1, <1>2, <1>3, <1>4, <1>5, <1>6, <1>7, <1>8, <1>9, <1>10

(* Each has the shape of a call that has not begun. *)
LEMMA ProgramShape == \A kind \in Calls : Shape(kind, Program(kind))
<1> TAKE kind \in Calls
<1>1. Ordered(Program(kind))
  BY Programs, ProgramsOrdered DEF Calls
<1>2. CASE kind = "open"
  <2>1. Program("open") = <<"power", "lock", "pick", "bus", "acquire", "transfer", "release", "insert",
                            "unlock">>
    BY Programs
  <2>2. ASSUME NEW s, s = <<"power", "lock", "pick", "bus", "acquire", "transfer", "release", "insert",
                            "unlock">>
        PROVE  s[Len(s)] = "unlock"
    BY <2>2
  <2> QED BY <1>1, <1>2, <2>1, <2>2 DEF Shape, StepsOf
<1>3. CASE kind \in {"write", "read"}
  <2>1. Program(kind) = <<"lock", "find", "bus", "acquire", "transfer", "release", "unlock">>
    BY <1>3, Programs
  <2>2. Program(kind)[Len(Program(kind))] = "unlock"
    BY <2>1
  <2> QED BY <1>1, <2>2 DEF Shape, StepsOf
<1>4. CASE kind \notin Locking
  BY <1>1, <1>4 DEF Shape, StepsOf
<1> QED BY <1>2, <1>3, <1>4 DEF Locking

(* Which call a step belongs to. *)
LEMMA StepKinds ==
  \A kind \in Calls :
    /\ StepsOf(kind) \cap {"pick", "insert"} # {} => kind = "open"
    /\ "find" \in StepsOf(kind) => kind \in {"write", "read"}
    /\ StepsOf(kind) \cap {"lock", "unlock"} # {} => kind \in Locking
    /\ "bus" \in StepsOf(kind)
         => kind \in {"init", "open", "write", "read", "put", "remove", "peek", "end"}
    /\ StepsOf(kind) \cap {"loadSlow", "loadDelay"} # {} => kind = "init"
    /\ StepsOf(kind) \cap {"storeSlow", "storeDelay", "apply"} # {} => kind = "behave"
    /\ "close" \in StepsOf(kind) => kind = "close"
    /\ StepsOf(kind) \cap {"dropCard", "dropBus"} # {} => kind = "destroy"
    /\ kind \in Locking => {"release", "unlock"} \subseteq StepsOf(kind)
    /\ "unlock" \in StepsOf(kind) => "lock" \in StepsOf(kind)
    /\ "insert" \in StepsOf(kind) => "pick" \in StepsOf(kind)
    /\ kind \in {"write", "read"} => "find" \in StepsOf(kind)
    /\ StepsOf(kind) \cap {"acquire", "transfer", "draw", "release"} # {} => kind \in BusCalls
<1> TAKE kind \in Calls
<1>1. ASSUME kind = "init"
      PROVE  StepsOf(kind) = {"power", "loadSlow", "loadDelay", "bus", "acquire", "transfer", "release"}
  <2>1. Program(kind) = <<"power", "loadSlow", "loadDelay", "bus", "acquire", "transfer", "release">>
    BY <1>1, Programs
  <2> QED BY <2>1 DEF StepsOf, Left
<1>2. ASSUME kind = "behave"
      PROVE  StepsOf(kind) = {"storeSlow", "storeDelay", "apply"}
  <2>1. Program(kind) = <<"storeSlow", "storeDelay", "apply">>
    BY <1>2, Programs
  <2> QED BY <2>1 DEF StepsOf, Left
<1>3. ASSUME kind = "open"
      PROVE  StepsOf(kind) = {"power", "lock", "pick", "bus", "acquire", "transfer", "release", "insert", "unlock"}
  <2>1. Program(kind) = <<"power", "lock", "pick", "bus", "acquire", "transfer", "release", "insert", "unlock">>
    BY <1>3, Programs
  <2> QED BY <2>1 DEF StepsOf, Left
<1>4. ASSUME kind \in {"write", "read"}
      PROVE  StepsOf(kind) = {"lock", "find", "bus", "acquire", "transfer", "release", "unlock"}
  <2>1. Program(kind) = <<"lock", "find", "bus", "acquire", "transfer", "release", "unlock">>
    BY <1>4, Programs
  <2> QED BY <2>1 DEF StepsOf, Left
<1>5. ASSUME kind \in {"put", "remove", "peek"}
      PROVE  StepsOf(kind) = {"power", "bus", "acquire", "transfer", "release"}
  <2>1. Program(kind) = <<"power", "bus", "acquire", "transfer", "release">>
    BY <1>5, Programs
  <2> QED BY <2>1 DEF StepsOf, Left
<1>6. ASSUME kind = "end"
      PROVE  StepsOf(kind) = {"closeAll", "bus", "acquire", "transfer", "release"}
  <2>1. Program(kind) = <<"closeAll", "bus", "acquire", "transfer", "release">>
    BY <1>6, Programs
  <2> QED BY <2>1 DEF StepsOf, Left
<1>7. ASSUME kind = "destroy"
      PROVE  StepsOf(kind) = {"closeAll", "dropCard", "dropBus"}
  <2>1. Program(kind) = <<"closeAll", "dropCard", "dropBus">>
    BY <1>7, Programs
  <2> QED BY <2>1 DEF StepsOf, Left
<1>8. ASSUME kind = "flush"
      PROVE  StepsOf(kind) = {"acquire", "draw", "release"}
  <2>1. Program(kind) = <<"acquire", "draw", "release">>
    BY <1>8, Programs
  <2> QED BY <2>1 DEF StepsOf, Left
<1>9. ASSUME kind = "quiesce"
      PROVE  StepsOf(kind) = {"unmount", "railDown"}
  <2>1. Program(kind) = <<"unmount", "railDown">>
    BY <1>9, Programs
  <2> QED BY <2>1 DEF StepsOf, Left
<1>10. ASSUME kind = "close"
      PROVE  StepsOf(kind) = {"close"}
  <2>1. Program(kind) = <<"close">>
    BY <1>10, Programs
  <2> QED BY <2>1 DEF StepsOf, Left
<1>11. ASSUME kind = "spiffs"
      PROVE  StepsOf(kind) = {"create"}
  <2>1. Program(kind) = <<"create">>
    BY <1>11, Programs
  <2> QED BY <2>1 DEF StepsOf, Left
<1>12. ASSUME kind = "attach"
      PROVE  StepsOf(kind) = {"attach"}
  <2>1. Program(kind) = <<"attach">>
    BY <1>12, Programs
  <2> QED BY <2>1 DEF StepsOf, Left
<1>13. ASSUME kind = "powerOn"
      PROVE  StepsOf(kind) = {"railUp"}
  <2>1. Program(kind) = <<"railUp">>
    BY <1>13, Programs
  <2> QED BY <2>1 DEF StepsOf, Left
<1> QED
  BY <1>1, <1>2, <1>3, <1>4, <1>5, <1>6, <1>7, <1>8, <1>9, <1>10, <1>11, <1>12, <1>13
  DEF Calls, Locking, BusCalls

(* What is left when a step is taken: all but that step. *)
LEMMA ShapeTail ==
  ASSUME NEW kind, NEW s, Shape(kind, s), s # << >>
  PROVE  /\ Shape(kind, Tail(s)) /\ Head(s) \in Left(s)
         /\ Left(Tail(s)) = Left(s) \ {Head(s)}
<1>1. /\ s \in Seq(Left(s)) /\ Len(s) \in Nat /\ Len(s) > 0 /\ Head(s) = s[1]
      /\ Tail(s) \in Seq(Left(s)) /\ Len(Tail(s)) = Len(s) - 1
      /\ \A i \in 1..Len(s) - 1 : Tail(s)[i] = s[i + 1]
  BY HeadTailProperties, EmptySeq, LenProperties DEF Shape, Ordered
<1>2. Left(Tail(s)) = Left(s) \ {Head(s)}
  <2>1. ASSUME NEW i \in 1..Len(s) - 1
        PROVE  Tail(s)[i] \in Left(s) \ {Head(s)}
    <3>1. Tail(s)[i] = s[i + 1] /\ i + 1 \in 1..Len(s) /\ 1 \in 1..Len(s) /\ i + 1 # 1
      BY <1>1
    <3>2. s[i + 1] # s[1]
      BY <3>1 DEF Shape, Ordered
    <3> QED BY <1>1, <3>1, <3>2 DEF Left
  <2>2. ASSUME NEW i \in 1..Len(s), s[i] # Head(s)
        PROVE  i - 1 \in 1..Len(Tail(s)) /\ s[i] = Tail(s)[i - 1]
    BY <1>1, <2>2
  <2> QED BY <1>1, <2>1, <2>2 DEF Left
<1>3. Ordered(Tail(s))
  <2> DEFINE r == Tail(s)
             n == Len(s)
  <2>1. /\ \A i, j \in 1..n : s[i] = s[j] => i = j
        /\ \A i \in 1..n :
             /\ s[i] = "unlock" => i = n
             /\ s[i] = "lock" => /\ i = 1 \/ (i = 2 /\ s[1] = "power")
                                 /\ i < n /\ s[i + 1] \in {"pick", "find"}
             /\ s[i] \in {"pick", "find"} /\ i > 1 => s[i - 1] = "lock"
             /\ i > 1 => /\ s[i] = "acquire" => s[i - 1] = "bus"
                         /\ s[i] \in {"transfer", "draw"} => s[i - 1] = "acquire"
                         /\ s[i] = "release" => s[i - 1] \in {"transfer", "draw"}
    BY DEF Shape, Ordered
  <2>2. n \in Nat /\ Len(r) = n - 1 /\ r \in Seq(Left(s)) /\ \A i \in 1..n - 1 : r[i] = s[i + 1]
    BY <1>1
  <2>3. r \in Seq(Left(r))
    <3>1. \A i \in 1..Len(r) : r[i] \in Left(r)
      BY DEF Left
    <3> HIDE DEF r, n
    <3>2. r \in [1..Len(r) -> Left(r)] /\ Len(r) \in Nat
      BY <2>2, <3>1, LenProperties
    <3> QED BY <3>2, SeqDef
  <2> HIDE DEF r, n
  <2>4. \A i, j \in 1..Len(r) : r[i] = r[j] => i = j
    <3> TAKE i, j \in 1..Len(r)
    <3>1. i + 1 \in 1..n /\ j + 1 \in 1..n /\ r[i] = s[i + 1] /\ r[j] = s[j + 1]
      BY <2>2
    <3> QED BY <3>1, <2>1, <2>2
  <2>5. ASSUME NEW i \in 1..Len(r)
        PROVE  /\ r[i] = "unlock" => i = Len(r)
               /\ r[i] = "lock" => /\ i = 1 \/ (i = 2 /\ r[1] = "power")
                                   /\ i < Len(r) /\ r[i + 1] \in {"pick", "find"}
               /\ r[i] \in {"pick", "find"} /\ i > 1 => r[i - 1] = "lock"
               /\ i > 1 => /\ r[i] = "acquire" => r[i - 1] = "bus"
                           /\ r[i] \in {"transfer", "draw"} => r[i - 1] = "acquire"
                           /\ r[i] = "release" => r[i - 1] \in {"transfer", "draw"}
    <3>1. i + 1 \in 1..n /\ i + 1 > 1 /\ r[i] = s[i + 1] /\ (i + 1) - 1 = i
      BY <2>2
    <3>2. i > 1 => r[i - 1] = s[i]
      BY <2>2
    <3>3. i < Len(r) => r[i + 1] = s[(i + 1) + 1]
      BY <2>2
    <3>4. i < Len(r) <=> i + 1 < n
      BY <2>2
    <3> QED BY <3>1, <3>2, <3>3, <3>4, <2>1, <2>2
  <2>6. Ordered(r)
    BY <2>3, <2>4, <2>5 DEF Ordered
  <2> QED BY <2>6 DEF r
<1>4. Shape(kind, Tail(s))
  BY <1>1, <1>2, <1>3 DEF Shape
<1> QED BY <1>1, <1>2, <1>4 DEF Left

(* What the steps that are left say. *)
LEMMA ShapeFacts ==
  ASSUME NEW kind, NEW s, Shape(kind, s), s # << >>
  PROVE  /\ Left(s) \subseteq StepsOf(kind) /\ Head(s) \in Left(s)
         /\ kind \in Locking => "unlock" \in Left(s)
         /\ Head(s) = "unlock" => Left(s) = {"unlock"}
         /\ "lock" \in Left(s) => /\ Head(s) \in {"power", "lock"}
                                  /\ Left(s) \cap {"pick", "find"} # {}
         /\ Left(s) \cap {"pick", "find"} # {} => Head(s) \in {"power", "lock", "pick", "find"}
<1>1. s \in Seq(Left(s)) /\ Len(s) \in Nat /\ Len(s) > 0 /\ Head(s) = s[1] /\ Head(s) \in Left(s)
  BY HeadTailProperties, EmptySeq, LenProperties DEF Shape, Ordered, Left
<1>2. Left(s) \subseteq StepsOf(kind) /\ (kind \in Locking => "unlock" \in Left(s))
  BY <1>1 DEF Shape, Left
<1>3. Head(s) = "unlock" => Left(s) = {"unlock"}
  <2> SUFFICES ASSUME Head(s) = "unlock"
               PROVE  Left(s) = {"unlock"}
    OBVIOUS
  <2>1. Len(s) = 1
    <3>1. 1 \in 1..Len(s) /\ s[1] = "unlock"
      BY <1>1
    <3> QED BY <3>1 DEF Shape, Ordered
  <2> QED BY <1>1, <2>1 DEF Left
<1>4. ASSUME NEW i \in 1..Len(s), s[i] = "lock"
      PROVE  Head(s) \in {"power", "lock"} /\ Left(s) \cap {"pick", "find"} # {}
  <2>1. i + 1 \in 1..Len(s) /\ s[i + 1] \in {"pick", "find"}
    BY <1>1, <1>4 DEF Shape, Ordered
  <2> QED BY <1>1, <1>4, <2>1 DEF Shape, Ordered, Left
<1>5. ASSUME NEW i \in 1..Len(s), s[i] \in {"pick", "find"}
      PROVE  Head(s) \in {"power", "lock", "pick", "find"}
  <2>1. CASE i = 1
    BY <1>1, <1>5, <2>1
  <2>2. CASE i > 1
    <3>1. i - 1 \in 1..Len(s) /\ s[i - 1] = "lock"
      BY <1>5, <2>2, <1>1 DEF Shape, Ordered
    <3> QED BY <3>1, <1>4
  <2> QED BY <1>1, <2>1, <2>2
<1> QED BY <1>1, <1>2, <1>3, <1>4, <1>5 DEF Left

(* Which step comes before one of a transaction. *)
LEMMA StepsFollow ==
  ASSUME NEW kind, NEW s, Shape(kind, s), s # << >>, Tail(s) # << >>
  PROVE  /\ Head(Tail(s)) = "acquire" => Head(s) = "bus"
         /\ Head(Tail(s)) \in {"transfer", "draw"} => Head(s) = "acquire"
         /\ Head(Tail(s)) = "release" => Head(s) \in {"transfer", "draw"}
<1>1. /\ s \in Seq(Left(s)) /\ Len(s) \in Nat /\ Len(s) > 0 /\ Head(s) = s[1]
      /\ Tail(s) \in Seq(Left(s)) /\ Len(Tail(s)) = Len(s) - 1
      /\ \A i \in 1..Len(s) - 1 : Tail(s)[i] = s[i + 1]
  BY HeadTailProperties, EmptySeq, LenProperties DEF Shape, Ordered
<1>2. Len(Tail(s)) > 0 /\ Head(Tail(s)) = Tail(s)[1]
  BY <1>1, HeadTailProperties, EmptySeq
<1>3. 2 \in 1..Len(s) /\ Head(Tail(s)) = s[2] /\ s[2 - 1] = Head(s) /\ 2 > 1
  BY <1>1, <1>2
<1> QED BY <1>3 DEF Shape, Ordered

(* The only call that begins with a transaction is the screen's. *)
LEMMA FirstSteps ==
  ASSUME NEW kind \in Calls, Head(Program(kind)) \in {"acquire", "transfer", "draw", "release"}
  PROVE  kind = "flush"
<1>1. Program(kind) # << >> /\ Head(Program(kind)) = Program(kind)[1]
  BY Programs DEF Calls
<1>2. kind # "flush" => Program(kind)[1] \notin {"acquire", "transfer", "draw", "release"}
  BY Programs DEF Calls
<1> QED BY <1>1, <1>2

(* The ways out of a call. *)
LEMMA ShapeOfNothing == Left(<< >>) = {} /\ \A kind : Shape(kind, << >>)
<1>1. Left(<< >>) = {} /\ Ordered(<< >>)
  BY DEF Left, Ordered
<1> QED BY <1>1 DEF Shape

(* The end of a call: what is still held is given back. *)
LEMMA ShapeOfWayOut ==
  ASSUME NEW s \in {<<"unlock">>, <<"release", "unlock">>}
  PROVE  /\ Left(s) \subseteq {"release", "unlock"} /\ "unlock" \in Left(s)
         /\ \A kind : {"release", "unlock"} \subseteq StepsOf(kind) => Shape(kind, s)
<1>1. CASE s = <<"unlock">>
  <2>1. Left(s) = {"unlock"} /\ Ordered(s) /\ s[Len(s)] = "unlock"
    BY <1>1 DEF Left, Ordered
  <2> QED BY <2>1 DEF Shape
<1>2. CASE s = <<"release", "unlock">>
  <2>1. Left(s) = {"release", "unlock"} /\ Ordered(s) /\ s[Len(s)] = "unlock"
    BY <1>2 DEF Left, Ordered
  <2> QED BY <2>1 DEF Shape
<1> QED BY <1>1, <1>2

-----------------------------------------------------------------------------
(* Facts about the values of a call. *)

(* Which arguments a call of each kind has, and from where. *)
LEMMA ArgFields ==
  \A a \in CallArgs :
    /\ a.kind \in Calls
    /\ a.kind \in {"write", "read", "close"} => a.handle \in HandleIds
    /\ a.kind = "open" => a.handle \in 0..MaxHandle /\ a.path \in Paths /\ a.mode \in 0..2
                         /\ a.position \in Nat
    /\ a.kind = "behave" => a.slow \in BOOLEAN /\ a.delay \in Delays
    /\ a.kind \in {"put", "remove"} => a.path \in Paths
    /\ a.kind \in {"put", "write"} => a.block \in Blocks
BY DEF CallArgs, Calls

(* A call's values stay such when the bus, a handle or a position is filled *)
(* in, and name the same handle.                                            *)
LEMMA FillBus ==
  ASSUME NEW a \in CallArgs, a.kind \in BusCalls, NEW n \in Nat
  PROVE  LET b == [a EXCEPT !.bus = n] IN
         /\ b \in CallArgs /\ b.kind = a.kind /\ b.bus = n
         /\ a.kind \in Locking => b.handle = a.handle
BY DEF CallArgs, BusCalls, Locking

(* The two halves of the personality. *)
LEMMA FillPersonality ==
  ASSUME NEW a \in CallArgs, a.kind = "init", NEW x \in BOOLEAN, NEW d \in Delays
  PROVE  /\ [a EXCEPT !.slow = x] \in CallArgs /\ [a EXCEPT !.slow = x].kind = "init"
         /\ [a EXCEPT !.delay = d] \in CallArgs /\ [a EXCEPT !.delay = d].kind = "init"
         /\ [a EXCEPT !.slow = x].bus = a.bus /\ [a EXCEPT !.delay = d].bus = a.bus
BY DEF CallArgs

(* The handle an open is given. *)
LEMMA FillHandle ==
  ASSUME NEW a \in CallArgs, a.kind = "open", NEW h \in HandleIds, MaxHandle \in Nat
  PROVE  LET b == [a EXCEPT !.handle = h] IN
         b \in CallArgs /\ b.kind = "open" /\ b.handle = h /\ b.bus = a.bus
BY DEF CallArgs, HandleIds

(* The position it starts at. *)
LEMMA FillPosition ==
  ASSUME NEW a \in CallArgs, a.kind = "open", NEW n \in Nat
  PROVE  LET b == [a EXCEPT !.position = n] IN
         b \in CallArgs /\ b.kind = "open" /\ b.handle = a.handle /\ b.bus = a.bus
BY DEF CallArgs

(* The first free handle is a free one. *)
LEMMA MinOfNaturals ==
  ASSUME NEW S \in SUBSET Nat, S # {}
  PROVE  Min(S) \in S /\ \A n \in S : Min(S) <= n
<1>1. ASSUME NEW R, IsWellFoundedOn(R, Nat), \A m, n \in Nat : n < m => <<n, m>> \in R
      PROVE  \E m \in S : \A n \in S : m <= n
  <2>1. PICK m \in S : \A n \in S : <<n, m>> \notin R
    BY <1>1, WFMin, Zenon
  <2>2. ASSUME NEW n \in S
        PROVE  m <= n
    <3>1. m \in Nat /\ n \in Nat
      OBVIOUS
    <3>2. ~(n < m)
      BY <1>1, <2>1, <3>1, Zenon
    <3> QED BY <3>1, <3>2
  <2> QED BY <2>2
<1>2. \A m, n \in Nat : n < m => <<n, m>> \in OpToRel(<, Nat)
  BY DEF OpToRel
<1>3. \E m \in S : \A n \in S : m <= n
  BY <1>1, <1>2, NatLessThanWellFounded, Zenon
<1> QED BY <1>3 DEF Min

-----------------------------------------------------------------------------
(* What a step of a call leaves. *)

(* A call goes on: one step less, whatever values were filled in. *)
LEMMA Onward ==
  ASSUME Control, NEW t \in Threads, todo[t] # << >>, Go(t),
         args' \in [Threads -> CallArgs \cup {None}], args'[t] \in CallArgs,
         args'[t].kind = args[t].kind, \A u \in Threads \ {t} : args'[u] = args[u]
  PROVE  /\ args[t] \in CallArgs /\ args[t].kind \in Calls
         /\ todo' \in [Threads -> Seq(Steps)] /\ \A u \in Threads : Calling(u)'
         /\ NextStep(t) \in Left(todo[t]) /\ Left(todo[t]) \subseteq StepsOf(args[t].kind)
         /\ \A u \in Threads : Left(todo'[u]) = IF u = t THEN Left(todo[t]) \ {NextStep(t)}
                                                ELSE Left(todo[u])
<1>1. args[t] \in CallArgs /\ args[t].kind \in Calls /\ Shape(args[t].kind, todo[t])
  BY ArgFields DEF Control, Calling
<1>2. /\ Shape(args[t].kind, Tail(todo[t])) /\ NextStep(t) \in Left(todo[t])
      /\ Left(Tail(todo[t])) = Left(todo[t]) \ {NextStep(t)}
      /\ Left(todo[t]) \subseteq StepsOf(args[t].kind)
  BY <1>1, ShapeTail, ShapeFacts DEF NextStep
<1>3. /\ Tail(todo[t]) \in Seq(Steps)
      /\ \A u \in Threads : todo'[u] = IF u = t THEN Tail(todo[t]) ELSE todo[u]
  BY HeadTailProperties DEF Go, Control
<1>4. todo' \in [Threads -> Seq(Steps)]
  BY <1>3 DEF Go, Control
<1> QED BY <1>1, <1>2, <1>3, <1>4 DEF Control, Calling

(* What a call found in the table is a handle. *)
LEMMA FoundHandle ==
  ASSUME Control, NEW t \in Threads
  PROVE  Found(t) => args[t].handle \in HandleIds
BY ShapeOfNothing, ArgFields DEF Control, Calling, Found

(* What it has picked or found stays reserved. *)
LEMMA KeepReserved ==
  ASSUME Control, NEW t \in Threads, todo[t] # << >>, Go(t),
         args' \in [Threads -> CallArgs \cup {None}], args'[t] \in CallArgs,
         args'[t].kind = args[t].kind, \A u \in Threads \ {t} : args'[u] = args[u],
         args[t].kind \in Locking => args'[t].handle = args[t].handle,
         NextStep(t) \notin {"pick", "find"}
  PROVE  /\ \A u \in Threads : (Picked(u)' => Picked(u)) /\ (Found(u)' => Found(u))
         /\ (\A h \in HandleIds : handles'[h] = None <=> handles[h] = None)
              => \A u \in Threads : Reserved(u)'
<1>1. /\ args[t] \in CallArgs /\ args[t].kind \in Calls /\ Left(todo[t]) \subseteq StepsOf(args[t].kind)
      /\ \A u \in Threads : Left(todo'[u]) = IF u = t THEN Left(todo[t]) \ {NextStep(t)}
                                             ELSE Left(todo[u])
  BY Onward
<1>2. \A u \in Threads : (Picked(u)' => Picked(u)) /\ (Found(u)' => Found(u))
  BY <1>1 DEF Picked, Found
<1>3. ASSUME NEW u \in Threads, \A h \in HandleIds : handles'[h] = None <=> handles[h] = None
      PROVE  Reserved(u)'
  <2>1. Found(u) => args[u].handle \in HandleIds
    BY FoundHandle
  <2>2. Picked(u) \/ Found(u) => args'[u].handle = args[u].handle
    BY <1>1, StepKinds DEF Picked, Found, Locking
  <2> QED BY <1>2, <1>3, <2>1, <2>2 DEF Control, Reserved
<1> QED BY <1>2, <1>3

(* It goes on past a step that is none of the handle table's. *)
LEMMA Advance ==
  ASSUME Control, NEW t \in Threads, todo[t] # << >>, Go(t),
         args' \in [Threads -> CallArgs \cup {None}], args'[t] \in CallArgs,
         args'[t].kind = args[t].kind, \A u \in Threads \ {t} : args'[u] = args[u],
         args[t].kind \in Locking => args'[t].handle = args[t].handle,
         handlesOwner' = handlesOwner,
         \A h \in HandleIds : handles'[h] = None <=> handles[h] = None,
         NextStep(t) \notin {"lock", "unlock", "pick", "find"}
  PROVE  Control'
<1>1. /\ todo' \in [Threads -> Seq(Steps)] /\ \A u \in Threads : Calling(u)'
      /\ \A u \in Threads : Left(todo'[u]) = IF u = t THEN Left(todo[t]) \ {NextStep(t)}
                                             ELSE Left(todo[u])
  BY Onward
<1>2. \A u \in Threads : Owning(u)'
  BY <1>1 DEF Control, Owning
<1>3. \A u \in Threads : Reserved(u)'
  BY KeepReserved
<1> QED BY <1>1, <1>2, <1>3 DEF Control

(* A step that neither locks nor names a handle keeps the control. *)
LEMMA AdvancePlain ==
  ASSUME Control, NEW t \in Threads, todo[t] # << >>, Go(t), UNCHANGED <<args, handlesOwner, handles>>,
         NextStep(t) \notin {"lock", "unlock", "pick", "find"}
  PROVE  Control'
<1>1. args[t] \in CallArgs
  BY DEF Control, Calling
<1> QED BY <1>1, Advance DEF Control

(* Who has picked or found a handle holds the mutex. *)
LEMMA HoldersOwn ==
  ASSUME Control, NEW t \in Threads, Picked(t) \/ Found(t)
  PROVE  handlesOwner = t
<1>1. todo[t] # << >> /\ args[t].kind \in Calls /\ Shape(args[t].kind, todo[t])
  BY ShapeOfNothing, ArgFields DEF Picked, Found, Control, Calling
<1>2. args[t].kind \in Locking /\ "lock" \notin Left(todo[t])
  BY <1>1, ShapeFacts, StepKinds DEF Picked, Found, Locking
<1> QED BY <1>1, <1>2, ShapeFacts DEF Control, Owning

(* It is given up, by Abort or by an open that fails: what is left is the  *)
(* way out, on which no handle is used.                                    *)
LEMMA GiveUp ==
  ASSUME Control, NEW t \in Threads, todo[t] # << >>, NEW s,
         todo' = [todo EXCEPT ![t] = s], UNCHANGED <<args, handlesOwner, handles>>,
         \/ handlesOwner # t /\ s = << >>
         \/ handlesOwner = t /\ s \in {<<"unlock">>, <<"release", "unlock">>}
  PROVE  Control'
<1>1. args[t] \in CallArgs /\ args[t].kind \in Calls /\ Shape(args[t].kind, todo[t])
  BY ArgFields DEF Control, Calling
<1>2. handlesOwner = t => args[t].kind \in Locking /\ {"release", "unlock"} \subseteq StepsOf(args[t].kind)
  <2>1. handlesOwner = t => "unlock" \in StepsOf(args[t].kind)
    BY <1>1, ShapeFacts DEF Control, Owning
  <2> QED BY <1>1, <2>1, StepKinds
<1>3. /\ Left(s) \subseteq {"release", "unlock"} /\ (handlesOwner = t <=> "unlock" \in Left(s))
      /\ Shape(args[t].kind, s)
  <2>1. CASE handlesOwner # t
    BY <2>1, ShapeOfNothing
  <2>2. CASE handlesOwner = t
    BY <1>2, <2>2, ShapeOfWayOut
  <2> QED BY <2>1, <2>2
<1>4. s \in Seq(Steps) /\ \A u \in Threads : todo'[u] = IF u = t THEN s ELSE todo[u]
  BY <1>1, <1>3, SeqMonotonic DEF Control, Shape, Ordered, Steps
<1>5. todo' \in [Threads -> Seq(Steps)] /\ \A u \in Threads : Calling(u)' /\ Owning(u)'
  BY <1>1, <1>3, <1>4 DEF Control, Calling, Owning
<1>6. ASSUME NEW u \in Threads
      PROVE  Reserved(u)'
  BY <1>3, <1>4 DEF Control, Reserved, Picked, Found
<1> QED BY <1>5, <1>6 DEF Control

(* The calls of the firmware are calls. *)
LEMMA CallsHaveArgs == FirmwareCalls \subseteq CallArgs
<1>1. 0 \in Nat /\ 0 \in 0..MaxHandle /\ FALSE \in BOOLEAN /\ 0 \in Delays
  BY SdAssumption
<1> SUFFICES ASSUME NEW a \in FirmwareCalls
             PROVE  a \in CallArgs
  OBVIOUS
<1>2. CASE a \in [kind : {"peek", "end"}, bus : {0}] \cup [kind : {"destroy", "spiffs"}]
                 \cup [kind : {"init"}, bus : {0}, slow : {FALSE}, delay : {0}]
  BY <1>1, <1>2 DEF CallArgs
<1>3. CASE a \in [kind : {"behave"}, slow : BOOLEAN, delay : Delays]
                 \cup [kind : {"close"}, handle : HandleIds]
  BY <1>3 DEF CallArgs
<1>4. CASE a \in [kind : {"open"}, bus : {0}, path : Paths, mode : 0..2, handle : {0}, position : {0}]
  BY <1>1, <1>4 DEF CallArgs
<1>5. CASE a \in [kind : {"write"}, bus : {0}, handle : HandleIds, block : Blocks]
                 \cup [kind : {"read"}, bus : {0}, handle : HandleIds]
  BY <1>1, <1>5 DEF CallArgs
<1>6. CASE a \in [kind : {"put"}, bus : {0}, path : Paths, block : Blocks]
                 \cup [kind : {"remove"}, bus : {0}, path : Paths]
  BY <1>1, <1>6 DEF CallArgs
<1> QED BY <1>2, <1>3, <1>4, <1>5, <1>6 DEF FirmwareCalls

(* A call that begins has all of its program before it. *)
LEMMA Begin ==
  ASSUME Control, NEW t \in Threads, NEW a \in CallArgs, Call(t, a)
  PROVE  Control'
<1>1. /\ todo[t] = << >> /\ a.kind \in Calls /\ UNCHANGED <<handles, handlesOwner>>
      /\ \A u \in Threads : /\ todo'[u] = IF u = t THEN Program(a.kind) ELSE todo[u]
                            /\ args'[u] = IF u = t THEN a ELSE args[u]
  BY ArgFields DEF Call, Control, handleVars
<1>2. /\ Shape(a.kind, Program(a.kind)) /\ Left(Program(a.kind)) = StepsOf(a.kind)
      /\ Program(a.kind) \in Seq(Steps)
  <2>1. Shape(a.kind, Program(a.kind)) /\ Left(Program(a.kind)) = StepsOf(a.kind)
    BY <1>1, ProgramShape DEF StepsOf
  <2>2. Program(a.kind) \in Seq(StepsOf(a.kind)) /\ StepsOf(a.kind) \subseteq Steps
    BY <1>1, <2>1 DEF Shape, Ordered, Steps
  <2> QED BY <2>1, <2>2, SeqMonotonic
<1>3. todo' \in [Threads -> Seq(Steps)] /\ args' \in [Threads -> CallArgs \cup {None}]
  BY <1>2 DEF Call, Control
<1>4. \A u \in Threads : Calling(u)'
  BY <1>1, <1>2 DEF Control, Calling
<1>5. \A u \in Threads : Owning(u)'
  BY <1>1, <1>2, ShapeOfNothing, StepKinds DEF Control, Owning
<1>6. \A u \in Threads : Reserved(u)'
  BY SMTT(30), <1>1, <1>2, StepKinds DEF Control, Reserved, Picked, Found
<1> QED BY <1>1, <1>3, <1>4, <1>5, <1>6 DEF Control
-----------------------------------------------------------------------------
(* The steps, one by one. *)

(* The steps on the lock and the table of handles. *)
LEMMA TableStep ==
  ASSUME Control, NEW t \in Threads,
         \/ LockHandles(t) \/ UnlockHandles(t) \/ PickHandle(t) \/ FindHandle(t)
         \/ InsertHandle(t) \/ CloseHandle(t) \/ CloseAll(t)
  PROVE  Control'
<1> USE SdAssumption DEF At
<1>1. todo[t] # << >> /\ args[t] \in CallArgs /\ args[t].kind \in Calls /\ Shape(args[t].kind, todo[t])
  BY ArgFields DEF LockHandles, UnlockHandles, PickHandle, FindHandle, InsertHandle, CloseHandle,
     CloseAll, Control, Calling
<1>2. /\ NextStep(t) \in Left(todo[t]) /\ Left(todo[t]) \subseteq StepsOf(args[t].kind)
      /\ args[t].kind \in Locking => "unlock" \in Left(todo[t])
      /\ NextStep(t) = "unlock" => Left(todo[t]) = {"unlock"}
      /\ "lock" \in Left(todo[t]) => NextStep(t) \in {"power", "lock"}
  BY <1>1, ShapeFacts DEF NextStep
<1>3. None \notin Threads
  OBVIOUS
<1>4. CASE LockHandles(t)
  <2>1. /\ Go(t) /\ NextStep(t) = "lock" /\ handlesOwner = None /\ handlesOwner' = t
        /\ UNCHANGED <<args, handles>>
    BY <1>4 DEF LockHandles
  <2>2. \A u \in Threads : Reserved(u)'
    BY <1>1, <2>1, KeepReserved DEF Control
  <2>3. /\ todo' \in [Threads -> Seq(Steps)] /\ \A u \in Threads : Calling(u)'
        /\ \A u \in Threads : Left(todo'[u]) = IF u = t THEN Left(todo[t]) \ {"lock"}
                                               ELSE Left(todo[u])
    BY <1>1, <2>1, Onward DEF Control
  <2>4. "unlock" \in Left(todo[t])
    BY <1>1, <1>2, <2>1, StepKinds
  <2>5. \A u \in Threads : Owning(u)'
    BY <1>3, <2>1, <2>3, <2>4 DEF Control, Owning
  <2> QED BY <2>1, <2>2, <2>3, <2>5 DEF Control
<1>5. CASE UnlockHandles(t)
  <2>1. /\ Go(t) /\ NextStep(t) = "unlock" /\ handlesOwner' = None /\ UNCHANGED <<args, handles>>
    BY <1>5 DEF UnlockHandles
  <2>2. \A u \in Threads : Reserved(u)'
    BY <1>1, <2>1, KeepReserved DEF Control
  <2>3. /\ todo' \in [Threads -> Seq(Steps)] /\ \A u \in Threads : Calling(u)'
        /\ \A u \in Threads : Left(todo'[u]) = IF u = t THEN Left(todo[t]) \ {"unlock"}
                                               ELSE Left(todo[u])
    BY <1>1, <2>1, Onward DEF Control
  <2>4. handlesOwner = t
    BY <1>2, <2>1 DEF Control, Owning
  <2>5. \A u \in Threads : Owning(u)'
    BY <1>3, <2>1, <2>3, <2>4 DEF Control, Owning
  <2> QED BY <2>1, <2>2, <2>3, <2>5 DEF Control
<1>6. CASE PickHandle(t)
  <2> DEFINE free == {h \in HandleIds : handles[h] = None}
  <2>1. NextStep(t) = "pick" /\ args[t].kind = "open" /\ UNCHANGED <<handles, handlesOwner>>
    BY <1>1, <1>2, <1>6, StepKinds DEF PickHandle, handleVars
  <2>2. CASE free = {}
    BY <1>1, <1>6, <2>1, <2>2, GiveUp DEF PickHandle, Abort
  <2>3. CASE free # {}
    <3>1. Go(t) /\ args' = [args EXCEPT ![t].handle = Min(free)]
      BY <1>6, <2>3 DEF PickHandle
    <3>2. Min(free) \in free
      BY <2>3, MinOfNaturals DEF HandleIds
    <3>3. /\ args' \in [Threads -> CallArgs \cup {None}] /\ args'[t] \in CallArgs
          /\ args'[t].kind = "open" /\ args'[t].handle = Min(free)
          /\ \A u \in Threads \ {t} : args'[u] = args[u]
      <4>1. LET b == [args[t] EXCEPT !.handle = Min(free)] IN
            b \in CallArgs /\ b.kind = "open" /\ b.handle = Min(free)
        BY <1>1, <2>1, <3>2, FillHandle
      <4> QED BY <3>1, <4>1 DEF Control
    <3>4. /\ todo' \in [Threads -> Seq(Steps)] /\ \A u \in Threads : Calling(u)'
          /\ \A u \in Threads : Left(todo'[u]) = IF u = t THEN Left(todo[t]) \ {"pick"}
                                                 ELSE Left(todo[u])
      BY <1>1, <2>1, <3>1, <3>3, Onward
    <3>5. \A u \in Threads : Owning(u)'
      BY <2>1, <3>4 DEF Control, Owning
    <3>6. ASSUME NEW u \in Threads
          PROVE  Reserved(u)'
      BY <2>1, <3>2, <3>3, <3>4 DEF Control, Reserved, Picked, Found
    <3> QED BY <2>1, <3>3, <3>4, <3>5, <3>6 DEF Control
  <2> QED BY <2>2, <2>3
<1>7. CASE FindHandle(t)
  <2>1. /\ NextStep(t) = "find" /\ args[t].kind \in {"write", "read"}
        /\ UNCHANGED <<args, handles, handlesOwner>>
    BY <1>1, <1>2, <1>7, StepKinds DEF FindHandle, handleVars
  <2>2. CASE Abort(t)
    BY <1>1, <2>1, <2>2, GiveUp DEF Abort
  <2>3. CASE Go(t) /\ handles[args[t].handle] # None
    <3>1. /\ todo' \in [Threads -> Seq(Steps)] /\ \A u \in Threads : Calling(u)'
          /\ \A u \in Threads : Left(todo'[u]) = IF u = t THEN Left(todo[t]) \ {"find"}
                                                 ELSE Left(todo[u])
      BY <1>1, <2>1, <2>3, Onward DEF Control
    <3>2. \A u \in Threads : Owning(u)'
      BY <2>1, <3>1 DEF Control, Owning
    <3>3. "insert" \notin StepsOf(args[t].kind)
      BY <1>1, <2>1, StepKinds
    <3>4. ASSUME NEW u \in Threads
          PROVE  Reserved(u)'
      BY <1>2, <2>1, <2>3, <3>1, <3>3 DEF Control, Reserved, Picked, Found
    <3> QED BY <2>1, <3>1, <3>2, <3>4 DEF Control
  <2> QED BY <1>7, <2>2, <2>3 DEF FindHandle
<1>8. CASE InsertHandle(t)
  <2>1. /\ Go(t) /\ NextStep(t) = "insert" /\ args[t].kind = "open" /\ UNCHANGED <<args, handlesOwner>>
    BY <1>1, <1>2, <1>8, StepKinds DEF InsertHandle
  <2>2. Picked(t) /\ handlesOwner = t
    BY <1>1, <1>2, <2>1, ShapeFacts, HoldersOwn DEF Picked, NextStep
  <2>3. /\ todo' \in [Threads -> Seq(Steps)] /\ \A u \in Threads : Calling(u)'
        /\ \A u \in Threads : Left(todo'[u]) = IF u = t THEN Left(todo[t]) \ {"insert"}
                                               ELSE Left(todo[u])
    BY <1>1, <2>1, Onward DEF Control
  <2>4. \A u \in Threads : Owning(u)'
    BY <2>1, <2>3 DEF Control, Owning
  <2>5. ASSUME NEW u \in Threads
        PROVE  Reserved(u)'
    <3>1. u # t => ~Picked(u) /\ ~Found(u)
      BY <2>2, HoldersOwn
    <3> QED BY <2>1, <2>3, <3>1 DEF Reserved, Picked, Found
  <2> QED BY <2>1, <2>3, <2>4, <2>5 DEF Control
<1>9. CASE CloseHandle(t) \/ CloseAll(t)
  <2>1. /\ Go(t) /\ NextStep(t) \in {"close", "closeAll"} /\ handlesOwner = None
        /\ UNCHANGED <<args, handlesOwner>>
    BY <1>9 DEF CloseHandle, CloseAll
  <2>2. \A u \in Threads : ~Picked(u) /\ ~Found(u)
    BY <1>3, <2>1, HoldersOwn
  <2>3. \A u \in Threads : Reserved(u)'
    BY <1>1, <2>1, <2>2, KeepReserved DEF Control, Reserved
  <2>4. /\ todo' \in [Threads -> Seq(Steps)] /\ \A u \in Threads : Calling(u)'
        /\ \A u \in Threads : Left(todo'[u]) = IF u = t THEN Left(todo[t]) \ {NextStep(t)}
                                               ELSE Left(todo[u])
    BY <1>1, <2>1, Onward DEF Control
  <2>5. \A u \in Threads : Owning(u)'
    BY <2>1, <2>4 DEF Control, Owning
  <2> QED BY <2>1, <2>3, <2>4, <2>5 DEF Control
<1> QED BY <1>4, <1>5, <1>6, <1>7, <1>8, <1>9

(* The length of a file is a number. *)
LEMMA SizeIsNatural ==
  ASSUME Tables, NEW p \in Paths
  PROVE  Size(p) \in Nat
BY LenProperties DEF Tables, Size

(* A read or a write moves the position of its handle and changes nothing  *)
(* else of the table.                                                      *)
LEMMA HandleMoves ==
  ASSUME Control, Tables, NEW t \in Threads, WriteHandle(t) \/ ReadHandle(t)
  PROVE  /\ args[t].handle \in HandleIds /\ handles[args[t].handle] \in Handle
         /\ \/ handles' = handles
            \/ \E n \in Nat : handles' = [handles EXCEPT ![args[t].handle].position = n]
         /\ handles' \in [HandleIds -> Handle \cup {None}]
         /\ \A h \in HandleIds : handles'[h] = None <=> handles[h] = None
<1> DEFINE file == handles[args[t].handle]
<1>1. NextStep(t) = "transfer" /\ todo[t] # << >> /\ args[t].kind \in {"write", "read"}
  BY DEF WriteHandle, ReadHandle, Transfer, At
<1>2. args[t].handle \in HandleIds /\ file \in Handle
  <2>1. args[t] \in CallArgs /\ Shape(args[t].kind, todo[t])
    BY <1>1 DEF Control, Calling
  <2>2. Found(t)
    BY <1>1, <2>1, ShapeFacts DEF Found, NextStep, Locking
  <2> QED BY <1>1, <2>1, <2>2, ArgFields DEF Control, Reserved, Tables
<1>3. \/ handles' = handles
      \/ \E n \in Nat : handles' = [handles EXCEPT ![args[t].handle].position = n]
  <2>1. file.position \in Nat /\ Size(file.path) \in Nat
    BY <1>2, SizeIsNatural DEF Handle
  <2>2. CASE ReadHandle(t)
    BY SMTT(30), <2>1, <2>2 DEF ReadHandle
  <2>3. CASE WriteHandle(t)
    <3> DEFINE position == IF file.append THEN Size(file.path) ELSE file.position
    <3>1. position \in Nat /\ WriteAt(t, position)
      BY <2>1, <2>3 DEF WriteHandle
    <3> HIDE DEF position
    <3> QED BY <3>1 DEF WriteAt
  <2> QED BY <2>2, <2>3
<1>4. ASSUME NEW n \in Nat
      PROVE  [file EXCEPT !.position = n] \in Handle
  BY <1>2 DEF Handle
<1>5. CASE handles' = handles
  BY <1>2, <1>3, <1>5 DEF Tables
<1>6. ASSUME NEW n \in Nat, handles' = [handles EXCEPT ![args[t].handle].position = n]
      PROVE  /\ handles' \in [HandleIds -> Handle \cup {None}]
             /\ \A h \in HandleIds : handles'[h] = None <=> handles[h] = None
  BY <1>2, <1>4, <1>6, NoneIsNoHandle DEF Tables
<1> QED BY <1>2, <1>3, <1>5, <1>6

(* Steps that leave the table and the values of the call alone. *)
LEMMA PlainStep ==
  ASSUME Control, NEW t \in Threads,
         \/ CheckPower(t) \/ StoreBehavior(t) \/ ApplyBehavior(t) \/ Acquire(t) \/ Release(t)
         \/ MountCard(t) \/ CreateCard(t) \/ UnmountCard(t) \/ PutFile(t) \/ RemoveFile(t) \/ Peek(t)
         \/ DropCard(t) \/ DropBus(t) \/ SwitchRail(t)
  PROVE  Control'
<1>1. /\ todo[t] # << >> /\ NextStep(t) \notin {"lock", "unlock", "pick", "find"}
      /\ UNCHANGED <<args, handlesOwner, handles>>
      /\ Go(t) \/ Abort(t)
  BY DEF CheckPower, StoreBehavior, ApplyBehavior, Acquire, Release, MountCard, CreateCard,
     UnmountCard, PutFile, RemoveFile, Peek, DropCard, DropBus, SwitchRail, Transfer, At, handleVars
<1>2. CASE Go(t)
  BY <1>1, <1>2, AdvancePlain
<1>3. CASE Abort(t)
  BY <1>1, <1>3, GiveUp DEF Abort
<1> QED BY <1>1, <1>2, <1>3

(* Steps that fill in a value of the call, and the two that use a handle.  *)
LEMMA FillingStep ==
  ASSUME Control, Tables, NEW t \in Threads,
         \/ LoadBehavior(t) \/ FindBus(t) \/ OpenFile(t) \/ WriteHandle(t) \/ ReadHandle(t)
  PROVE  Control'
<1> USE SdAssumption, NoneIsNoHandle DEF At
<1>1. todo[t] # << >> /\ args[t] \in CallArgs /\ args[t].kind \in Calls /\ Shape(args[t].kind, todo[t])
  BY ArgFields DEF LoadBehavior, FindBus, OpenFile, WriteHandle, ReadHandle, Transfer, Control, Calling
<1>2. NextStep(t) \in Left(todo[t]) /\ NextStep(t) \in StepsOf(args[t].kind)
  BY <1>1, ShapeFacts DEF NextStep
<1>3. CASE LoadBehavior(t)
  <2>1. /\ NextStep(t) \in {"loadSlow", "loadDelay"} /\ Go(t) /\ UNCHANGED <<handles, handlesOwner>>
        /\ \/ args' = [args EXCEPT ![t] = [args[t] EXCEPT !.slow = behavior.slow]]
           \/ args' = [args EXCEPT ![t] = [args[t] EXCEPT !.delay = behavior.delay]]
    BY <1>3 DEF LoadBehavior, handleVars
  <2>2. args[t].kind = "init" /\ behavior.slow \in BOOLEAN /\ behavior.delay \in Delays
    BY <1>1, <1>2, <2>1, StepKinds DEF Tables, Behavior
  <2>3. /\ args' \in [Threads -> CallArgs \cup {None}] /\ args'[t] \in CallArgs
        /\ args'[t].kind = "init" /\ \A u \in Threads \ {t} : args'[u] = args[u]
    <3>1. /\ [args[t] EXCEPT !.slow = behavior.slow] \in CallArgs
          /\ [args[t] EXCEPT !.slow = behavior.slow].kind = "init"
          /\ [args[t] EXCEPT !.delay = behavior.delay] \in CallArgs
          /\ [args[t] EXCEPT !.delay = behavior.delay].kind = "init"
      BY <1>1, <2>2, FillPersonality
    <3> QED BY <2>1, <3>1 DEF Control
  <2> QED BY <1>1, <2>1, <2>2, <2>3, Advance DEF Locking
<1>4. CASE FindBus(t)
  <2>1. /\ NextStep(t) \in {"bus", "attach"} /\ Go(t) /\ UNCHANGED <<handles, handlesOwner>>
    BY <1>4 DEF FindBus, handleVars
  <2>2. CASE args' = args
    BY <1>1, <2>1, <2>2, AdvancePlain
  <2>3. CASE NextStep(t) = "bus"
    <3> DEFINE found == IF registry # 0 THEN registry ELSE buses + 1
    <3>1. found \in Nat /\ args' = [args EXCEPT ![t] = [args[t] EXCEPT !.bus = found]]
      BY <1>4, <2>3 DEF FindBus, Tables
    <3>2. args[t].kind \in BusCalls
      BY <1>1, <1>2, <2>3, StepKinds DEF BusCalls
    <3> HIDE DEF found
    <3>3. LET b == [args[t] EXCEPT !.bus = found] IN
          /\ b \in CallArgs /\ b.kind = args[t].kind
          /\ args[t].kind \in Locking => b.handle = args[t].handle
      BY <1>1, <3>1, <3>2, FillBus
    <3>4. /\ args' \in [Threads -> CallArgs \cup {None}] /\ args'[t] \in CallArgs
          /\ args'[t].kind = args[t].kind /\ \A u \in Threads \ {t} : args'[u] = args[u]
          /\ args[t].kind \in Locking => args'[t].handle = args[t].handle
      BY <3>1, <3>3 DEF Control
    <3> QED BY <1>1, <2>1, <2>3, <3>4, Advance
  <2> QED BY <1>4, <2>2, <2>3 DEF FindBus
<1>5. CASE OpenFile(t)
  <2>1. /\ NextStep(t) = "transfer" /\ args[t].kind = "open" /\ UNCHANGED <<handles, handlesOwner>>
    BY <1>5 DEF OpenFile, Transfer, handleVars
  <2>2. CASE todo' = [todo EXCEPT ![t] = <<"release", "unlock">>] /\ UNCHANGED args
    <3>1. "unlock" \in Left(todo[t]) /\ "lock" \notin Left(todo[t])
      BY <1>1, <2>1, ShapeFacts DEF NextStep, Locking
    <3>2. handlesOwner = t
      BY <3>1 DEF Control, Owning
    <3> QED BY <1>1, <2>1, <2>2, <3>2, GiveUp
  <2>3. CASE ~(todo' = [todo EXCEPT ![t] = <<"release", "unlock">>] /\ UNCHANGED args)
    <3>1. PICK n : n \in Nat /\ args' = [args EXCEPT ![t] = [args[t] EXCEPT !.position = n]] /\ Go(t)
      <4> DEFINE p == args[t].path
                 n == IF args[t].mode = 2 /\ files[p] # None THEN Len(files[p]) ELSE 0
      <4>1. args' = [args EXCEPT ![t].position = n] /\ Go(t)
        BY <1>5, <2>3 DEF OpenFile
      <4>2. p \in Paths
        BY <1>1, <2>1, ArgFields
      <4>3. n \in Nat
        BY <4>2, LenProperties DEF Tables
      <4> HIDE DEF n
      <4> QED BY <4>1, <4>3
    <3>2. LET b == [args[t] EXCEPT !.position = n] IN
          b \in CallArgs /\ b.kind = "open" /\ b.handle = args[t].handle
      BY <1>1, <2>1, <3>1, FillPosition
    <3>3. /\ args' \in [Threads -> CallArgs \cup {None}] /\ args'[t] \in CallArgs
          /\ args'[t].kind = "open" /\ args'[t].handle = args[t].handle
          /\ \A u \in Threads \ {t} : args'[u] = args[u]
      BY <3>1, <3>2 DEF Control
    <3> QED BY <1>1, <2>1, <3>1, <3>3, Advance
  <2> QED BY <2>2, <2>3
<1>6. CASE WriteHandle(t) \/ ReadHandle(t)
  <2>1. Go(t) /\ NextStep(t) = "transfer" /\ UNCHANGED <<args, handlesOwner>>
    BY <1>6 DEF WriteHandle, ReadHandle, Transfer
  <2>2. \A h \in HandleIds : handles'[h] = None <=> handles[h] = None
    BY <1>6, HandleMoves
  <2> QED BY <1>1, <2>1, <2>2, Advance DEF Control
<1> QED BY <1>3, <1>4, <1>5, <1>6

-----------------------------------------------------------------------------
(* The tables keep their types. *)

(* Replacing a block of a file, or adding one at its end, leaves a file. *)
LEMMA OverwrittenIsFile ==
  ASSUME NEW sequence \in Seq(Blocks), NEW position \in 0..Len(sequence), NEW block \in Blocks
  PROVE  /\ Overwritten(sequence, position, block) \in Seq(Blocks)
         /\ position = Len(sequence)
              => Overwritten(sequence, position, block) = Append(sequence, block)
<1> DEFINE n == IF position < Len(sequence) THEN Len(sequence) ELSE Len(sequence) + 1
           s == Overwritten(sequence, position, block)
<1>1. Len(sequence) \in Nat /\ \A i \in 1..Len(sequence) : sequence[i] \in Blocks
  BY LenProperties, ElementOfSeq
<1>2. s = [i \in 1..n |-> IF i = position + 1 THEN block ELSE sequence[i]]
  BY DEF Overwritten
<1>3. n \in Nat /\ \A i \in 1..n : i # position + 1 => i \in 1..Len(sequence)
  BY <1>1
<1>4. s \in [1..n -> Blocks]
  BY <1>1, <1>2, <1>3
<1>5. s \in Seq(Blocks)
  BY <1>3, <1>4, SeqDef
<1>6. ASSUME position = Len(sequence)
      PROVE  s = Append(sequence, block)
  <2> DEFINE r == Append(sequence, block)
  <2>1. n = Len(sequence) + 1
    BY <1>1, <1>6
  <2>2. /\ r \in Seq(Blocks) /\ Len(r) = n /\ r[n] = block
        /\ \A i \in 1..Len(sequence) : r[i] = sequence[i]
    BY <2>1, AppendProperties
  <2>3. Len(s) = n /\ \A i \in 1..n : s[i] = IF i = n THEN block ELSE sequence[i]
    BY <1>1, <1>2, <1>6, <2>1
  <2>4. \A i \in 1..n : s[i] = r[i]
    BY <1>1, <1>3, <1>6, <2>1, <2>2, <2>3
  <2> HIDE DEF r, s, n
  <2>5. s = r
    BY <1>5, <2>2, <2>3, <2>4, SeqEqual
  <2> QED BY <2>5 DEF r
<1> QED BY <1>5, <1>6

(* An accepted write leaves a file at its handle's path; through an append *)
(* handle, the file with one more block.                                   *)
LEMMA WriteMakesFile ==
  ASSUME Control, Tables, NEW t \in Threads, WriteHandle(t)
  PROVE  LET file == handles[args[t].handle] IN
         /\ args[t].block \in Blocks
         /\ files' # files
              => \E sequence \in Seq(Blocks) :
                   /\ files' = [files EXCEPT ![file.path] = sequence]
                   /\ file.append => sequence = Append(files[file.path], args[t].block)
<1> DEFINE file == handles[args[t].handle]
           position == IF file.append THEN Size(file.path) ELSE file.position
           sequence == Overwritten(files[file.path], position, args[t].block)
<1>1. file \in Handle /\ args[t].block \in Blocks
  <2>1. args[t] \in CallArgs /\ args[t].kind = "write"
    BY DEF WriteHandle, Transfer, At, Control, Calling
  <2> QED BY <2>1, HandleMoves, ArgFields
<1>2. ASSUME files' # files
      PROVE  /\ files' = [files EXCEPT ![file.path] = sequence]
             /\ files[file.path] # None /\ position <= Size(file.path)
  BY <1>2 DEF WriteHandle, WriteAt
<1>3. file.path \in Paths /\ position \in Nat /\ Size(file.path) \in Nat
  BY <1>1, SizeIsNatural DEF Handle
<1>4. ASSUME files[file.path] # None, position <= Size(file.path)
      PROVE  sequence \in Seq(Blocks)
             /\ (file.append => sequence = Append(files[file.path], args[t].block))
  <2>1. files[file.path] \in Seq(Blocks) /\ Size(file.path) = Len(files[file.path])
    BY <1>3, <1>4 DEF Tables, Size
  <2>2. position \in 0..Len(files[file.path]) /\ (file.append => position = Len(files[file.path]))
    BY <1>3, <1>4, <2>1
  <2> HIDE DEF position
  <2> QED BY <1>1, <2>1, <2>2, OverwrittenIsFile
<1> HIDE DEF sequence
<1> QED BY <1>1, <1>2, <1>4

(* Every step. *)
LEMMA TablesStep ==
  ASSUME SdInv, NEW t \in Threads, ThreadStep(t)
  PROVE  Tables'
<1> USE SdAssumption DEF SdInv
<1>1. /\ todo[t] # << >> /\ args[t] \in CallArgs /\ args[t].kind \in Calls
      /\ NextStep(t) \in StepsOf(args[t].kind)
  <2>1. todo[t] # << >>
    BY DEF ThreadStep, CheckPower, LoadBehavior, StoreBehavior, ApplyBehavior, LockHandles,
       UnlockHandles, PickHandle, FindHandle, InsertHandle, CloseHandle, CloseAll, FindBus,
       Acquire, Release, MountCard, CreateCard, UnmountCard, OpenFile, WriteHandle, ReadHandle,
       PutFile, RemoveFile, Peek, DropCard, DropBus, SwitchRail, Transfer, At
  <2> QED BY <2>1, ArgFields, ShapeFacts DEF Control, Calling, NextStep
<1>2. CASE UNCHANGED <<handles, files, behavior, registry, buses, screenBus>>
  BY <1>2 DEF Tables
<1>3. CASE StoreBehavior(t)
  <2>1. args[t].kind = "behave"
    BY <1>1, <1>3, StepKinds DEF StoreBehavior, At
  <2>2. behavior' \in Behavior
    BY <1>1, <1>3, <2>1, ArgFields DEF StoreBehavior, Behavior, Tables
  <2> QED BY <1>3, <2>2 DEF StoreBehavior, spiVars, cardVars, handleVars, Tables
<1>4. CASE InsertHandle(t)
  <2>1. args[t].kind = "open"
    BY <1>1, <1>4, StepKinds DEF InsertHandle, At
  <2>2. [path |-> args[t].path, position |-> args[t].position,
         writable |-> args[t].mode # 0, append |-> args[t].mode = 2] \in Handle
    BY <1>1, <2>1, ArgFields DEF Handle
  <2> QED BY <1>4, <2>2 DEF InsertHandle, spiVars, cardVars, Tables
<1>5. CASE CloseHandle(t) \/ CloseAll(t)
  BY <1>5 DEF CloseHandle, CloseAll, spiVars, cardVars, Tables
<1>6. CASE FindBus(t) \/ DropBus(t)
  BY <1>6 DEF FindBus, DropBus, cardVars, handleVars, Tables
<1>7. CASE OpenFile(t) \/ PutFile(t) \/ RemoveFile(t)
  <2>1. args[t].kind \in {"open", "put", "remove"}
        /\ UNCHANGED <<handles, behavior, registry, buses, screenBus>>
    BY <1>7 DEF OpenFile, PutFile, RemoveFile, Transfer, spiVars, handleVars
  <2>2. args[t].path \in Paths /\ (args[t].kind = "put" => args[t].block \in Blocks)
    BY <1>1, <2>1, ArgFields
  <2>3. \/ files' = files
        \/ \E sequence \in {<< >>, None} : files' = [files EXCEPT ![args[t].path] = sequence]
        \/ /\ files' = [files EXCEPT ![args[t].path] = <<args[t].block>>]
           /\ args[t].kind = "put"
    <3>1. CASE OpenFile(t)
      BY <3>1 DEF OpenFile
    <3>2. CASE PutFile(t)
      BY <3>2 DEF PutFile, Transfer
    <3>3. CASE RemoveFile(t)
      BY <3>3 DEF RemoveFile, Transfer
    <3> QED BY <1>7, <3>1, <3>2, <3>3
  <2>4. \A sequence \in Seq(Blocks) \cup {None} :
          files' = [files EXCEPT ![args[t].path] = sequence]
            => files' \in [Paths -> Seq(Blocks) \cup {None}]
    BY <2>2 DEF Tables
  <2>5. << >> \in Seq(Blocks) /\ (args[t].kind = "put" => <<args[t].block>> \in Seq(Blocks))
    BY <2>2, EmptySeq
  <2>6. files' \in [Paths -> Seq(Blocks) \cup {None}]
    BY <2>3, <2>4, <2>5 DEF Tables
  <2> QED BY <2>1, <2>6 DEF Tables
<1>8. CASE WriteHandle(t) \/ ReadHandle(t)
  <2>1. UNCHANGED <<behavior, registry, buses, screenBus>>
    BY <1>8 DEF WriteHandle, ReadHandle, spiVars
  <2>2. handles' \in [HandleIds -> Handle \cup {None}] /\ handles[args[t].handle] \in Handle
    BY <1>8, HandleMoves
  <2>3. CASE UNCHANGED files
    BY <2>1, <2>2, <2>3 DEF Tables
  <2>4. CASE WriteHandle(t) /\ ~UNCHANGED files
    BY <2>1, <2>2, <2>4, WriteMakesFile DEF Tables
  <2> QED BY <1>8, <2>3, <2>4 DEF ReadHandle, cardVars
<1> QED
  BY <1>2, <1>3, <1>4, <1>5, <1>6, <1>7, <1>8
  DEF ThreadStep, CheckPower, LoadBehavior, ApplyBehavior, LockHandles, UnlockHandles, PickHandle,
      FindHandle, Acquire, Release, MountCard, CreateCard, UnmountCard, Peek, DropCard, SwitchRail,
      spiVars, cardVars, handleVars

(* The invariant holds of every behaviour. *)
THEOREM SdStorageInvariant == SdSpec => []SdInv
<1> USE SdAssumption
<1>1. SdInit => SdInv
  <2> SUFFICES ASSUME SdInit
               PROVE  SdInv
    OBVIOUS
  <2>1. Control
    <3>1. << >> \in Seq(Steps)
      BY EmptySeq
    <3> QED BY <3>1, ShapeOfNothing DEF SdInit, Control, Calling, Owning, Reserved, Picked, Found
  <2>2. Tables
    BY DEF SdInit, Tables, Behavior
  <2> QED BY <2>1, <2>2 DEF SdInv
<1>2. SdInv /\ [SdNext]_sdVars => SdInv'
  <2> SUFFICES ASSUME SdInv, [SdNext]_sdVars
               PROVE  SdInv'
    OBVIOUS
  <2>1. ASSUME NEW t \in Threads, NEW a \in CallArgs, Call(t, a)
        PROVE  SdInv'
    BY <2>1, Begin DEF SdInv, Call, Tables, spiVars, cardVars, handleVars
  <2>2. ASSUME NEW t \in Firmware, NEW a \in FirmwareCalls, Call(t, a)
        PROVE  SdInv'
    <3>1. a \in CallArgs /\ t \in Threads
      BY CallsHaveArgs DEF Threads
    <3> QED BY <2>1, <2>2, <3>1
  <2>3. ASSUME NEW a \in DisplayCalls, Call(Display, a)
        PROVE  SdInv'
    <3>1. a \in CallArgs /\ Display \in Threads
      BY DEF DisplayCalls, CallArgs, Threads, SdInv, Tables
    <3> QED BY <2>1, <2>3, <3>1
  <2>4. ASSUME NEW a \in BoardCalls, Call(Board, a)
        PROVE  SdInv'
    <3>1. a \in CallArgs /\ Board \in Threads
      BY DEF BoardCalls, CallArgs, Threads
    <3> QED BY <2>1, <2>4, <3>1
  <2>5. ASSUME NEW t \in Threads, ThreadStep(t)
        PROVE  SdInv'
    BY <2>5, TableStep, PlainStep, FillingStep, TablesStep DEF SdInv, ThreadStep
  <2>6. CASE UNCHANGED sdVars
    <3>1. UNCHANGED <<todo, args, handles, handlesOwner, files, behavior, registry, buses, screenBus>>
      BY <2>6 DEF sdVars, spiVars, cardVars, handleVars
    <3>2. Control'
      BY <3>1 DEF SdInv, Control, Calling, Owning, Reserved, Picked, Found
    <3> QED BY <3>1, <3>2 DEF SdInv, Tables
  <2> QED BY <2>2, <2>3, <2>4, <2>5, <2>6 DEF SdNext
<1> QED BY <1>1, <1>2, PTL DEF SdSpec

-----------------------------------------------------------------------------
(* What follows from the invariant. *)

(* Only these steps change the table. *)
LEMMA TableChanges ==
  ASSUME SdInv, SdNext, handles' # handles
  PROVE  \E t \in Threads : \/ InsertHandle(t) \/ CloseHandle(t) \/ CloseAll(t)
                            \/ WriteHandle(t) \/ ReadHandle(t)
BY ZenonT(40) DEF SdNext, Call, ThreadStep, CheckPower, LoadBehavior, StoreBehavior, ApplyBehavior, LockHandles,
   UnlockHandles, PickHandle, FindHandle, FindBus, Acquire, Release, MountCard, CreateCard,
   UnmountCard, OpenFile, PutFile, RemoveFile, Peek, DropCard, DropBus, SwitchRail, handleVars,
   sdVars, Threads

(* An open handle stays the file it was opened for, whatever the threads   *)
(* do between the search for a free handle and its use (ffi.rs:562-611).   *)
THEOREM OpenHandlesStay == SdSpec => HandlesAreExclusive
<1>1. ASSUME SdInv, SdNext, NEW h \in HandleIds, handles[h] # None, handles'[h] # None
      PROVE  /\ handles'[h].path = handles[h].path
             /\ handles'[h].writable = handles[h].writable
             /\ handles'[h].append = handles[h].append
  <2> USE <1>1 DEF SdInv
  <2>1. CASE handles' = handles
    BY <2>1
  <2>2. ASSUME NEW t \in Threads, InsertHandle(t)
        PROVE  args[t].handle # h
    <3>1. todo[t] # << >> /\ args[t] \in CallArgs /\ Shape(args[t].kind, todo[t])
      BY <2>2 DEF InsertHandle, At, Control, Calling
    <3>2. Picked(t)
      BY <2>2, <3>1, ShapeFacts DEF InsertHandle, At, Picked, NextStep
    <3> QED BY <2>2, <3>2 DEF Control, Reserved
  <2>3. ASSUME NEW t \in Threads, InsertHandle(t) \/ CloseHandle(t) \/ CloseAll(t)
        PROVE  handles'[h] = handles[h]
    BY <2>2, <2>3 DEF InsertHandle, CloseHandle, CloseAll, Tables
  <2>4. ASSUME NEW t \in Threads, WriteHandle(t) \/ ReadHandle(t)
        PROVE  \/ handles'[h] = handles[h]
               \/ \E n \in Nat : handles'[h] = [handles[h] EXCEPT !.position = n]
    BY ZenonT(40), <2>4, HandleMoves DEF Tables
  <2>5. handles[h] \in Handle
    BY DEF Tables
  <2>6. \A n \in Nat : LET file == [handles[h] EXCEPT !.position = n] IN
          /\ file.path = handles[h].path /\ file.writable = handles[h].writable
          /\ file.append = handles[h].append
    BY <2>5 DEF Handle
  <2> QED BY <2>1, <2>3, <2>4, <2>6, TableChanges
<1>2. SdInv /\ [SdNext]_sdVars
        => [\A h \in HandleIds : handles[h] # None /\ handles'[h] # None =>
              /\ handles'[h].path = handles[h].path
              /\ handles'[h].writable = handles[h].writable
              /\ handles'[h].append = handles[h].append]_sdVars
  BY <1>1
<1> QED BY <1>2, SdStorageInvariant, PTL DEF SdSpec, HandlesAreExclusive

(* A write through an append handle that is accepted adds its block at the *)
(* end of the file, wherever other handles have left it (ffi.rs:641-678).  *)
THEOREM AppendedDataStays == SdSpec => AppendsKeepData
<1> DEFINE Kept ==
      \A t \in Firmware :
        LET h == args[t].handle IN
        (/\ Transfer(t, "write") /\ todo'[t] # todo[t] /\ handles[h].append
         /\ files' # files)
        => \E block \in Blocks :
             files' = [files EXCEPT ![handles[h].path] = Append(@, block)]
<1>1. SdInv /\ SdNext => Kept
  <2> SUFFICES ASSUME SdInv, SdNext, NEW t \in Firmware,
                      Transfer(t, "write"), todo'[t] # todo[t], handles[args[t].handle].append,
                      files' # files
               PROVE  \E block \in Blocks :
                        files' = [files EXCEPT ![handles[args[t].handle].path] = Append(@, block)]
    OBVIOUS
  <2>1. t \in Threads /\ todo[t] # << >> /\ NextStep(t) = "transfer" /\ args[t].kind = "write"
    BY DEF Threads, Transfer, At
  <2>2. ThreadStep(t)
    <3>1. ASSUME NEW u \in Threads, NEW a, Call(u, a)
          PROVE  FALSE
      BY <2>1, <3>1 DEF Call, SdInv, Control
    <3>2. ASSUME NEW u \in Threads, ThreadStep(u), u # t
          PROVE  FALSE
      BY <2>1, <3>2
      DEF SdInv, Control, ThreadStep, CheckPower, LoadBehavior, StoreBehavior, ApplyBehavior,
          LockHandles, UnlockHandles, PickHandle, FindHandle, InsertHandle, CloseHandle, CloseAll,
          FindBus, Acquire, Release, MountCard, CreateCard, UnmountCard, OpenFile, WriteHandle,
          ReadHandle, PutFile, RemoveFile, Peek, DropCard, DropBus, SwitchRail, Go, Abort
    <3>3. ~UNCHANGED sdVars
      BY DEF sdVars
    <3> QED BY <3>1, <3>2, <3>3 DEF SdNext, Threads
  <2>3. WriteHandle(t)
    BY <2>1, <2>2
    DEF ThreadStep, CheckPower, LoadBehavior, StoreBehavior, ApplyBehavior, LockHandles,
        UnlockHandles, PickHandle, FindHandle, InsertHandle, CloseHandle, CloseAll, FindBus,
        Acquire, Release, MountCard, CreateCard, UnmountCard, OpenFile, ReadHandle, PutFile,
        RemoveFile, Peek, DropCard, DropBus, SwitchRail, Transfer, At
  <2>4. /\ args[t].block \in Blocks
        /\ \E sequence \in Seq(Blocks) :
             /\ files' = [files EXCEPT ![handles[args[t].handle].path] = sequence]
             /\ sequence = Append(files[handles[args[t].handle].path], args[t].block)
    BY <2>1, <2>3, WriteMakesFile DEF SdInv
  <2> QED BY <2>4
<1>2. SdInv /\ [SdNext]_sdVars => [Kept]_sdVars
  BY <1>1
<1> QED BY <1>2, SdStorageInvariant, PTL DEF SdSpec, AppendsKeepData

-----------------------------------------------------------------------------
(* The arbiter. *)

(* What a step does to the thread that takes it, and to the others. *)
LEMMA StepOfOne ==
  ASSUME SdInv, NEW t \in Threads, ThreadStep(t)
  PROVE  /\ todo[t] # << >> /\ calls' = calls
         /\ \/ Go(t) \/ Abort(t)
            \/ NextStep(t) = "transfer" /\ todo' = [todo EXCEPT ![t] = <<"release", "unlock">>]
         /\ args'[t].kind = args[t].kind
         /\ NextStep(t) # "bus" /\ args[t].kind \in BusCalls => args'[t].bus = args[t].bus
         /\ \A u \in Threads \ {t} : todo'[u] = todo[u] /\ args'[u] = args[u]
<1> USE DEF SdInv, At
<1>1. /\ todo[t] # << >> /\ calls' = calls
      /\ \/ Go(t) \/ Abort(t)
         \/ NextStep(t) = "transfer" /\ todo' = [todo EXCEPT ![t] = <<"release", "unlock">>]
      /\ \/ UNCHANGED args
         \/ LoadBehavior(t) \/ PickHandle(t) \/ FindBus(t) \/ OpenFile(t)
  BY DEF ThreadStep, CheckPower, LoadBehavior, StoreBehavior, ApplyBehavior, LockHandles,
     UnlockHandles, PickHandle, FindHandle, InsertHandle, CloseHandle, CloseAll, FindBus, Acquire,
     Release, MountCard, CreateCard, UnmountCard, OpenFile, WriteHandle, ReadHandle, PutFile,
     RemoveFile, Peek, DropCard, DropBus, SwitchRail, Transfer
<1>2. /\ args[t] \in CallArgs /\ args[t].kind \in Calls /\ NextStep(t) \in StepsOf(args[t].kind)
  BY <1>1, ArgFields, ShapeFacts DEF Control, Calling, NextStep
<1>3. \A u \in Threads \ {t} : todo'[u] = todo[u]
  BY <1>1 DEF Go, Abort, Control
<1>4. \/ UNCHANGED args
      \/ \E c : /\ args' = [args EXCEPT ![t] = c] /\ c.kind = args[t].kind
                /\ NextStep(t) # "bus" /\ args[t].kind \in BusCalls => c.bus = args[t].bus
  <2>1. CASE LoadBehavior(t)
    <3>1. args[t].kind = "init" /\ behavior.slow \in BOOLEAN /\ behavior.delay \in Delays
      BY <1>2, <2>1, StepKinds DEF LoadBehavior, Tables, Behavior
    <3> DEFINE c == [args[t] EXCEPT !.slow = behavior.slow]
               d == [args[t] EXCEPT !.delay = behavior.delay]
    <3>2. c.kind = "init" /\ c.bus = args[t].bus /\ d.kind = "init" /\ d.bus = args[t].bus
      BY <1>2, <3>1, FillPersonality
    <3>3. args' = [args EXCEPT ![t] = c] \/ args' = [args EXCEPT ![t] = d]
      BY <2>1 DEF LoadBehavior
    <3> HIDE DEF c, d
    <3> QED BY <3>1, <3>2, <3>3
  <2>2. CASE PickHandle(t)
    <3> DEFINE free == {h \in HandleIds : handles[h] = None}
    <3>1. args[t].kind = "open"
      BY <1>2, <2>2, StepKinds DEF PickHandle
    <3>2. CASE UNCHANGED args
      BY <3>2
    <3>3. CASE ~UNCHANGED args
      <4>1. free # {} /\ args' = [args EXCEPT ![t] = [args[t] EXCEPT !.handle = Min(free)]]
        BY <2>2, <3>3 DEF PickHandle
      <4>2. Min(free) \in HandleIds
        BY <4>1, MinOfNaturals DEF HandleIds
      <4> HIDE DEF free
      <4>3. LET c == [args[t] EXCEPT !.handle = Min(free)] IN
            c.kind = "open" /\ c.bus = args[t].bus
        BY <1>2, <3>1, <4>2, FillHandle, SdAssumption
      <4> QED BY <3>1, <4>1, <4>3
    <3> QED BY <3>2, <3>3
  <2>3. CASE FindBus(t)
    <3> DEFINE found == IF registry # 0 THEN registry ELSE buses + 1
    <3>1. \/ UNCHANGED args
          \/ NextStep(t) = "bus" /\ args' = [args EXCEPT ![t] = [args[t] EXCEPT !.bus = found]]
      BY <2>3 DEF FindBus
    <3>2. found \in Nat /\ (NextStep(t) = "bus" => args[t].kind \in BusCalls)
      BY <1>2, StepKinds DEF Tables, BusCalls
    <3> HIDE DEF found
    <3>3. NextStep(t) = "bus" => [args[t] EXCEPT !.bus = found].kind = args[t].kind
      BY <1>2, <3>2, FillBus
    <3> QED BY <3>1, <3>3
  <2>4. CASE OpenFile(t)
    <3>1. args[t].kind = "open"
      BY <2>4 DEF OpenFile, Transfer
    <3>2. CASE UNCHANGED args
      BY <3>2
    <3>3. CASE ~UNCHANGED args
      <4>1. PICK n \in Nat : args' = [args EXCEPT ![t] = [args[t] EXCEPT !.position = n]]
        <5> DEFINE p == args[t].path
                   n == IF args[t].mode = 2 /\ files[p] # None THEN Len(files[p]) ELSE 0
        <5>1. args' = [args EXCEPT ![t].position = n]
          BY <2>4, <3>3 DEF OpenFile
        <5>2. p \in Paths
          BY <1>2, <3>1, ArgFields
        <5>3. n \in Nat
          BY <5>2, LenProperties DEF Tables
        <5> HIDE DEF n
        <5> QED BY <5>1, <5>3
      <4>2. LET c == [args[t] EXCEPT !.position = n] IN
            c.kind = "open" /\ c.bus = args[t].bus
        BY <1>2, <3>1, FillPosition
      <4> QED BY <3>1, <4>1, <4>2
    <3> QED BY <3>2, <3>3
  <2> QED BY <1>1, <2>1, <2>2, <2>3, <2>4
<1> QED BY <1>1, <1>3, <1>4 DEF Control

(* Every step leaves the arbiter with the thread that drives the bus. *)
LEMMA BusStep ==
  ASSUME SdInv, BusInv, NEW t \in Threads, ThreadStep(t)
  PROVE  BusInv'
<1> DEFINE BusSteps == {"acquire", "transfer", "draw", "release"}
<1> USE SdAssumption DEF SdInv, At
<1>1. /\ todo[t] # << >> /\ calls' = calls /\ args'[t].kind = args[t].kind
      /\ \A u \in Threads \ {t} : todo'[u] = todo[u] /\ args'[u] = args[u]
      /\ args[t] \in CallArgs /\ args[t].kind \in Calls /\ Shape(args[t].kind, todo[t])
      /\ NextStep(t) \in StepsOf(args[t].kind)
      /\ Tail(todo[t]) \in Seq(Steps)
  BY StepOfOne, ArgFields, ShapeFacts, HeadTailProperties DEF Control, Calling, NextStep
<1>2. /\ calls > 0 /\ 1 \in Buses /\ args[t].kind # "destroy"
      /\ NextStep(t) \in BusSteps => registry = 1 /\ args[t].bus = 1
      /\ NextStep(t) \in {"transfer", "draw", "release"} => spiOwner[1] = t
  <2>1. calls > 0 /\ calls <= MaxCalls /\ MaxCalls \in Nat /\ calls \in Nat
    BY <1>1 DEF BusInv, Driving
  <2> QED BY <1>1, <2>1 DEF BusInv, Driving, Buses, Transferring
<1>3. NextStep(t) \in BusSteps => args'[t].bus = args[t].bus
  BY <1>1, StepOfOne, StepKinds
(* What is left of the call of t. *)
<1>4. todo'[t] # << >> =>
        /\ NextStep(t)' = "acquire" => NextStep(t) = "bus"
        /\ NextStep(t)' \in {"transfer", "draw"} => NextStep(t) = "acquire"
        /\ NextStep(t)' = "release" => NextStep(t) \in {"transfer", "draw"}
  <2>1. CASE Go(t)
    <3>1. todo'[t] = Tail(todo[t])
      BY <2>1 DEF Go, Control
    <3> QED BY <1>1, <3>1, StepsFollow DEF NextStep
  <2>2. CASE Abort(t)
    <3>1. todo'[t] \in {<<"unlock">>, << >>}
      BY <2>2 DEF Abort, Control
    <3> QED BY <3>1 DEF NextStep
  <2>3. CASE NextStep(t) = "transfer" /\ todo' = [todo EXCEPT ![t] = <<"release", "unlock">>]
    <3>1. todo'[t] = <<"release", "unlock">>
      BY <2>3 DEF Control
    <3> QED BY <2>3, <3>1 DEF NextStep
  <2> QED BY <2>1, <2>2, <2>3, StepOfOne
<1>5. ASSUME NEW u \in Threads \ {t}, registry = 1 => registry' = 1,
             Transferring(u) => spiOwner'[1] = spiOwner[1]
      PROVE  Driving(u)'
  BY <1>1, <1>5 DEF BusInv, Driving, Transferring, NextStep
<1>6. CASE FindBus(t)
  <2>1. registry' = buses' /\ buses' \in {0, 1} /\ screenBus' \in {0, buses'} /\ registry' = 1
        /\ spiOwner' = spiOwner
    BY <1>6 DEF FindBus, BusInv
  <2>2. NextStep(t) = "bus" => args'[t].bus = 1
    <3>1. NextStep(t) = "bus" => args' = [args EXCEPT ![t].bus = 1] /\ args[t].kind \in BusCalls
      BY <1>1, <1>6, StepKinds DEF FindBus, BusInv, BusCalls
    <3>2. args[t].kind \in BusCalls => [args[t] EXCEPT !.bus = 1].bus = 1
      BY <1>1, FillBus
    <3> QED BY <1>1, <3>1, <3>2 DEF Control
  <2>3. NextStep(t) \in {"bus", "attach"}
    BY <1>6 DEF FindBus
  <2>4. Driving(t)'
    BY <1>1, <1>2, <1>4, <2>1, <2>2, <2>3 DEF Driving, Transferring
  <2> QED BY <1>1, <1>5, <2>1, <2>4 DEF BusInv
<1>7. CASE Acquire(t)
  <2>1. NextStep(t) = "acquire" /\ UNCHANGED <<registry, buses, screenBus, args>>
    BY <1>7 DEF Acquire
  <2>2. CASE spiOwner[1] = None
    <3>1. spiOwner' = [spiOwner EXCEPT ![1] = t]
      BY <1>2, <1>7, <2>1, <2>2 DEF Acquire
    <3>2. \A u \in Threads : ~Transferring(u)
      BY <2>2 DEF BusInv, Driving
    <3>3. Driving(t)'
      BY <1>1, <1>2, <1>4, <2>1, <3>1 DEF Driving, Transferring, BusInv
    <3> QED BY <1>1, <1>2, <1>5, <2>1, <3>1, <3>2, <3>3 DEF BusInv
  <2>3. CASE spiOwner[1] # None
    <3>1. UNCHANGED spiOwner /\ todo'[t] \in {<<"unlock">>, << >>}
      BY <1>2, <1>7, <2>1, <2>3 DEF Acquire, Abort, Control
    <3>2. Driving(t)'
      BY <1>1, <1>2, <3>1 DEF Driving, Transferring, NextStep
    <3> QED BY <1>1, <1>5, <2>1, <3>1, <3>2 DEF BusInv
  <2> QED BY <2>2, <2>3
<1>8. CASE Release(t)
  <2>1. /\ NextStep(t) = "release" /\ UNCHANGED <<registry, buses, screenBus>>
        /\ spiOwner' = [spiOwner EXCEPT ![1] = None]
    BY <1>2, <1>8 DEF Release
  <2>2. \A u \in Threads \ {t} : ~Transferring(u)
    BY <1>2, <2>1 DEF BusInv, Driving
  <2>3. Driving(t)'
    BY <1>1, <1>2, <1>4, <2>1 DEF Driving, Transferring
  <2> QED BY <1>1, <1>2, <1>5, <2>1, <2>2, <2>3 DEF BusInv
<1>9. CASE ~(FindBus(t) \/ Acquire(t) \/ Release(t))
  <2>1. ~DropBus(t)
    BY <1>1, <1>2, StepKinds DEF DropBus
  <2>2. UNCHANGED <<registry, buses, screenBus, spiOwner>>
    BY <1>9, <2>1
    DEF ThreadStep, CheckPower, LoadBehavior, StoreBehavior, ApplyBehavior, LockHandles,
        UnlockHandles, PickHandle, FindHandle, InsertHandle, CloseHandle, CloseAll, MountCard,
        CreateCard, UnmountCard, OpenFile, WriteHandle, ReadHandle, PutFile, RemoveFile, Peek,
        DropCard, SwitchRail, spiVars
  <2>3. NextStep(t) \notin {"bus", "acquire", "release"}
    BY <1>9 DEF ThreadStep, CheckPower, LoadBehavior, StoreBehavior, ApplyBehavior, LockHandles,
        UnlockHandles, PickHandle, FindHandle, InsertHandle, CloseHandle, CloseAll, MountCard,
        CreateCard, UnmountCard, OpenFile, WriteHandle, ReadHandle, PutFile, RemoveFile, Peek,
        DropCard, DropBus, SwitchRail, Transfer
  <2>4. Driving(t)'
    BY <1>1, <1>2, <1>3, <1>4, <2>2, <2>3 DEF Driving, Transferring
  <2> QED BY <1>1, <1>5, <2>2, <2>4 DEF BusInv
<1> QED BY <1>6, <1>7, <1>8, <1>9

(* While no call destroys the storage, the card and the display, and two   *)
(* calls on the card, never drive the shared pins at the same time: the    *)
(* arbiter refuses whoever comes second (shared_spi.rs, ffi.rs:235).       *)
THEOREM OneDriverOfTheBus == "destroy" \notin Kinds => (SdSpec => []OneDriver)
<1> SUFFICES ASSUME "destroy" \notin Kinds
             PROVE  SdSpec => []OneDriver
  OBVIOUS
<1> USE SdAssumption
<1>1. SdInit => BusInv
  BY DEF SdInit, BusInv, Driving, Transferring
<1>2. SdInv /\ BusInv /\ [SdNext]_sdVars => BusInv'
  <2> SUFFICES ASSUME SdInv, BusInv, [SdNext]_sdVars
               PROVE  BusInv'
    OBVIOUS
  <2>1. ASSUME NEW t \in Threads, NEW a, Call(t, a), a.kind \in Calls,
               a.kind = "flush" => a.bus = screenBus /\ a.bus # 0
        PROVE  BusInv'
    <3>1. /\ todo[t] = << >> /\ calls' = calls + 1 /\ calls < MaxCalls /\ a.kind # "destroy"
          /\ UNCHANGED spiVars /\ todo'[t] = Program(a.kind) /\ args'[t] = a
          /\ \A u \in Threads \ {t} : todo'[u] = todo[u] /\ args'[u] = args[u]
      BY <2>1 DEF Call, SdInv, Control
    <3>2. Driving(t)'
      <4>1. NextStep(t)' \in {"acquire", "transfer", "draw", "release"} => a.kind = "flush"
        BY <2>1, <3>1, FirstSteps DEF NextStep
      <4>2. a.kind = "flush" => a.bus = 1 /\ registry = 1
        BY <2>1 DEF BusInv
      <4>3. Program("flush") = <<"acquire", "draw", "release">>
        BY Programs
      <4>4. NextStep(t)' \notin {"transfer", "draw", "release"}
        BY <3>1, <4>1, <4>3 DEF NextStep
      <4> QED BY <3>1, <4>1, <4>2, <4>4 DEF Driving, Transferring, spiVars, BusInv
    <3>3. ASSUME NEW u \in Threads \ {t}
          PROVE  Driving(u)'
      BY <3>1 DEF BusInv, Driving, Transferring, NextStep, spiVars
    <3>4. calls' \in 0..MaxCalls
      <4>1. MaxCalls \in Nat /\ calls \in 0..MaxCalls
        BY DEF BusInv
      <4>2. calls' = calls + 1 /\ calls < MaxCalls
        BY <3>1
      <4> QED BY <4>1, <4>2
    <3>5. buses' = buses /\ registry' = registry /\ screenBus' = screenBus /\ spiOwner' = spiOwner
      BY <3>1 DEF spiVars
    <3>6. \A u \in Threads : Driving(u)'
      BY <3>2, <3>3
    <3> QED BY <3>4, <3>5, <3>6 DEF BusInv
  <2>2. ASSUME NEW t \in Firmware, NEW a \in FirmwareCalls, Call(t, a)
        PROVE  BusInv'
    <3>1. a.kind \in Calls /\ a.kind # "flush" /\ t \in Threads
      BY DEF FirmwareCalls, Calls, Threads
    <3> QED BY <2>1, <2>2, <3>1
  <2>3. ASSUME NEW a \in DisplayCalls, Call(Display, a)
        PROVE  BusInv'
    <3>1. a.kind \in Calls /\ (a.kind = "flush" => a.bus = screenBus /\ a.bus # 0) /\ Display \in Threads
      BY DEF DisplayCalls, Calls, Threads
    <3> QED BY <2>1, <2>3, <3>1
  <2>4. ASSUME NEW a \in BoardCalls, Call(Board, a)
        PROVE  BusInv'
    <3>1. a.kind \in Calls /\ a.kind # "flush" /\ Board \in Threads
      BY DEF BoardCalls, Calls, Threads
    <3> QED BY <2>1, <2>4, <3>1
  <2>5. CASE UNCHANGED sdVars
    BY <2>5 DEF BusInv, Driving, Transferring, NextStep, sdVars, spiVars
  <2> QED BY <2>2, <2>3, <2>4, <2>5, BusStep DEF SdNext
<1>3. BusInv => OneDriver
  BY DEF BusInv, Driving, OneDriver
<1> QED BY <1>1, <1>2, <1>3, SdStorageInvariant, PTL DEF SdSpec

-----------------------------------------------------------------------------
(* Sums. *)

(* A set of naturals has a least element. *)
LEMMA LeastNatural ==
  ASSUME NEW S \in SUBSET Nat, S # {}
  PROVE  \E m \in S : \A n \in S : m <= n
<1>1. ASSUME NEW R, IsWellFoundedOn(R, Nat), \A m, n \in Nat : n < m => <<n, m>> \in R
      PROVE  \E m \in S : \A n \in S : m <= n
  <2>1. PICK m \in S : \A n \in S : <<n, m>> \notin R
    BY <1>1, WFMin, Zenon
  <2>2. ASSUME NEW n \in S
        PROVE  m <= n
    <3>1. m \in Nat /\ n \in Nat
      OBVIOUS
    <3>2. ~(n < m)
      BY <1>1, <2>1, <3>1, Zenon
    <3> QED BY <3>1, <3>2
  <2> QED BY <2>2
<1>2. \A m, n \in Nat : n < m => <<n, m>> \in OpToRel(<, Nat)
  BY DEF OpToRel
<1> QED BY <1>1, <1>2, NatLessThanWellFounded, Zenon

-----------------------------------------------------------------------------
(* Sums over finite sets.  The library's sum takes one element after the   *)
(* other; h holds the sums of the smaller sets.                            *)
First(s) == CHOOSE x \in s : TRUE
AddedUp(f, h, s) == IF s = {} THEN 0 ELSE f[First(s)] + h[s \ {First(s)}]

Sums(f, S, h) == h = [s \in SUBSET S |-> AddedUp(f, h, s)]

(* A finite set can be summed element by element. *)
LEMMA SumsExist ==
  ASSUME NEW S, IsFiniteSet(S), NEW f
  PROVE  \E h : Sums(f, S, h)
<1> DEFINE Small(k) == {s \in SUBSET S : Cardinality(s) <= k}
           Good(k) == \E g : g = [s \in Small(k) |-> AddedUp(f, g, s)]
<1>1. \A s \in SUBSET S : IsFiniteSet(s) /\ Cardinality(s) \in Nat
  BY FS_Subset, FS_CardinalityType
<1>2. Good(0)
  <2>1. \A s \in Small(0) : s = {}
    BY <1>1, FS_EmptySet
  <2>2. [s \in Small(0) |-> 0] = [s \in Small(0) |-> AddedUp(f, [z \in Small(0) |-> 0], s)]
    BY <2>1 DEF AddedUp
  <2> HIDE DEF Small
  <2> QED BY <2>2
<1>3. ASSUME NEW k \in Nat, Good(k)
      PROVE  Good(k + 1)
  <2>1. PICK g : g = [s \in Small(k) |-> AddedUp(f, g, s)]
    BY <1>3
  <2> DEFINE h == [s \in Small(k + 1) |-> AddedUp(f, g, s)]
  <2>2. ASSUME NEW s \in Small(k + 1), s # {}, NEW x \in s
        PROVE  h[s \ {x}] = g[s \ {x}]
    <3>1. s \ {x} \in SUBSET S /\ Cardinality(s \ {x}) = Cardinality(s) - 1
      BY <1>1, <2>2, FS_RemoveElement
    <3>2. Cardinality(s) <= k + 1 /\ Cardinality(s) \in Nat
      BY <1>1
    <3>3. s \ {x} \in Small(k) /\ s \ {x} \in Small(k + 1)
      BY <3>1, <3>2
    <3> HIDE DEF Small
    <3>4. h[s \ {x}] = AddedUp(f, g, s \ {x})
      BY <3>3
    <3>5. g[s \ {x}] = AddedUp(f, g, s \ {x})
      BY <2>1, <3>3
    <3> QED BY <3>4, <3>5
  <2>3. \A s \in Small(k + 1) : AddedUp(f, g, s) = AddedUp(f, h, s)
    <3> TAKE s \in Small(k + 1)
    <3> HIDE DEF h, Small
    <3>1. CASE s = {}
      BY <3>1 DEF AddedUp
    <3>2. CASE s # {}
      <4>1. First(s) \in s
        BY <3>2 DEF First
      <4>2. h[s \ {First(s)}] = g[s \ {First(s)}]
        BY <2>2, <3>2, <4>1
      <4> QED BY <3>2, <4>2 DEF AddedUp
    <3> QED BY <3>1, <3>2
  <2>4. h = [s \in Small(k + 1) |-> AddedUp(f, h, s)]
    <3> DEFINE D == Small(k + 1)
    <3> HIDE DEF Small, D
    <3>1. h = [s \in D |-> AddedUp(f, g, s)]
      BY DEF D
    <3> HIDE DEF h
    <3> QED BY <2>3, <3>1 DEF D
  <2> QED BY <2>4
<1>4. \A k \in Nat : Good(k)
  <2> SUFFICES ASSUME NEW j \in Nat, ~Good(j)
               PROVE  FALSE
    OBVIOUS
  <2> HIDE DEF Good
  <2>1. PICK m \in {k \in Nat : ~Good(k)} : \A k \in {i \in Nat : ~Good(i)} : m <= k
    BY LeastNatural
  <2>2. m # 0
    BY <1>2, <2>1
  <2>3. m - 1 \in Nat /\ ~(m <= m - 1)
    BY <2>2
  <2>4. Good(m - 1)
    BY <2>1, <2>3
  <2>5. Good((m - 1) + 1)
    BY <1>3, <2>3, <2>4
  <2>6. (m - 1) + 1 = m
    BY <2>3
  <2> QED BY <2>1, <2>5, <2>6
<1>5. Small(Cardinality(S)) = SUBSET S
  BY <1>1, FS_Subset
<1>6. Good(Cardinality(S))
  BY <1>1, <1>4
<1> HIDE DEF Small
<1> QED BY <1>5, <1>6 DEF Sums

(* What a sum takes out first. *)
LEMMA SumUnfolds ==
  ASSUME NEW S, IsFiniteSet(S), NEW f, NEW h, Sums(f, S, h)
  PROVE  /\ h[{}] = 0
         /\ \A s \in SUBSET S : s # {} =>
              First(s) \in s /\ h[s] = f[First(s)] + h[s \ {First(s)}]
<1>1. \A s \in SUBSET S : h[s] = AddedUp(f, h, s)
  BY DEF Sums
<1>2. \A s : s # {} => First(s) \in s
  BY DEF First
<1> QED BY <1>1, <1>2 DEF AddedUp

(* A set has one sum, in whichever larger set it lies, and it depends on   *)
(* its own values only.                                                    *)
LEMMA SumsAgree ==
  ASSUME NEW S, IsFiniteSet(S), NEW f, NEW g, Sums(f, S, g),
         NEW R, IsFiniteSet(R), NEW e, NEW h, Sums(e, R, h),
         NEW T \in SUBSET S, T \subseteq R, \A x \in T : f[x] = e[x]
  PROVE  g[T] = h[T]
<1> DEFINE Wrong == {k \in Nat : \E s \in SUBSET T : Cardinality(s) = k /\ g[s] # h[s]}
<1>0. /\ g[{}] = 0 /\ h[{}] = 0
      /\ \A s \in SUBSET S : s # {} =>
           First(s) \in s /\ g[s] = f[First(s)] + g[s \ {First(s)}]
      /\ \A s \in SUBSET R : s # {} =>
           First(s) \in s /\ h[s] = e[First(s)] + h[s \ {First(s)}]
  <2>1. /\ g[{}] = 0
        /\ \A s \in SUBSET S : s # {} =>
             First(s) \in s /\ g[s] = f[First(s)] + g[s \ {First(s)}]
    BY SumUnfolds
  <2>2. /\ h[{}] = 0
        /\ \A s \in SUBSET R : s # {} =>
             First(s) \in s /\ h[s] = e[First(s)] + h[s \ {First(s)}]
    BY SumUnfolds
  <2> QED BY <2>1, <2>2
<1>1. IsFiniteSet(T) /\ \A s \in SUBSET T : IsFiniteSet(s) /\ Cardinality(s) \in Nat
  BY FS_Subset, FS_CardinalityType
<1>2. ASSUME NEW m \in Wrong, \A k \in Wrong : m <= k
      PROVE  FALSE
  <2>1. PICK s \in SUBSET T : Cardinality(s) = m /\ g[s] # h[s]
    OBVIOUS
  <2> DEFINE x == First(s)
  <2>2. s # {} /\ s \in SUBSET S /\ s \in SUBSET R
    BY <1>0, <2>1
  <2>3. x \in s /\ g[s] = f[x] + g[s \ {x}]
    BY <1>0, <2>2
  <2>4. h[s] = e[x] + h[s \ {x}]
    BY <1>0, <2>2
  <2> HIDE DEF x
  <2>5. s \ {x} \in SUBSET T /\ Cardinality(s \ {x}) = m - 1 /\ Cardinality(s \ {x}) \in Nat
    BY <1>1, <2>1, <2>3, FS_RemoveElement
  <2>6. m \in Nat /\ ~(m <= m - 1)
    OBVIOUS
  <2>7. g[s \ {x}] = h[s \ {x}]
    BY <1>2, <2>5, <2>6
  <2>8. f[x] = e[x]
    BY <2>3
  <2> QED BY <2>1, <2>3, <2>4, <2>7, <2>8
<1>3. Wrong = {}
  <2> HIDE DEF Wrong
  <2>1. Wrong \in SUBSET Nat
    BY DEF Wrong
  <2> QED BY <1>2, <2>1, LeastNatural
<1> QED BY <1>1, <1>3

(* A sum of naturals is one, and any of its elements may be taken first. *)
LEMMA SumTakesAny ==
  ASSUME NEW S, IsFiniteSet(S), NEW f, \A x \in S : f[x] \in Nat, NEW h, Sums(f, S, h)
  PROVE  \A s \in SUBSET S : /\ h[s] \in Nat
                             /\ \A x \in s : h[s] = f[x] + h[s \ {x}]
<1> DEFINE Right(s) == h[s] \in Nat /\ \A x \in s : h[s] = f[x] + h[s \ {x}]
           Wrong == {k \in Nat : \E s \in SUBSET S : Cardinality(s) = k /\ ~Right(s)}
<1>0. /\ h[{}] = 0
      /\ \A s \in SUBSET S : s # {} =>
           First(s) \in s /\ h[s] = f[First(s)] + h[s \ {First(s)}]
  BY SumUnfolds
<1>1. \A s \in SUBSET S : IsFiniteSet(s) /\ Cardinality(s) \in Nat
  BY FS_Subset, FS_CardinalityType
<1>2. ASSUME NEW m \in Wrong, \A k \in Wrong : m <= k
      PROVE  FALSE
  <2>1. PICK s \in SUBSET S : Cardinality(s) = m /\ ~Right(s)
    OBVIOUS
  <2> DEFINE y == First(s)
  <2>2. s # {}
    <3>1. Right({})
      BY <1>0
    <3> HIDE DEF Right
    <3> QED BY <2>1, <3>1
  <2>3. y \in s /\ h[s] = f[y] + h[s \ {y}]
    BY <1>0, <2>2
  <2> HIDE DEF y
  <2>4. \A k \in Nat : k < m => \A r \in SUBSET S : Cardinality(r) = k => Right(r)
    <3> HIDE DEF Right
    <3>1. \A k \in Nat : k < m => k \notin Wrong
      BY <1>2
    <3> QED BY <3>1
  <2>5. \A x \in s : /\ s \ {x} \in SUBSET S /\ Cardinality(s \ {x}) = m - 1
                     /\ m - 1 \in Nat /\ m - 1 < m
    <3> TAKE x \in s
    <3>1. Cardinality(s \ {x}) = m - 1 /\ Cardinality(s \ {x}) \in Nat /\ m \in Nat
      BY <1>1, <2>1, FS_RemoveElement
    <3> QED BY <3>1
  <2>6. \A x \in s : Right(s \ {x})
    <3> HIDE DEF Right
    <3> QED BY <2>4, <2>5
  <2>7. h[s] \in Nat
    <3>1. h[s \ {y}] \in Nat /\ f[y] \in Nat
      BY <2>3, <2>6
    <3> QED BY <2>3, <3>1
  <2>8. ASSUME NEW x \in s
        PROVE  h[s] = f[x] + h[s \ {x}]
    <3>1. CASE x = y
      BY <2>3, <3>1
    <3>2. CASE x # y
      <4>1. h[s \ {y}] = f[x] + h[(s \ {y}) \ {x}]
        BY <2>3, <2>6, <3>2
      <4>2. h[s \ {x}] = f[y] + h[(s \ {x}) \ {y}]
        BY <2>3, <2>6, <3>2
      <4>3. (s \ {y}) \ {x} = (s \ {x}) \ {y}
        OBVIOUS
      <4>4. f[x] \in Nat /\ f[y] \in Nat /\ h[(s \ {y}) \ {x}] \in Nat
        <5>1. (s \ {y}) \ {x} \in SUBSET S /\ Right(s \ {y}) /\ x \in s \ {y}
          BY <2>3, <2>6, <3>2
        <5> DEFINE r == s \ {y}
        <5>2. Cardinality(r \ {x}) < m /\ Cardinality(r \ {x}) \in Nat
          <6>1. r \in SUBSET S /\ x \in r /\ Cardinality(r) = m - 1 /\ m - 1 \in Nat
            BY <2>3, <2>5, <3>2
          <6> HIDE DEF r
          <6>2. Cardinality(r \ {x}) = Cardinality(r) - 1 /\ Cardinality(r \ {x}) \in Nat
            BY <1>1, <6>1, FS_RemoveElement
          <6>3. m \in Nat
            OBVIOUS
          <6> QED BY <6>1, <6>2, <6>3
        <5>3. Right((s \ {y}) \ {x})
          <6> HIDE DEF Right
          <6> QED BY <2>4, <5>1, <5>2
        <5> QED BY <2>3, <5>3
      <4> DEFINE w == h[(s \ {y}) \ {x}]
      <4>5. w = h[(s \ {x}) \ {y}] /\ w \in Nat
        BY <4>3, <4>4
      <4> HIDE DEF w
      <4>6. h[s \ {y}] = f[x] + w /\ h[s \ {x}] = f[y] + w
        BY <4>1, <4>2, <4>5 DEF w
      <4> QED BY <2>3, <4>4, <4>5, <4>6
    <3> QED BY <3>1, <3>2
  <2> QED BY <2>1, <2>7, <2>8
<1>3. Wrong = {}
  <2> HIDE DEF Wrong
  <2>1. Wrong \in SUBSET Nat
    BY DEF Wrong
  <2> QED BY <1>2, <2>1, LeastNatural
<1>4. \A s \in SUBSET S : Right(s)
  <2> HIDE DEF Right
  <2> QED BY <1>1, <1>3
<1> QED BY <1>4

SumOf(f, S) == (CHOOSE h : Sums(f, S, h))[S]

LEMMA SumLaws ==
  ASSUME NEW S, IsFiniteSet(S), NEW f, \A x \in S : f[x] \in Nat
  PROVE  /\ SumOf(f, S) \in Nat
         /\ \A x \in S : SumOf(f, S) = f[x] + SumOf(f, S \ {x})
         /\ \A e : (\A x \in S : e[x] = f[x]) => SumOf(e, S) = SumOf(f, S)
<1> DEFINE h == CHOOSE g : Sums(f, S, g)
<1>1. Sums(f, S, h)
  BY SumsExist
<1>2. SumOf(f, S) = h[S]
  BY DEF SumOf
<1> HIDE DEF h
<1>3. ASSUME NEW R \in SUBSET S, NEW e, \A x \in R : e[x] = f[x]
      PROVE  SumOf(e, R) = h[R]
  <2> DEFINE g == CHOOSE k : Sums(e, R, k)
  <2>1. IsFiniteSet(R)
    BY FS_Subset
  <2>2. Sums(e, R, g)
    BY <2>1, SumsExist
  <2>3. SumOf(e, R) = g[R]
    BY DEF SumOf
  <2> HIDE DEF g
  <2>4. g[R] = h[R]
    BY <1>1, <1>3, <2>1, <2>2, SumsAgree
  <2> QED BY <2>3, <2>4
<1>4. h[S] \in Nat /\ \A x \in S : h[S] = f[x] + h[S \ {x}]
  BY <1>1, SumTakesAny
<1>5. \A x \in S : SumOf(f, S \ {x}) = h[S \ {x}]
  BY <1>3
<1>6. \A e : (\A x \in S : e[x] = f[x]) => SumOf(e, S) = h[S]
  BY <1>3
<1> QED BY <1>2, <1>4, <1>5, <1>6

LEMMA SumOfNothing ==
  ASSUME NEW S, IsFiniteSet(S), NEW f, \A x \in S : f[x] = 0
  PROVE  SumOf(f, S) = 0
<1> DEFINE h == CHOOSE g : Sums(f, S, g)
           zero == [s \in SUBSET S |-> 0]
<1>1. Sums(f, S, zero)
  <2>1. \A s \in SUBSET S : AddedUp(f, zero, s) = 0
    <3> TAKE s \in SUBSET S
    <3>1. s # {} => First(s) \in s
      BY DEF First
    <3>2. s # {} => f[First(s)] = 0 /\ zero[s \ {First(s)}] = 0
      BY <3>1
    <3> HIDE DEF zero
    <3> QED BY <3>2 DEF AddedUp
  <2>2. zero = [s \in SUBSET S |-> AddedUp(f, zero, s)]
    BY <2>1
  <2> QED BY <2>2 DEF Sums
<1>2. Sums(f, S, h)
  BY SumsExist
<1>3. zero[S] = 0
  OBVIOUS
<1> HIDE DEF h, zero
<1>4. h[S] = zero[S]
  BY <1>1, <1>2, SumsAgree
<1> QED BY <1>3, <1>4 DEF SumOf, h

(* What the card holds is such a sum. *)
FileSizes == [p \in Paths |-> Size(p)]

LEMMA UsedIsSum == \A ps \in SUBSET Paths : Used(ps) = SumOf(FileSizes, ps)
<1> TAKE ps \in SUBSET Paths
<1> DEFINE Adds(h) == h = [s \in SUBSET ps |->
                             IF s = {} THEN 0 ELSE Size(First(s)) + h[s \ {First(s)}]]
           g == CHOOSE h : Adds(h)
           k == CHOOSE h : Sums(FileSizes, ps, h)
<1>1. IsFiniteSet(ps)
  BY SdAssumption, FS_Subset
<1>2. Used(ps) = g[ps]
  BY DEF Used, MapThenSumSet, MapThenFoldSet, First
<1>3. ASSUME NEW h
      PROVE  Adds(h) <=> Sums(FileSizes, ps, h)
  <2>1. \A s \in SUBSET ps :
          (IF s = {} THEN 0 ELSE Size(First(s)) + h[s \ {First(s)}]) = AddedUp(FileSizes, h, s)
    <3> TAKE s \in SUBSET ps
    <3>1. s # {} => First(s) \in Paths
      BY DEF First
    <3> QED BY <3>1 DEF AddedUp, FileSizes
  <2>2. [s \in SUBSET ps |-> IF s = {} THEN 0 ELSE Size(First(s)) + h[s \ {First(s)}]]
        = [s \in SUBSET ps |-> AddedUp(FileSizes, h, s)]
    BY <2>1
  <2> QED BY <2>2 DEF Sums
<1> HIDE DEF Adds
<1>4. Sums(FileSizes, ps, k)
  BY <1>1, SumsExist
<1>5. Sums(FileSizes, ps, g)
  BY <1>3, <1>4
<1> HIDE DEF g, k
<1>6. g[ps] = k[ps]
  BY <1>1, <1>4, <1>5, SumsAgree
<1> QED BY <1>2, <1>6 DEF SumOf, k

(* What steps do to files: nothing, or they remove one, or write one that  *)
(* was tried for size.                                                     *)
LEMMA FilesStep ==
  ASSUME SdInv, SdNext, files' # files
  PROVE  \E p \in Paths :
           \/ files' = [files EXCEPT ![p] = None]
           \/ \E sequence \in Seq(Blocks) : /\ Fits(p, sequence)
                                           /\ files' = [files EXCEPT ![p] = sequence]
<1> USE SdAssumption DEF SdInv
<1>1. PICK t \in Threads : OpenFile(t) \/ PutFile(t) \/ RemoveFile(t) \/ WriteHandle(t)
  BY DEF SdNext, Call, ThreadStep, CheckPower, LoadBehavior, StoreBehavior, ApplyBehavior, LockHandles,
     UnlockHandles, PickHandle, FindHandle, InsertHandle, CloseHandle, CloseAll, FindBus, Acquire,
     Release, MountCard, CreateCard, UnmountCard, ReadHandle, Peek, DropCard, DropBus, SwitchRail,
     cardVars, sdVars
<1>2. CASE OpenFile(t) \/ PutFile(t) \/ RemoveFile(t)
  <2>1. args[t] \in CallArgs /\ args[t].kind \in {"open", "put", "remove"}
        /\ (PutFile(t) => args[t].kind = "put")
    BY <1>2 DEF OpenFile, PutFile, RemoveFile, Transfer, At, Control, Calling
  <2>2. args[t].path \in Paths /\ (args[t].kind = "put" => args[t].block \in Blocks)
    BY <2>1, ArgFields
  <2>3. << >> \in Seq(Blocks) /\ (args[t].kind = "put" => <<args[t].block>> \in Seq(Blocks))
    BY <2>2, EmptySeq
  <2>4. CASE OpenFile(t)
    BY <2>2, <2>3, <2>4 DEF OpenFile
  <2>5. CASE PutFile(t)
    BY <2>1, <2>2, <2>3, <2>5 DEF PutFile
  <2>6. CASE RemoveFile(t)
    BY <2>2, <2>6 DEF RemoveFile
  <2> QED BY <1>2, <2>4, <2>5, <2>6
<1>3. CASE WriteHandle(t)
  <2> DEFINE file == handles[args[t].handle]
  <2>1. PICK sequence \in Seq(Blocks) : files' = [files EXCEPT ![file.path] = sequence]
    BY <1>3, WriteMakesFile
  <2>2. file \in Handle
    BY <1>3, HandleMoves
  <2>3. file.path \in Paths
    BY <2>2 DEF Handle
  <2> DEFINE position == IF file.append THEN Size(file.path) ELSE file.position
             written == Overwritten(files[file.path], position, args[t].block)
  <2>4. files' = [files EXCEPT ![file.path] = written] /\ Fits(file.path, written)
    BY <1>3 DEF WriteHandle, WriteAt
  <2> HIDE DEF written, file
  <2>5. written = sequence
    BY <2>1, <2>3, <2>4 DEF Tables
  <2> QED BY <2>1, <2>3, <2>4, <2>5
<1> QED BY <1>1, <1>2, <1>3

LEMMA UsedIsSumNext == \A ps \in SUBSET Paths : Used(ps)' = SumOf(FileSizes', ps)
<1>1. (\A ps \in SUBSET Paths : Used(ps) = SumOf(FileSizes, ps))'
  BY UsedIsSum, PTL
<1> QED BY <1>1 DEF SumOf, Sums

(* One file changes its size; the others are what they were. *)
LEMMA FileResized ==
  ASSUME Tables, Tables', NEW p \in Paths, NEW sequence \in Seq(Blocks) \cup {None},
         files' = [files EXCEPT ![p] = sequence]
  PROVE  /\ Used(Paths)' = Used(Paths \ {p}) + Size(p)'
         /\ Used(Paths) = Used(Paths \ {p}) + Size(p)
         /\ Used(Paths \ {p}) \in Nat
<1> DEFINE before == FileSizes
           after == FileSizes'
<1>1. IsFiniteSet(Paths) /\ IsFiniteSet(Paths \ {p})
  BY SdAssumption, FS_Subset
<1>2. \A q \in Paths : before[q] = Size(q) /\ before[q] \in Nat
  BY SizeIsNatural DEF FileSizes
<1>3. \A q \in Paths : after[q] = Size(q)' /\ after[q] \in Nat
  BY LenProperties DEF FileSizes, Tables, Size
<1>4. \A q \in Paths \ {p} : after[q] = before[q]
  BY <1>2, <1>3 DEF Size, Tables
<1>5. /\ Used(Paths) = SumOf(before, Paths) /\ Used(Paths \ {p}) = SumOf(before, Paths \ {p})
      /\ Used(Paths)' = SumOf(after, Paths)
  BY UsedIsSum, UsedIsSumNext
<1> HIDE DEF before, after
<1>6. SumOf(before, Paths) = before[p] + SumOf(before, Paths \ {p})
  BY <1>1, <1>2, SumLaws
<1>7. SumOf(after, Paths) = after[p] + SumOf(after, Paths \ {p})
  BY <1>1, <1>3, SumLaws
<1>8. /\ SumOf(before, Paths \ {p}) \in Nat
      /\ SumOf(after, Paths \ {p}) = SumOf(before, Paths \ {p})
  BY <1>1, <1>2, <1>4, SumLaws
<1> QED BY <1>2, <1>3, <1>5, <1>6, <1>7, <1>8

(* Whatever the writes of several handles do, the card is never overfull:  *)
(* the space is tried against the files there are, under the lock that     *)
(* the write is made under (sdcard.rs, ffi.rs:641).                        *)
THEOREM CardIsNeverOverfull == SdSpec => []WithinCapacity
<1>1. SdInit => WithinCapacity
  <2> SUFFICES ASSUME SdInit
               PROVE  WithinCapacity
    OBVIOUS
  <2>1. \A p \in Paths : FileSizes[p] = 0
    BY DEF SdInit, FileSizes, Size
  <2>2. SumOf(FileSizes, Paths) = 0
    BY <2>1, SumOfNothing, SdAssumption
  <2> QED BY <2>2, UsedIsSum, SdAssumption DEF WithinCapacity
<1>2. SdInv /\ SdInv' /\ WithinCapacity /\ [SdNext]_sdVars => WithinCapacity'
  <2> SUFFICES ASSUME SdInv, SdInv', WithinCapacity, [SdNext]_sdVars
               PROVE  WithinCapacity'
    OBVIOUS
  <2>1. CASE files' = files
    <3>1. FileSizes' = FileSizes
      BY <2>1 DEF FileSizes, Size
    <3> QED BY <3>1, UsedIsSum, UsedIsSumNext DEF WithinCapacity
  <2>2. CASE files' # files
    <3>1. SdNext
      BY <2>2 DEF sdVars, cardVars
    <3>2. PICK p \in Paths :
            \/ files' = [files EXCEPT ![p] = None]
            \/ \E sequence \in Seq(Blocks) : /\ Fits(p, sequence)
                                            /\ files' = [files EXCEPT ![p] = sequence]
      BY <2>2, <3>1, FilesStep
    <3>3. PICK sequence \in Seq(Blocks) \cup {None} :
            /\ files' = [files EXCEPT ![p] = sequence] /\ (sequence # None => Fits(p, sequence))
      BY <3>2
    <3>4. /\ Used(Paths)' = Used(Paths \ {p}) + Size(p)'
          /\ Used(Paths) = Used(Paths \ {p}) + Size(p)
          /\ Used(Paths \ {p}) \in Nat
      BY <3>3, FileResized DEF SdInv
    <3>5. Size(p)' = IF sequence = None THEN 0 ELSE Len(sequence)
      BY <3>3 DEF Size, SdInv, Tables
    <3>6. Size(p) \in Nat /\ Capacity \in Nat
      BY SizeIsNatural, SdAssumption DEF SdInv
    <3> HIDE DEF Used, Size
    <3>7. CASE sequence = None
      BY <3>4, <3>5, <3>6, <3>7 DEF WithinCapacity
    <3>8. CASE sequence # None
      BY <3>3, <3>4, <3>5, <3>8 DEF WithinCapacity, Fits
    <3> QED BY <3>7, <3>8
  <2> QED BY <2>1, <2>2
<1> QED BY <1>1, <1>2, SdStorageInvariant, PTL DEF SdSpec

-----------------------------------------------------------------------------
(* The SPIFFS partition. *)

(* The object and the files; they never take more than there is.           *)
SpiffsTypes ==
  /\ spiffs \in SpiffsObject \cup {NoSpiffs}
  /\ contents \in [Names -> Nat \cup {Absent}]
  /\ writtenHere \subseteq Names /\ (spiffs = NoSpiffs => writtenHere = {})

(* A block that a file of this object lies in was counted when the file    *)
(* got there.                                                              *)
Worn(n) == contents[n] # Absent => \A b \in Stretch(n, contents[n]) : spiffs.writeCycles[b] > 0

SpiffsInv ==
  /\ SpiffsTypes
  /\ UsedBytes(Names) <= PartitionSize
  /\ \A n \in writtenHere : Worn(n)

(* A change of more bytes wears at least the same blocks, and all of them  *)
(* are there.                                                              *)
LEMMA MaxOfTwo ==
  ASSUME NEW a \in Nat, NEW b \in Nat
  PROVE  Max({a, b}) = IF a <= b THEN b ELSE a
<1> DEFINE m == IF a <= b THEN b ELSE a
<1>1. m \in {a, b} /\ \A n \in {a, b} : m >= n
  OBVIOUS
<1>2. \A x \in {a, b} : (\A n \in {a, b} : x >= n) => x = m
  OBVIOUS
<1> HIDE DEF m
<1>3. Max({a, b}) = m
  BY <1>1, <1>2 DEF Max
<1> QED BY <1>3 DEF m

LEMMA StretchGrows ==
  ASSUME NEW n \in Names, NEW size \in Nat, NEW bytes \in Nat, size <= bytes
  PROVE  Stretch(n, size) \subseteq Stretch(n, bytes) /\ Stretch(n, bytes) \subseteq EraseBlocks
<1> DEFINE a == Max({size, 1})
           b == Max({bytes, 1})
<1>1. a \in Nat /\ b \in Nat /\ a <= b
  BY MaxOfTwo
<1>2. CeilDiv(a, BlockSize) \in Nat /\ CeilDiv(b, BlockSize) \in Nat
      /\ CeilDiv(a, BlockSize) <= CeilDiv(b, BlockSize)
  <2>1. \A x, y \in Nat, d \in Nat \ {0} :
          x \div d \in Nat /\ (x <= y => x \div d <= y \div d)
    OBVIOUS
  <2>2. BlockSize \in Nat \ {0} /\ a + BlockSize - 1 \in Nat /\ b + BlockSize - 1 \in Nat
        /\ a + BlockSize - 1 <= b + BlockSize - 1
    BY <1>1, SpiffsAssumption
  <2> HIDE DEF a, b
  <2> QED BY <2>1, <2>2 DEF CeilDiv
<1> HIDE DEF a, b
<1>3. Stretch(n, size) \subseteq Stretch(n, bytes)
  <2>1. 0 .. CeilDiv(a, BlockSize) - 1 \subseteq 0 .. CeilDiv(b, BlockSize) - 1
    BY <1>2
  <2> QED BY <2>1 DEF Stretch, a, b
<1>4. Stretch(n, bytes) \subseteq EraseBlocks
  <2>1. StartOf[n] \in 0 .. BlockCount - 1
    BY HashAssumption DEF EraseBlocks
  <2>2. BlockCount \in Nat \ {0}
    <3>1. \A x \in Nat, d \in Nat \ {0} : x \div d \in Nat
      OBVIOUS
    <3>2. BlockCount \in Nat
      BY <3>1, SpiffsAssumption DEF BlockCount, CeilDiv
    <3> QED BY <2>1, <3>2
  <2>3. \A x \in Nat, d \in Nat \ {0} : x % d \in 0 .. d - 1
    OBVIOUS
  <2>4. \A o \in 0 .. CeilDiv(b, BlockSize) - 1 : StartOf[n] + o \in Nat
    BY <1>2, <2>1, <2>2
  <2> QED BY <2>2, <2>3, <2>4 DEF Stretch, EraseBlocks, b
<1> QED BY <1>3, <1>4

(* What the partition holds is a sum too. *)
PartitionSizes == [n \in Names |-> SizeOf(n)]

LEMMA UsedBytesIsSum == \A ns \in SUBSET Names : UsedBytes(ns) = SumOf(PartitionSizes, ns)
<1> TAKE ns \in SUBSET Names
<1> DEFINE Adds(h) == h = [s \in SUBSET ns |->
                             IF s = {} THEN 0 ELSE SizeOf(First(s)) + h[s \ {First(s)}]]
           g == CHOOSE h : Adds(h)
           k == CHOOSE h : Sums(PartitionSizes, ns, h)
<1>1. IsFiniteSet(ns)
  BY SpiffsAssumption, FS_Subset
<1>2. UsedBytes(ns) = g[ns]
  BY DEF UsedBytes, MapThenSumSet, MapThenFoldSet, First
<1>3. ASSUME NEW h
      PROVE  Adds(h) <=> Sums(PartitionSizes, ns, h)
  <2>1. \A s \in SUBSET ns :
          (IF s = {} THEN 0 ELSE SizeOf(First(s)) + h[s \ {First(s)}]) = AddedUp(PartitionSizes, h, s)
    <3> TAKE s \in SUBSET ns
    <3>1. s # {} => First(s) \in Names
      BY DEF First
    <3> QED BY <3>1 DEF AddedUp, PartitionSizes
  <2>2. [s \in SUBSET ns |-> IF s = {} THEN 0 ELSE SizeOf(First(s)) + h[s \ {First(s)}]]
        = [s \in SUBSET ns |-> AddedUp(PartitionSizes, h, s)]
    BY <2>1
  <2> QED BY <2>2 DEF Sums
<1> HIDE DEF Adds
<1>4. Sums(PartitionSizes, ns, k)
  BY <1>1, SumsExist
<1>5. Sums(PartitionSizes, ns, g)
  BY <1>3, <1>4
<1> HIDE DEF g, k
<1>6. g[ns] = k[ns]
  BY <1>1, <1>4, <1>5, SumsAgree
<1> QED BY <1>2, <1>6 DEF SumOf, k

LEMMA UsedBytesIsSumNext == \A ns \in SUBSET Names : UsedBytes(ns)' = SumOf(PartitionSizes', ns)
<1>1. (\A ns \in SUBSET Names : UsedBytes(ns) = SumOf(PartitionSizes, ns))'
  BY UsedBytesIsSum, PTL
<1> QED BY <1>1 DEF SumOf, Sums

LEMMA SpiffsResized ==
  ASSUME SpiffsTypes, NEW n \in Names, NEW size \in Nat \cup {Absent},
         contents' = [contents EXCEPT ![n] = size]
  PROVE  /\ UsedBytes(Names)' = UsedBytes(Names \ {n}) + SizeOf(n)'
         /\ UsedBytes(Names) = UsedBytes(Names \ {n}) + SizeOf(n)
         /\ UsedBytes(Names \ {n}) \in Nat /\ SizeOf(n) \in Nat
         /\ SizeOf(n)' = IF size = Absent THEN 0 ELSE size
<1> DEFINE before == PartitionSizes
           after == PartitionSizes'
<1>1. IsFiniteSet(Names) /\ IsFiniteSet(Names \ {n})
  BY SpiffsAssumption, FS_Subset
<1>2. \A q \in Names : before[q] = SizeOf(q) /\ before[q] \in Nat
  BY DEF PartitionSizes, SpiffsTypes, SizeOf
<1>3. \A q \in Names : after[q] = SizeOf(q)' /\ after[q] \in Nat
  BY DEF PartitionSizes, SpiffsTypes, SizeOf
<1>4. \A q \in Names \ {n} : after[q] = before[q]
  BY <1>2, <1>3 DEF SizeOf, SpiffsTypes
<1>5. /\ UsedBytes(Names) = SumOf(before, Names) /\ UsedBytes(Names \ {n}) = SumOf(before, Names \ {n})
      /\ UsedBytes(Names)' = SumOf(after, Names)
  BY UsedBytesIsSum, UsedBytesIsSumNext
<1>6. SizeOf(n)' = IF size = Absent THEN 0 ELSE size
  BY DEF SizeOf, SpiffsTypes
<1> HIDE DEF before, after
<1>7. SumOf(before, Names) = before[n] + SumOf(before, Names \ {n})
  BY <1>1, <1>2, SumLaws
<1>8. SumOf(after, Names) = after[n] + SumOf(after, Names \ {n})
  BY <1>1, <1>3, SumLaws
<1>9. /\ SumOf(before, Names \ {n}) \in Nat
      /\ SumOf(after, Names \ {n}) = SumOf(before, Names \ {n})
  BY <1>1, <1>2, <1>4, SumLaws
<1> QED BY <1>2, <1>3, <1>5, <1>6, <1>7, <1>8, <1>9

(* Files without bytes take no room. *)
LEMMA NothingStored ==
  ASSUME \A n \in Names : SizeOf(n) = 0
  PROVE  UsedBytes(Names) = 0
<1>1. \A n \in Names : PartitionSizes[n] = 0
  BY DEF PartitionSizes
<1> QED BY <1>1, UsedBytesIsSum, SumOfNothing, SpiffsAssumption

LEMMA WriteKeepsSpiffs ==
  ASSUME SpiffsInv, NEW path, NEW size \in Sizes, WriteSpiffs(path, size)
  PROVE  SpiffsInv'
<1> DEFINE bytes(n) == Max({SizeOf(n), size})
<1>1. PICK n \in Names :
        /\ FitsPartition(n, size) /\ contents' = [contents EXCEPT ![n] = size]
        /\ RecordWrite(n, bytes(n)) /\ writtenHere' = writtenHere \cup {n}
  BY DEF WriteSpiffs
<1>2. size \in Nat /\ PartitionSize \in Nat /\ size # Absent
  BY SpiffsAssumption DEF Absent
<1>3. spiffs \in SpiffsObject
  BY DEF WriteSpiffs, Usable, SpiffsInv, SpiffsTypes
<1>4. SizeOf(n) \in Nat
  BY DEF SpiffsInv, SpiffsTypes, SizeOf
<1>5. bytes(n) \in Nat /\ size <= bytes(n)
  BY <1>2, <1>4, MaxOfTwo
<1> DEFINE worn == Stretch(n, bytes(n))
<1>6. /\ spiffs' \in SpiffsObject
      /\ \A b \in EraseBlocks :
           spiffs'.writeCycles[b] = IF b \in worn THEN spiffs.writeCycles[b] + 1
                                    ELSE spiffs.writeCycles[b]
  BY <1>1, <1>3 DEF RecordWrite, SpiffsObject
<1>7. Stretch(n, size) \subseteq worn /\ worn \subseteq EraseBlocks
  BY <1>2, <1>5, StretchGrows
<1> HIDE DEF bytes, worn
<1>8. SpiffsTypes'
  BY <1>1, <1>2, <1>6, NoneIsNoSpiffs DEF SpiffsInv, SpiffsTypes
<1>9. UsedBytes(Names)' <= PartitionSize
  <2>1. /\ UsedBytes(Names)' = UsedBytes(Names \ {n}) + SizeOf(n)' /\ SizeOf(n)' = size
    BY <1>1, <1>2, SpiffsResized DEF SpiffsInv
  <2> QED BY <1>1, <2>1 DEF FitsPartition
<1>10. ASSUME NEW m \in writtenHere', contents'[m] # Absent
       PROVE  \A b \in Stretch(m, contents'[m]) : spiffs'.writeCycles[b] > 0
  <2>1. \A b \in EraseBlocks : spiffs.writeCycles[b] \in Nat
    BY <1>3 DEF SpiffsObject
  <2>2. CASE m = n
    <3>1. contents'[m] = size
      BY <1>1, <2>2 DEF SpiffsInv, SpiffsTypes
    <3> QED BY <1>6, <1>7, <2>1, <2>2, <3>1
  <2>3. CASE m # n
    <3>1. m \in writtenHere /\ m \in Names /\ contents'[m] = contents[m]
      BY <1>1, <2>3 DEF SpiffsInv, SpiffsTypes
    <3>2. contents[m] \in Nat
      BY <1>10, <3>1 DEF SpiffsInv, SpiffsTypes
    <3>3. Stretch(m, contents[m]) \subseteq EraseBlocks
      BY <3>1, <3>2, StretchGrows
    <3>4. \A b \in Stretch(m, contents[m]) : spiffs.writeCycles[b] > 0
      BY <1>10, <3>1 DEF SpiffsInv, Worn
    <3> QED BY <1>6, <2>1, <3>1, <3>3, <3>4
  <2> QED BY <2>2, <2>3
<1> QED BY <1>8, <1>9, <1>10 DEF SpiffsInv, Worn, Stretch

LEMMA DeleteKeepsSpiffs ==
  ASSUME SpiffsInv, NEW path, DeleteSpiffs(path)
  PROVE  SpiffsInv'
<1>1. PICK n \in Names :
        /\ contents[n] # Absent /\ contents' = [contents EXCEPT ![n] = Absent]
        /\ RecordWrite(n, contents[n]) /\ writtenHere' = writtenHere
  BY DEF DeleteSpiffs
<1>2. spiffs \in SpiffsObject /\ PartitionSize \in Nat
  BY SpiffsAssumption DEF DeleteSpiffs, Usable, SpiffsInv, SpiffsTypes
<1>3. /\ spiffs' \in SpiffsObject
      /\ \A b \in EraseBlocks : spiffs'.writeCycles[b] >= spiffs.writeCycles[b]
                               /\ spiffs.writeCycles[b] \in Nat /\ spiffs'.writeCycles[b] \in Nat
  BY <1>1, <1>2 DEF RecordWrite, SpiffsObject
<1>4. SpiffsTypes'
  BY <1>1, <1>3, NoneIsNoSpiffs DEF SpiffsInv, SpiffsTypes
<1>5. UsedBytes(Names)' <= PartitionSize
  <2>1. /\ UsedBytes(Names)' = UsedBytes(Names \ {n}) + SizeOf(n)' /\ SizeOf(n)' = 0
        /\ UsedBytes(Names) = UsedBytes(Names \ {n}) + SizeOf(n)
        /\ UsedBytes(Names \ {n}) \in Nat /\ SizeOf(n) \in Nat
    BY <1>1, SpiffsResized DEF SpiffsInv
  <2> HIDE DEF UsedBytes, SizeOf
  <2> QED BY <1>2, <2>1 DEF SpiffsInv
<1>6. ASSUME NEW m \in writtenHere', contents'[m] # Absent
      PROVE  \A b \in Stretch(m, contents'[m]) : spiffs'.writeCycles[b] > 0
  <2>1. m \in writtenHere /\ m \in Names /\ contents'[m] = contents[m]
    BY <1>1, <1>6 DEF SpiffsInv, SpiffsTypes
  <2>2. contents[m] \in Nat
    BY <1>6, <2>1 DEF SpiffsInv, SpiffsTypes
  <2>3. Stretch(m, contents[m]) \subseteq EraseBlocks
    BY <2>1, <2>2, StretchGrows
  <2>4. \A b \in Stretch(m, contents[m]) : spiffs.writeCycles[b] > 0
    BY <1>6, <2>1 DEF SpiffsInv, Worn
  <2> QED BY <1>3, <2>1, <2>3, <2>4
<1> QED BY <1>4, <1>5, <1>6 DEF SpiffsInv, Worn, Stretch

LEMMA FreshIsObject ==
  /\ Fresh \in SpiffsObject
  /\ \A s \in SpiffsObject : Mount(s) \in SpiffsObject /\ Mount(s).writeCycles = s.writeCycles
BY DEF Fresh, Mount, SpiffsObject

(* The calls that write no file. *)
LEMMA OthersKeepSpiffs ==
  ASSUME SpiffsInv,
         \/ MountSpiffs \/ MountCardOnly \/ FormatSpiffs \/ UnmountSpiffs \/ DropSpiffs
         \/ UNCHANGED spiffsVars
  PROVE  SpiffsInv'
<1>1. CASE FormatSpiffs
  <2>1. /\ contents' = [n \in Names |-> Absent] /\ writtenHere' = {}
        /\ spiffs' \in SpiffsObject
    BY <1>1, FreshIsObject DEF FormatSpiffs
  <2>2. (\A n \in Names : SizeOf(n) = 0)'
    BY <2>1 DEF SizeOf
  <2>3. UsedBytes(Names)' = 0
    <3>1. \A n \in Names : PartitionSizes'[n] = 0
      BY <2>2 DEF PartitionSizes
    <3> QED BY <3>1, UsedBytesIsSumNext, SumOfNothing, SpiffsAssumption
  <2> QED BY <2>1, <2>3, SpiffsAssumption, NoneIsNoSpiffs DEF SpiffsInv, SpiffsTypes
<1>2. ASSUME contents' = contents
      PROVE  UsedBytes(Names)' = UsedBytes(Names)
  <2>1. PartitionSizes' = PartitionSizes
    BY <1>2 DEF PartitionSizes, SizeOf
  <2> QED BY <2>1, UsedBytesIsSum, UsedBytesIsSumNext
<1>3. CASE DropSpiffs
  BY <1>2, <1>3 DEF DropSpiffs, SpiffsInv, SpiffsTypes
<1>4. CASE MountSpiffs \/ MountCardOnly \/ UnmountSpiffs \/ UNCHANGED spiffsVars
  <2>1. contents' = contents /\ writtenHere' = writtenHere
    BY <1>4 DEF MountSpiffs, MountCardOnly, UnmountSpiffs, spiffsVars
  <2>2. /\ spiffs' \in SpiffsObject \cup {NoSpiffs}
        /\ spiffs' = NoSpiffs => spiffs = NoSpiffs
        /\ spiffs # NoSpiffs => spiffs'.writeCycles = spiffs.writeCycles
    <3>1. CASE MountSpiffs
      <4>1. spiffs = NoSpiffs \/ spiffs \in SpiffsObject
        BY DEF SpiffsInv, SpiffsTypes
      <4>2. spiffs' = Mount(IF spiffs = NoSpiffs THEN Fresh ELSE spiffs)
        BY <3>1 DEF MountSpiffs
      <4> QED BY <4>1, <4>2, FreshIsObject, NoneIsNoSpiffs
    <3>2. CASE MountCardOnly
      BY <3>2, FreshIsObject, NoneIsNoSpiffs DEF MountCardOnly
    <3>3. CASE UnmountSpiffs
      BY <3>3, NoneIsNoSpiffs DEF UnmountSpiffs, SpiffsInv, SpiffsTypes, SpiffsObject
    <3>4. CASE UNCHANGED spiffsVars
      BY <3>4 DEF spiffsVars, SpiffsInv, SpiffsTypes
    <3> QED BY <1>4, <3>1, <3>2, <3>3, <3>4
  <2>3. SpiffsTypes'
    BY <2>1, <2>2 DEF SpiffsInv, SpiffsTypes
  <2>4. \A n \in writtenHere : spiffs # NoSpiffs
    BY DEF SpiffsInv, SpiffsTypes
  <2> QED BY <1>2, <2>1, <2>2, <2>3, <2>4 DEF SpiffsInv, Worn, Stretch
<1> QED BY <1>1, <1>3, <1>4

(* The invariant of the partition: types, files that fit, and worn blocks. *)
THEOREM SpiffsInvariant == SpiffsSpec => []SpiffsInv
<1>1. SpiffsOff => SpiffsInv
  <2> SUFFICES ASSUME SpiffsOff
               PROVE  SpiffsInv
    OBVIOUS
  <2>1. UsedBytes(Names) = 0
    BY NothingStored DEF SpiffsOff, SizeOf
  <2> QED BY <2>1, SpiffsAssumption DEF SpiffsOff, SpiffsInv, SpiffsTypes
<1>2. SpiffsInv /\ [SpiffsNext]_spiffsVars => SpiffsInv'
  BY WriteKeepsSpiffs, DeleteKeepsSpiffs, OthersKeepSpiffs DEF SpiffsNext
<1> QED BY <1>1, <1>2, PTL DEF SpiffsSpec

(* What a mounted partition reports as free is what its files leave of it, *)
(* and every block that a file of this object lies in was counted, around  *)
(* the end of the partition too and after shorter writes and removals      *)
(* (spiffs.rs:182 and 295).                                                *)
THEOREM PartitionAddsUp == SpiffsSpec => []SpiffsAccounts
<1>1. SpiffsInv => SpiffsAccounts
  <2> SUFFICES ASSUME SpiffsInv
               PROVE  SpiffsAccounts
    OBVIOUS
  <2> DEFINE used == UsedBytes(Names)
  <2>1. used \in Nat
    <3>1. \A n \in Names : PartitionSizes[n] \in Nat
      BY DEF PartitionSizes, SpiffsInv, SpiffsTypes, SizeOf
    <3> QED BY <3>1, UsedBytesIsSum, SumLaws, SpiffsAssumption
  <2>2. used <= PartitionSize /\ PartitionSize \in Nat
    BY SpiffsAssumption DEF SpiffsInv
  <2> HIDE DEF used
  <2>3. Min({used, PartitionSize}) = used
    <3>1. \A x \in {used, PartitionSize} :
            (\A n \in {used, PartitionSize} : x <= n) => x = used
      BY <2>1, <2>2
    <3>2. used \in {used, PartitionSize} /\ \A n \in {used, PartitionSize} : used <= n
      BY <2>1, <2>2
    <3> QED BY <3>1, <3>2 DEF Min
  <2>4. FreeBytes + used = PartitionSize
    BY <2>1, <2>2, <2>3 DEF FreeBytes, used
  <2> QED BY <2>4 DEF SpiffsAccounts, SpiffsInv, Worn, used
<1> QED BY <1>1, SpiffsInvariant, PTL
=============================================================================
