---------------------------- MODULE Gt911Proofs ----------------------------
(***************************************************************************)
(* What a touch controller keeps, for any number of instances, callers,    *)
(* points, rates and times: its types, the contact it shows, the exact     *)
(* share of failed reads, and, for firmware whose polls are whole, that no *)
(* lift is lost.                                                           *)
(***************************************************************************)
EXTENDS Gt911, TLAPS

(* What every method leaves true of the controller it runs on. *)
Good(c) ==
  /\ c \in Controller
  /\ c.ready => c.lastFrame # None
  /\ (c.frozen = None) <=> (c.frozenAt = None)
  /\ c.frozen # None => c.latch
  /\ c.contact = IF c.frozen # None THEN c.frozen ELSE c.physical

(* No contact, and no frame that says so. *)
Silent(c) == c.contact = None /\ ~c.ready

(* d comes after c: it is good, silent only if c was, and charged alike. *)
Follows(c, d) ==
  /\ Good(d)
  /\ Silent(d) => Silent(c)
  /\ d.rate = c.rate /\ d.accumulator = c.accumulator

LEMMA MarkedFollows ==
  ASSUME NEW c, Good(c)
  PROVE  Follows(c, Marked(c)) /\ Follows(c, MarkedUnlessStalled(c)) /\ Marked(c).ready
<1>1. c.now \in Nat /\ c.now # None
  BY TouchAssumption DEF Good, Controller
<1>2. Follows(c, Marked(c)) /\ Marked(c).ready
  BY <1>1 DEF Good, Follows, Silent, Marked, Controller, MaybeTime
<1>3. Follows(c, c)
  BY DEF Follows
<1> QED BY <1>2, <1>3 DEF MarkedUnlessStalled

LEMMA ArmedFollows ==
  ASSUME NEW c, Good(c)
  PROVE  Follows(c, Armed(c)) /\ Armed(c).contact = c.contact
<1>1. c.now \in Nat /\ c.stallMs \in Nat
  BY TouchAssumption DEF Good, Controller
<1> DEFINE stall == IF c.stallMs = 0 \/ c.contact = None THEN None
                    ELSE [from |-> c.now, until |-> c.now + c.stallMs]
<1>2. stall \in [from : Nat, until : Nat] \cup {None}
  BY <1>1
<1> HIDE DEF stall
<1>3. Armed(c) = [c EXCEPT !.stall = stall]
  BY DEF Armed, stall
<1> QED BY <1>2, <1>3 DEF Good, Follows, Silent, Controller

LEMMA WithStallFollows ==
  ASSUME NEW c, Good(c), NEW ms \in StallTimes
  PROVE  Follows(c, WithStall(c, ms))
<1> DEFINE d == [c EXCEPT !.stallMs = ms, !.fired = @ \ {"stall"}]
<1>1. Follows(c, d)
  BY DEF Good, Follows, Silent, Controller
<1> HIDE DEF d
<1>2. Follows(d, Armed(d))
  BY <1>1, ArmedFollows DEF Follows
<1>3. WithStall(c, ms) = Armed(d)
  BY DEF WithStall, d
<1> QED BY <1>1, <1>2, <1>3 DEF Follows

LEMMA WithLatchFollows ==
  ASSUME NEW c, Good(c), NEW on \in BOOLEAN
  PROVE  Follows(c, WithLatch(c, on))
<1>1. c.now \in Nat /\ c.now # None /\ c.contact \in MaybePoint
  BY TouchAssumption DEF Good, Controller
<1>2. CASE on
  <2> DEFINE d == [c EXCEPT !.latch = on, !.fired = @ \ {"phantom"}, !.frozen = c.contact,
                            !.frozenAt = IF c.contact = None THEN None ELSE c.now]
  <2>1. WithLatch(c, on) = d
    BY <1>2 DEF WithLatch, Good, Controller
  <2>2. Follows(c, d)
    BY <1>1, <1>2 DEF Good, Follows, Silent, Controller, MaybePoint, MaybeTime
  <2> QED BY <2>1, <2>2
<1>3. CASE ~on
  <2> DEFINE thawed == [c EXCEPT !.latch = on, !.fired = @ \ {"phantom"},
                                 !.frozen = None, !.frozenAt = None]
             d == [thawed EXCEPT !.contact = c.physical]
  <2>1. WithLatch(c, on) = IF c.latch THEN Marked(d) ELSE thawed
    BY <1>3 DEF WithLatch, Good, Controller
  <2>2. CASE c.latch
    <3>1. Good(d) /\ d.rate = c.rate /\ d.accumulator = c.accumulator
      BY <1>1, <1>3 DEF Good, Controller, MaybePoint, MaybeTime
    <3> HIDE DEF d, thawed
    <3>2. Follows(d, Marked(d)) /\ Marked(d).ready
      BY <3>1, MarkedFollows
    <3> QED BY <2>1, <2>2, <3>1, <3>2 DEF Follows, Silent
  <2>3. CASE ~c.latch
    <3>1. c.contact = c.physical
      BY <2>3 DEF Good
    <3>2. Follows(c, thawed)
      BY <1>3, <3>1 DEF Good, Follows, Silent, Controller, MaybePoint, MaybeTime
    <3> HIDE DEF thawed
    <3> QED BY <2>1, <2>3, <3>2
  <2> QED BY <2>2, <2>3
<1> QED BY <1>2, <1>3

LEMMA PressedFollows ==
  ASSUME NEW c, Good(c), NEW p \in Points
  PROVE  Follows(c, Pressed(c, p))
<1> DEFINE shown == IF c.latch /\ c.frozen # None THEN c.frozen ELSE p
           d == [c EXCEPT !.physical = p, !.contact = shown,
                          !.frozen = IF c.latch THEN shown ELSE @,
                          !.frozenAt = IF c.latch /\ @ = None THEN c.now ELSE @]
<1>1. c.now \in Nat /\ c.now # None /\ p # None
  BY TouchAssumption DEF Good, Controller
<1>2. shown \in Points
  BY DEF Good, Controller, MaybePoint
<1>3. Follows(c, d)
  BY ZenonT(40), <1>1, <1>2, TouchAssumption DEF Good, Follows, Silent, Controller, MaybePoint, MaybeTime
<1>4. Pressed(c, p) = IF c.contact = None THEN Marked(Armed(d)) ELSE MarkedUnlessStalled(d)
  BY DEF Pressed, Good, Controller
<1> HIDE DEF d
<1>5. Follows(d, Armed(d)) /\ Follows(d, MarkedUnlessStalled(d))
  BY <1>3, ArmedFollows, MarkedFollows DEF Follows
<1>6. Follows(Armed(d), Marked(Armed(d)))
  BY <1>5, MarkedFollows DEF Follows
<1> QED BY <1>3, <1>4, <1>5, <1>6 DEF Follows

LEMMA LiftedFollows ==
  ASSUME NEW c, Good(c)
  PROVE  Follows(c, Lifted(c))
<1>1. CASE c.latch /\ c.frozen # None
  <2> DEFINE d == [c EXCEPT !.physical = None, !.contact = c.frozen]
  <2>1. Follows(c, d)
    BY <1>1 DEF Good, Follows, Silent, Controller, MaybePoint
  <2>2. Lifted(c) = MarkedUnlessStalled(d)
    BY <1>1 DEF Lifted, Good, Controller
  <2> HIDE DEF d
  <2> QED BY <2>1, <2>2, MarkedFollows DEF Follows
<1>2. CASE ~(c.latch /\ c.frozen # None)
  <2> DEFINE d == [c EXCEPT !.physical = None, !.contact = None, !.stall = None,
                            !.frozen = None, !.frozenAt = None]
  <2>1. Good(d) /\ d.rate = c.rate /\ d.accumulator = c.accumulator
    BY DEF Good, Controller, MaybePoint, MaybeTime
  <2>2. Lifted(c) = Marked(d)
    BY <1>2 DEF Lifted, Good, Controller
  <2> HIDE DEF d
  <2>3. Follows(d, Marked(d)) /\ Marked(d).ready
    BY <2>1, MarkedFollows
  <2> QED BY <2>1, <2>2, <2>3 DEF Follows, Silent
<1> QED BY <1>1, <1>2

LEMMA TickedFollows ==
  ASSUME NEW c, Good(c), NEW t \in Nat
  PROVE  Follows(c, Ticked(c, t))
<1> DEFINE d == [c EXCEPT !.now = t]
           silent == /\ c.stall # None /\ ~c.ready
                     /\ c.stall.until > c.stall.from + FrameWatchdog
                     /\ t > c.stall.from + FrameWatchdog
           frozenLong == c.latch /\ c.frozenAt # None /\ t - c.frozenAt > PhantomWatchdog
           barks == (IF silent THEN {"stall"} ELSE {}) \cup (IF frozenLong THEN {"phantom"} ELSE {})
           e == [d EXCEPT !.fired = @ \cup (IF silent THEN {"stall"} ELSE {})
                                      \cup (IF frozenLong THEN {"phantom"} ELSE {})]
<1>1. Follows(c, d)
  BY DEF Good, Follows, Silent, Controller
<1>2. barks \subseteq {"bus", "stall", "phantom"}
  OBVIOUS
<1>3. e = [d EXCEPT !.fired = @ \cup barks]
  OBVIOUS
<1>4. Ticked(c, t) \in {d, e, MarkedUnlessStalled(e)}
  BY DEF Ticked
<1> HIDE DEF d, e, barks, silent, frozenLong
<1>5. Follows(d, e)
  BY <1>1, <1>2, <1>3 DEF Good, Follows, Silent, Controller
<1>6. Follows(e, MarkedUnlessStalled(e))
  BY <1>5, MarkedFollows DEF Follows
<1> QED BY <1>1, <1>4, <1>5, <1>6 DEF Follows

LEMMA WithRateGood ==
  ASSUME NEW c, Good(c), NEW rate \in 0..Whole
  PROVE  /\ Good(WithRate(c, rate))
         /\ Silent(WithRate(c, rate)) => Silent(c)
         /\ WithRate(c, rate).rate = rate /\ WithRate(c, rate).accumulator = 0
<1>1. 0 \in 0..(Whole - 1)
  BY TouchAssumption
<1> QED BY <1>1 DEF WithRate, Good, Silent, Controller

LEMMA NewControllerGood ==
  ASSUME NEW config \in Config
  PROVE  Good(NewController(config)) /\ NewController(config).accumulator = 0
<1> DEFINE fresh == [contact |-> None, physical |-> None, ready |-> FALSE, lastFrame |-> None,
                     now |-> 0, rate |-> 0, accumulator |-> 0, failures |-> 0,
                     stallMs |-> 0, stall |-> None, latch |-> FALSE,
                     frozen |-> None, frozenAt |-> None, fired |-> {}]
           rated == WithRate(fresh, config.rate)
           stalled == WithStall(rated, config.stall)
<1>1. config.rate \in 0..Whole /\ config.stall \in StallTimes /\ config.latch \in BOOLEAN
  BY DEF Config
<1>2. 0 \in 0..Whole /\ 0 \in 0..(Whole - 1) /\ 0 \in StallTimes
  BY TouchAssumption
<1>3. Good(fresh)
  BY <1>2 DEF Good, Controller, MaybePoint, MaybeTime
<1>4. NewController(config) = WithLatch(stalled, config.latch)
  BY DEF NewController
<1> HIDE DEF fresh
<1>5. Good(rated) /\ rated.accumulator = 0
  BY <1>1, <1>3, WithRateGood
<1> HIDE DEF rated
<1>6. Follows(rated, stalled)
  BY <1>1, <1>5, WithStallFollows
<1> HIDE DEF stalled
<1>7. Follows(stalled, WithLatch(stalled, config.latch))
  BY <1>1, <1>6, WithLatchFollows DEF Follows
<1> QED BY <1>4, <1>5, <1>6, <1>7 DEF Follows

(* A read charges the rate, and pays back a whole failure when it fails.   *)
LEMMA ReadGood ==
  ASSUME NEW c, Good(c)
  PROVE  /\ Good(Read(c))
         /\ Read(c).contact = c.contact /\ Read(c).ready = c.ready
         /\ Read(c).rate = c.rate
         /\ Read(c).accumulator = c.accumulator + c.rate - (IF FailsRead(c) THEN Whole ELSE 0)
<1> DEFINE n == IF c.contact = None THEN 0 ELSE c.failures + 1
           barks == IF c.contact # None /\ n >= BusWatchdog THEN {"bus"} ELSE {}
<1>1. /\ c.accumulator \in 0..(Whole - 1) /\ c.rate \in 0..Whole
      /\ n \in Nat /\ barks \subseteq {"bus", "stall", "phantom"}
  BY DEF Good, Controller
<1>2. CASE ~FailsRead(c)
  <2>1. c.accumulator + c.rate \in 0..(Whole - 1)
    BY <1>1, <1>2, TouchAssumption DEF FailsRead
  <2>2. Read(c) = [c EXCEPT !.accumulator = c.accumulator + c.rate, !.failures = 0]
    BY <1>2 DEF Read, Good, Controller
  <2>3. Read(c) \in Controller
    <3> DEFINE charged == c.accumulator + c.rate
    <3>1. charged \in 0..(Whole - 1) /\ Read(c) = [c EXCEPT !.accumulator = charged, !.failures = 0]
      BY <2>1, <2>2
    <3>2. c \in Controller /\ 0 \in Nat
      BY DEF Good
    <3> HIDE DEF charged
    <3> QED BY <3>1, <3>2 DEF Controller
  <2>4. c.accumulator + c.rate = c.accumulator + c.rate - 0
    BY <1>1
  <2> QED BY <1>2, <2>2, <2>3, <2>4 DEF Good, Controller
<1>3. CASE FailsRead(c)
  <2>1. c.accumulator + c.rate - Whole \in 0..(Whole - 1)
    BY <1>1, <1>3, TouchAssumption DEF FailsRead
  <2>2. Read(c) = [c EXCEPT !.accumulator = c.accumulator + c.rate - Whole, !.failures = n,
                            !.fired = @ \cup barks]
    BY <1>3 DEF Read, Good, Controller
  <2> HIDE DEF n, barks
  <2>3. Read(c) \in Controller
    BY <1>1, <2>1, <2>2 DEF Good, Controller
  <2> QED BY <1>3, <2>2, <2>3 DEF Good, Controller
<1> QED BY <1>2, <1>3

LEMMA AcknowledgedGood ==
  ASSUME NEW c, Good(c)
  PROVE  /\ Good(Acknowledged(c)) /\ Acknowledged(c).contact = c.contact
         /\ Acknowledged(c).rate = c.rate /\ Acknowledged(c).accumulator = c.accumulator
BY DEF Acknowledged, Good, Controller

-----------------------------------------------------------------------------
(* The inductive invariant.  The account of the failures: what the reads   *)
(* were charged is what the failures paid and what the accumulator still   *)
(* owes.  And with whole polls, firmware is told of no contact while       *)
(* nothing is there and nothing says so.                                   *)
Account(i) == reads[i] * ctl[i].rate = failed[i] * Whole + ctl[i].accumulator
Told(i) == ~SplitPolls => ~reading[i] /\ (Silent(ctl[i]) => seen[i] = None)
Kept(i) == Good(ctl[i]) /\ Account(i) /\ Told(i)

(* Nothing was read of a controller that is not there. *)
Unread(i) == reads[i] = 0 /\ failed[i] = 0 /\ seen[i] = None

IInv ==
  /\ TouchTypeOK
  /\ \A i \in Live : Kept(i)
  /\ \A i \in Instances \ Live : Unread(i)

LEMMA InitInv == Init => IInv
<1> SUFFICES ASSUME Init PROVE IInv
  OBVIOUS
<1>1. Live = {}
  BY DEF Init, Live
<1>2. NoFailures \in Config
  BY TouchAssumption DEF NoFailures, Config
<1> QED BY <1>1, <1>2 DEF Init, IInv, TouchTypeOK, MaybePoint, Unread

(* A step that changes one controller, and nothing firmware or the         *)
(* callers know of it.                                                     *)
LEMMA OneController ==
  ASSUME IInv, NEW i \in Live, NEW d, Good(d), ctl' = [ctl EXCEPT ![i] = d]
  PROVE  /\ Live' = Live
         /\ ctl' \in [Instances -> Controller \cup {None}]
         /\ ctl'[i] = d
         /\ \A j \in Live : j # i => ctl'[j] = ctl[j]
<1>1. d \in Controller /\ d # None
  BY NoneAssumption DEF Good
<1>2. ctl \in [Instances -> Controller \cup {None}] /\ i \in Instances
  BY DEF IInv, TouchTypeOK, Live
<1> QED BY <1>1, <1>2 DEF Live

(* A step under which no contact falls silent unheard. *)
LEMMA QuietStep ==
  ASSUME \A j \in Live' : Silent(ctl'[j]) => \/ j \in Live /\ Silent(ctl[j]) /\ seen'[j] = seen[j]
                                             \/ seen'[j] = None
                                             \/ reading[j] /\ ~reading'[j]
  PROVE  Announces
BY DEF Announces, Unheard, Silent

(* The types of what a step of the host or of the clock leaves alone. *)
LEMMA ControllersKeepTypes ==
  ASSUME IInv, UNCHANGED registryVars, UNCHANGED firmwareVars,
         Live' = Live, ctl' \in [Instances -> Controller \cup {None}],
         simNow' \in Nat, touches' \in Nat,
         \A j \in Live : Follows(ctl[j], ctl'[j])
  PROVE  IInv' /\ Announces
<1>1. \A j \in Live : Kept(j)'
  <2> SUFFICES ASSUME NEW j \in Live PROVE Kept(j)'
    OBVIOUS
  <2>1. Kept(j) /\ Follows(ctl[j], ctl'[j])
    BY DEF IInv
  <2>2. reads' = reads /\ failed' = failed /\ seen' = seen /\ reading' = reading
    BY DEF firmwareVars
  <2>3. Account(j)'
    BY <2>1, <2>2 DEF Kept, Account, Follows
  <2>4. Told(j)'
    BY <2>1, <2>2 DEF Kept, Told, Follows, Silent
  <2> QED BY <2>1, <2>3, <2>4 DEF Kept, Follows, Good
<1>2. TouchTypeOK'
  <2>1. \A j \in Live' : Good(ctl[j])'
    BY <1>1 DEF Kept
  <2> QED BY <2>1 DEF IInv, TouchTypeOK, Good, registryVars, firmwareVars
<1>3. \A j \in Instances \ Live' : Unread(j)'
  BY DEF IInv, Unread, firmwareVars
<1>4. Announces
  BY QuietStep DEF Follows, firmwareVars
<1> QED BY <1>1, <1>2, <1>3, <1>4 DEF IInv

LEMMA CreateInv ==
  ASSUME IInv, NEW i \in Instances, Create(i)
  PROVE  IInv' /\ Announces
<1> DEFINE d == NewController(ConfigOf(i))
<1>1. ConfigOf(i) \in Config
  BY NoneAssumption DEF ConfigOf, IInv, TouchTypeOK
<1>2. Good(d) /\ d.accumulator = 0
  BY <1>1, NewControllerGood
<1>3. ctl' = [ctl EXCEPT ![i] = d] /\ ctl[i] = None
  BY DEF Create
<1> HIDE DEF d
<1>4. d \in Controller /\ d # None /\ d.rate \in Nat
  BY <1>2, NoneAssumption, TouchAssumption DEF Good, Controller
<1>5. Live' = Live \cup {i} /\ ctl'[i] = d /\ ctl' \in [Instances -> Controller \cup {None}]
  BY <1>3, <1>4 DEF Live, IInv, TouchTypeOK
<1>6. \A j \in Live : j # i /\ ctl'[j] = ctl[j]
  BY <1>3 DEF Live, IInv, TouchTypeOK
<1>7. ~reading[i] /\ Unread(i)
  BY <1>3 DEF IInv, TouchTypeOK, Live
<1>8. UNCHANGED <<globalConfig, ownConfig, pending, settings, simNow, touches>>
      /\ UNCHANGED <<reading, seen, reads, failed, polls>>
  BY DEF Create, registryVars, firmwareVars
<1>9. Kept(i)'
  <2>1. Account(i)'
    BY <1>2, <1>4, <1>5, <1>7, <1>8, TouchAssumption DEF Account, Unread
  <2> QED BY <1>2, <1>5, <1>7, <1>8, <2>1 DEF Kept, Told, Unread, Good
<1>10. \A j \in Live : Kept(j)'
  BY <1>6, <1>8 DEF IInv, Kept, Good, Account, Told, Silent
<1>11. TouchTypeOK'
  <2>1. \A j \in Live' : Good(ctl[j])'
    BY <1>5, <1>9, <1>10 DEF Kept
  <2> QED BY <1>5, <1>8, <2>1 DEF IInv, TouchTypeOK, Good
<1>12. \A j \in Instances \ Live' : Unread(j)'
  BY <1>5, <1>8 DEF IInv, Unread
<1>13. Announces
  BY <1>5, <1>6, <1>7, <1>8, QuietStep DEF Unread
<1> QED BY <1>5, <1>9, <1>10, <1>11, <1>12, <1>13 DEF IInv

LEMMA RemoveManagerInv ==
  ASSUME IInv, NEW i \in Instances, RemoveManager(i)
  PROVE  IInv' /\ Announces
<1>1. /\ ctl' = [ctl EXCEPT ![i] = None] /\ ~reading[i]
      /\ touches' = touches + 1
      /\ UNCHANGED <<globalConfig, ownConfig, settings, simNow, reading, polls>>
      /\ seen' = [seen EXCEPT ![i] = None]
      /\ reads' = [reads EXCEPT ![i] = 0] /\ failed' = [failed EXCEPT ![i] = 0]
  BY DEF RemoveManager
<1>2. /\ Live' = Live \ {i} /\ ctl' \in [Instances -> Controller \cup {None}]
      /\ \A j \in Live' : ctl'[j] = ctl[j]
  BY <1>1 DEF Live, IInv, TouchTypeOK
<1>3. \A j \in Instances \ {i} : reads'[j] = reads[j] /\ failed'[j] = failed[j] /\ seen'[j] = seen[j]
  BY <1>1 DEF IInv, TouchTypeOK
<1>4. \A j \in Live' : Kept(j)'
  <2> SUFFICES ASSUME NEW j \in Live' PROVE Kept(j)'
    OBVIOUS
  <2>1. j \in Instances /\ j # i /\ Kept(j) /\ ctl'[j] = ctl[j]
    BY <1>2 DEF IInv, Live
  <2> QED BY <1>1, <1>3, <2>1 DEF Kept, Good, Account, Told, Silent
<1>5. \A j \in Instances \ Live' : Unread(j)'
  <2> SUFFICES ASSUME NEW j \in Instances \ Live' PROVE Unread(j)'
    OBVIOUS
  <2>1. CASE j = i
    BY <1>1, <2>1 DEF Unread, IInv, TouchTypeOK
  <2>2. CASE j # i
    BY <1>2, <1>3, <2>2 DEF Unread, IInv
  <2> QED BY <2>1, <2>2
<1>6. /\ pending' \in [Callers -> Work \cup {None}]
      /\ \A c \in Callers : pending'[c] # None => pending'[c].left \subseteq Live'
  <2>1. pending' = [c \in Callers |-> IF pending[c] = None THEN None
                                       ELSE [pending[c] EXCEPT !.left = @ \ {i}]]
    BY DEF RemoveManager
  <2>2. ASSUME NEW c \in Callers, pending[c] # None
        PROVE  /\ [pending[c] EXCEPT !.left = @ \ {i}] \in Work
               /\ [pending[c] EXCEPT !.left = @ \ {i}].left \subseteq Live'
    <3>1. pending[c] \in Work /\ pending[c].left \subseteq Live
      BY <2>2 DEF IInv, TouchTypeOK
    <3> QED BY <1>2, <3>1 DEF Work
  <2> QED BY <2>1, <2>2
<1>7. TouchTypeOK'
  <2>1. \A j \in Live' : Good(ctl[j])'
    BY <1>4 DEF Kept
  <2>2. seen' \in [Instances -> MaybePoint] /\ reads' \in [Instances -> Nat]
        /\ failed' \in [Instances -> Nat] /\ touches' \in Nat
    BY <1>1 DEF IInv, TouchTypeOK, MaybePoint
  <2> QED BY <1>1, <1>2, <1>6, <2>1, <2>2 DEF IInv, TouchTypeOK, Good
<1>8. Announces
  <2>1. \A j \in Live' : j \in Live /\ j \in Instances \ {i}
    BY <1>2 DEF Live
  <2> QED BY <1>2, <1>3, <2>1, QuietStep
<1> QED BY <1>4, <1>5, <1>7, <1>8 DEF IInv

LEMMA SettingTypes ==
  ASSUME NEW s \in Settings
  PROVE  /\ s.mode = "rate" => s.value \in 0..Whole
         /\ s.mode = "stall" => s.value \in StallTimes
         /\ s.mode = "latch" => s.value \in BOOLEAN
         /\ s.mode \in {"rate", "stall", "latch"}
<1>1. \A v \in RateValues : (IF v > Whole THEN Whole ELSE v) \in 0..Whole
  BY TouchAssumption
<1> QED BY <1>1 DEF Settings

LEMMA SetInConfig ==
  ASSUME NEW config \in Config, NEW s \in Settings
  PROVE  SetIn(config, s) \in Config
BY SettingTypes DEF SetIn, Config

(* A step that only writes the registry. *)
LEMMA RegistryKeepsInv ==
  ASSUME IInv, UNCHANGED <<ctl, simNow, touches>>, UNCHANGED firmwareVars,
         globalConfig' \in Config, ownConfig' \in [Instances -> Config \cup {None}],
         settings' \in Nat, pending' \in [Callers -> Work \cup {None}],
         \A c \in Callers : pending'[c] # None => pending'[c].left \subseteq Live
  PROVE  IInv' /\ Announces
<1>1. Live' = Live
  BY DEF Live
<1>2. TouchTypeOK'
  BY <1>1 DEF IInv, TouchTypeOK, firmwareVars
<1>3. Announces
  BY <1>1, QuietStep DEF firmwareVars
<1> QED BY <1>1, <1>2, <1>3 DEF IInv, Kept, Good, Account, Told, Silent, Unread, firmwareVars

LEMMA SetForInstanceInv ==
  ASSUME IInv, NEW c \in Callers, NEW i \in Instances, NEW s \in Settings,
         SetForInstance(c, i, s)
  PROVE  IInv' /\ Announces
<1> DEFINE work == [manager |-> i, setting |-> s, left |-> {i}]
<1>1. ConfigOf(i) \in Config
  BY NoneAssumption DEF ConfigOf, IInv, TouchTypeOK
<1>2. SetIn(ConfigOf(i), s) \in Config
  BY <1>1, SetInConfig
<1>3. work \in Work /\ work.left \subseteq Live
  BY DEF SetForInstance, Work, Live
<1>4. pending' = [pending EXCEPT ![c] = work]
  BY DEF SetForInstance
<1> HIDE DEF work
<1>5. /\ pending' \in [Callers -> Work \cup {None}]
      /\ \A k \in Callers : pending'[k] # None => pending'[k].left \subseteq Live
  BY <1>3, <1>4 DEF IInv, TouchTypeOK
<1>6. /\ UNCHANGED <<globalConfig, ctl, simNow, touches>> /\ UNCHANGED firmwareVars
      /\ settings' = settings + 1
      /\ ownConfig' = [ownConfig EXCEPT ![i] = SetIn(ConfigOf(i), s)]
  BY DEF SetForInstance
<1>7. /\ globalConfig' \in Config /\ ownConfig' \in [Instances -> Config \cup {None}]
      /\ settings' \in Nat
  BY <1>2, <1>6 DEF IInv, TouchTypeOK
<1> QED BY <1>5, <1>6, <1>7, RegistryKeepsInv

LEMMA SetGlobalInv ==
  ASSUME IInv, NEW c \in Callers, NEW s \in Settings, SetGlobal(c, s)
  PROVE  IInv' /\ Announces
<1> DEFINE work == [manager |-> None, setting |-> s, left |-> Live]
<1>1. work \in Work /\ work.left \subseteq Live
  BY DEF Work, Live
<1>2. pending' = [pending EXCEPT ![c] = work]
  BY DEF SetGlobal
<1> HIDE DEF work
<1>3. /\ pending' \in [Callers -> Work \cup {None}]
      /\ \A k \in Callers : pending'[k] # None => pending'[k].left \subseteq Live
  BY <1>1, <1>2 DEF IInv, TouchTypeOK
<1>4. /\ UNCHANGED <<ctl, simNow, touches>> /\ UNCHANGED firmwareVars
      /\ settings' = settings + 1 /\ globalConfig' = SetIn(globalConfig, s)
      /\ ownConfig' = [i \in Instances |->
                         IF ownConfig[i] = None THEN None ELSE SetIn(ownConfig[i], s)]
  BY DEF SetGlobal
<1>5. /\ globalConfig' \in Config /\ ownConfig' \in [Instances -> Config \cup {None}]
      /\ settings' \in Nat
  BY <1>4, SetInConfig DEF IInv, TouchTypeOK
<1> QED BY <1>3, <1>4, <1>5, RegistryKeepsInv

LEMMA AppliedInv ==
  ASSUME IInv, NEW c \in Callers, Applied(c)
  PROVE  IInv' /\ Announces
<1>1. /\ pending' = [pending EXCEPT ![c] = None]
      /\ UNCHANGED <<globalConfig, ownConfig, settings, ctl, simNow, touches>>
      /\ UNCHANGED firmwareVars
  BY DEF Applied
<1>2. /\ pending' \in [Callers -> Work \cup {None}]
      /\ \A k \in Callers : pending'[k] # None => pending'[k].left \subseteq Live
  BY <1>1 DEF IInv, TouchTypeOK
<1>3. /\ globalConfig' \in Config /\ ownConfig' \in [Instances -> Config \cup {None}]
      /\ settings' \in Nat
  BY <1>1 DEF IInv, TouchTypeOK
<1> QED BY <1>1, <1>2, <1>3, RegistryKeepsInv

LEMMA InjectTouchInv ==
  ASSUME IInv, NEW i \in Instances, NEW p \in Points \cup {None}, InjectTouch(i, p)
  PROVE  IInv' /\ Announces
<1> DEFINE d == IF p = None THEN Lifted(ctl[i]) ELSE Pressed(ctl[i], p)
<1>1. i \in Live /\ Good(ctl[i])
  BY DEF InjectTouch, Live, IInv, Kept
<1>2. Follows(ctl[i], d)
  BY <1>1, LiftedFollows, PressedFollows
<1>3. ctl' = [ctl EXCEPT ![i] = d]
  BY DEF InjectTouch
<1> HIDE DEF d
<1>4. /\ Live' = Live /\ ctl' \in [Instances -> Controller \cup {None}]
      /\ ctl'[i] = d /\ \A j \in Live : j # i => ctl'[j] = ctl[j]
  BY <1>1, <1>2, <1>3, OneController DEF Follows
<1>5. \A j \in Live : Follows(ctl[j], ctl'[j])
  BY <1>2, <1>4 DEF Follows, IInv, Kept
<1>6. /\ UNCHANGED registryVars /\ UNCHANGED firmwareVars
      /\ simNow' \in Nat /\ touches' \in Nat
  BY DEF InjectTouch, IInv, TouchTypeOK
<1> QED BY <1>4, <1>5, <1>6, ControllersKeepTypes

LEMMA TickAllInv ==
  ASSUME IInv, TickAll
  PROVE  IInv' /\ Announces
<1> DEFINE t == simNow + FrameMs
<1>1. t \in Nat
  BY TouchAssumption DEF IInv, TouchTypeOK
<1>2. /\ simNow' = t /\ UNCHANGED registryVars /\ UNCHANGED firmwareVars /\ touches' \in Nat
      /\ ctl' = [i \in Instances |-> IF i \in Live THEN Ticked(ctl[i], t) ELSE None]
  BY DEF TickAll, IInv, TouchTypeOK
<1> HIDE DEF t
<1>3. \A j \in Live : Follows(ctl[j], Ticked(ctl[j], t))
  BY <1>1, TickedFollows DEF IInv, Kept
<1>4. \A j \in Live : Ticked(ctl[j], t) \in Controller /\ Ticked(ctl[j], t) # None
  BY <1>3, NoneAssumption DEF Follows, Good
<1>5. Live' = Live /\ ctl' \in [Instances -> Controller \cup {None}]
  BY <1>2, <1>4 DEF Live
<1>6. \A j \in Live : Follows(ctl[j], ctl'[j])
  BY <1>2, <1>3 DEF Live
<1> QED BY <1>1, <1>2, <1>5, <1>6, ControllersKeepTypes

(* A setting reaches a controller: a new rate opens a new account. *)
LEMMA ApplyInv ==
  ASSUME IInv, NEW c \in Callers, Apply(c)
  PROVE  IInv' /\ Announces
<1> DEFINE s == pending[c].setting
           restart == s.mode = "rate"
<1>1. pending[c] # None /\ pending[c] \in Work /\ s \in Settings /\ pending[c].left \subseteq Live
  BY DEF Apply, IInv, TouchTypeOK, Work
<1>2. PICK i \in pending[c].left :
        /\ ctl' = [ctl EXCEPT ![i] = ApplyTo(ctl[i], s)]
        /\ pending' = [pending EXCEPT ![c].left = @ \ {i}]
        /\ reads' = IF restart THEN [reads EXCEPT ![i] = 0] ELSE reads
        /\ failed' = IF restart THEN [failed EXCEPT ![i] = 0] ELSE failed
  BY DEF Apply
<1>3. UNCHANGED <<globalConfig, ownConfig, settings, simNow, reading, seen, polls, touches>>
  BY DEF Apply
<1>4. i \in Live /\ i \in Instances /\ Kept(i)
  BY <1>1 DEF IInv, Live
<1> DEFINE d == ApplyTo(ctl[i], s)
<1>5. /\ Good(d) /\ (Silent(d) => Silent(ctl[i]))
      /\ IF restart THEN d.accumulator = 0 /\ d.rate \in 0..Whole
         ELSE d.rate = ctl[i].rate /\ d.accumulator = ctl[i].accumulator
  <2>1. Good(ctl[i])
    BY <1>4 DEF Kept
  <2>2. CASE s.mode = "rate"
    <3>1. d = WithRate(ctl[i], s.value) /\ s.value \in 0..Whole
      BY <1>1, <2>2, SettingTypes DEF ApplyTo
    <3> QED BY <2>1, <2>2, <3>1, WithRateGood
  <2>3. CASE s.mode = "stall"
    <3>1. d = WithStall(ctl[i], s.value) /\ s.value \in StallTimes
      BY <1>1, <2>3, SettingTypes DEF ApplyTo
    <3> QED BY <2>1, <2>3, <3>1, WithStallFollows DEF Follows
  <2>4. CASE s.mode = "latch"
    <3>1. d = WithLatch(ctl[i], s.value) /\ s.value \in BOOLEAN
      BY <1>1, <2>4, SettingTypes DEF ApplyTo
    <3> QED BY <2>1, <2>4, <3>1, WithLatchFollows DEF Follows
  <2> QED BY <1>1, <2>2, <2>3, <2>4, SettingTypes
<1>6. ctl' = [ctl EXCEPT ![i] = d]
  BY <1>2
<1> HIDE DEF d
<1>7. /\ Live' = Live /\ ctl' \in [Instances -> Controller \cup {None}]
      /\ ctl'[i] = d /\ \A j \in Live : j # i => ctl'[j] = ctl[j]
  BY <1>4, <1>5, <1>6, OneController
<1>8. /\ reads' \in [Instances -> Nat] /\ failed' \in [Instances -> Nat]
      /\ \A j \in Instances : j # i => reads'[j] = reads[j] /\ failed'[j] = failed[j]
      /\ IF restart THEN reads'[i] = 0 /\ failed'[i] = 0
         ELSE reads'[i] = reads[i] /\ failed'[i] = failed[i]
  BY <1>2, <1>4 DEF IInv, TouchTypeOK
<1> HIDE DEF restart
<1>9. Kept(i)'
  <2>1. Account(i)'
    <3>1. CASE restart
      <4>1. d.accumulator = 0 /\ d.rate \in Nat /\ Whole \in Nat
        BY <1>5, <3>1, TouchAssumption
      <4>2. reads'[i] = 0 /\ failed'[i] = 0 /\ ctl'[i] = d
        BY <1>7, <1>8, <3>1
      <4>3. 0 * d.rate = 0 * Whole + 0
        BY <4>1
      <4> QED BY <4>1, <4>2, <4>3 DEF Account
    <3>2. CASE ~restart
      BY <1>4, <1>5, <1>7, <1>8, <3>2 DEF Account, Kept
    <3> QED BY <3>1, <3>2
  <2>2. Told(i)'
    BY <1>3, <1>4, <1>5, <1>7 DEF Kept, Told, Silent
  <2> QED BY <1>5, <1>7, <2>1, <2>2 DEF Kept, Good
<1>10. \A j \in Live : j # i => Kept(j)'
  <2> SUFFICES ASSUME NEW j \in Live, j # i PROVE Kept(j)'
    OBVIOUS
  <2>1. Kept(j) /\ j \in Instances /\ ctl'[j] = ctl[j]
        /\ reads'[j] = reads[j] /\ failed'[j] = failed[j]
    BY <1>7, <1>8 DEF IInv, Live
  <2> QED BY <1>3, <2>1 DEF Kept, Good, Account, Told, Silent
<1>11. \A j \in Instances \ Live' : Unread(j)'
  BY <1>3, <1>4, <1>7, <1>8 DEF IInv, Unread
<1>12. /\ pending' \in [Callers -> Work \cup {None}]
       /\ \A k \in Callers : pending'[k] # None => pending'[k].left \subseteq Live
  <2> DEFINE work == [pending[c] EXCEPT !.left = @ \ {i}]
  <2>1. work \in Work /\ work.left \subseteq Live
    BY <1>1 DEF Work
  <2>2. pending' = [pending EXCEPT ![c] = work]
    BY <1>2 DEF IInv, TouchTypeOK
  <2> HIDE DEF work
  <2> QED BY <2>1, <2>2 DEF IInv, TouchTypeOK
<1>13. TouchTypeOK'
  <2>1. \A j \in Live' : Good(ctl[j])'
    BY <1>7, <1>9, <1>10 DEF Kept
  <2> QED BY <1>3, <1>7, <1>8, <1>12, <2>1 DEF IInv, TouchTypeOK, Good
<1>14. Announces
  BY <1>3, <1>5, <1>7, QuietStep
<1> QED BY <1>7, <1>9, <1>10, <1>11, <1>13, <1>14 DEF IInv

LEMMA ReadStatusInv ==
  ASSUME IInv, NEW i \in Instances, ReadStatus(i)
  PROVE  IInv' /\ Announces
<1> DEFINE told == ~FailsRead(ctl[i]) /\ ctl[i].ready
<1>0. PICK later \in {FALSE, SplitPolls} :
        /\ ctl' = [ctl EXCEPT ![i] = IF told /\ ~later THEN Acknowledged(Read(@)) ELSE Read(@)]
        /\ seen' = IF told THEN [seen EXCEPT ![i] = ctl[i].contact] ELSE seen
        /\ reading' = [reading EXCEPT ![i] = told /\ later]
  BY DEF ReadStatus
<1> DEFINE d == IF told /\ ~later THEN Acknowledged(Read(ctl[i])) ELSE Read(ctl[i])
<1>1. /\ ctl' = [ctl EXCEPT ![i] = d]
      /\ seen' = IF told THEN [seen EXCEPT ![i] = ctl[i].contact] ELSE seen
      /\ reading' = [reading EXCEPT ![i] = told /\ later]
      /\ reads' = [reads EXCEPT ![i] = @ + 1]
      /\ failed' = IF FailsRead(ctl[i]) THEN [failed EXCEPT ![i] = @ + 1] ELSE failed
      /\ polls' = polls + 1
      /\ UNCHANGED <<registryVars, simNow, touches>>
  BY <1>0 DEF ReadStatus, IInv, TouchTypeOK
<1>2. i \in Live /\ Kept(i) /\ ~reading[i]
  BY DEF ReadStatus, Live, IInv
<1>3. /\ Good(ctl[i]) /\ ctl[i].contact \in MaybePoint /\ told \in BOOLEAN
      /\ later \in BOOLEAN /\ (~SplitPolls => ~later)
  <2>1. Good(ctl[i]) /\ ctl[i].contact \in MaybePoint
    BY <1>2 DEF Kept, Good, Controller
  <2>2. told \in BOOLEAN
    BY <2>1, Zenon DEF Good, Controller
  <2>3. later \in BOOLEAN /\ (~SplitPolls => ~later)
    <3>1. later = FALSE \/ later = SplitPolls
      OBVIOUS
    <3>2. CASE later = FALSE
      BY <3>2
    <3>3. CASE later = SplitPolls
      BY <3>3, TouchAssumption
    <3> QED BY <3>1, <3>2, <3>3
  <2> QED BY <2>1, <2>2, <2>3
<1>4. /\ Good(d) /\ d.rate = ctl[i].rate /\ d.contact = ctl[i].contact
      /\ d.accumulator = ctl[i].accumulator + ctl[i].rate - (IF FailsRead(ctl[i]) THEN Whole ELSE 0)
      /\ ~told => d.ready = ctl[i].ready
  <2>1. Good(Read(ctl[i]))
    BY <1>3, ReadGood
  <2> QED BY <1>3, <2>1, ReadGood, AcknowledgedGood
<1> HIDE DEF d
<1>5. /\ Live' = Live /\ ctl' \in [Instances -> Controller \cup {None}]
      /\ ctl'[i] = d /\ \A j \in Live : j # i => ctl'[j] = ctl[j]
  BY <1>1, <1>2, <1>4, OneController
<1>6. /\ reads' \in [Instances -> Nat] /\ failed' \in [Instances -> Nat]
      /\ seen' \in [Instances -> MaybePoint] /\ reading' \in [Instances -> BOOLEAN]
      /\ reads'[i] = reads[i] + 1
      /\ failed'[i] = IF FailsRead(ctl[i]) THEN failed[i] + 1 ELSE failed[i]
      /\ seen'[i] = IF told THEN ctl[i].contact ELSE seen[i]
      /\ reading'[i] = (told /\ later)
  BY <1>1, <1>3, TouchAssumption DEF IInv, TouchTypeOK
<1>7. \A j \in Instances : j # i => /\ reads'[j] = reads[j] /\ failed'[j] = failed[j]
                                   /\ seen'[j] = seen[j] /\ reading'[j] = reading[j]
  BY <1>1 DEF IInv, TouchTypeOK
(* One more read, which fails or not: the account stays even. *)
<1>8. Account(i)'
  <2> DEFINE r == reads[i]
             k == ctl[i].rate
             f == failed[i]
             a == ctl[i].accumulator
  <2>1. /\ r \in Nat /\ k \in Nat /\ f \in Nat /\ Whole \in Nat /\ a \in Nat
        /\ r * k = f * Whole + a
    BY <1>2, TouchAssumption DEF IInv, TouchTypeOK, Kept, Good, Controller, Account
  <2> HIDE DEF r, k, f, a
  <2>2. /\ (r + 1) * k = f * Whole + (a + k - 0)
        /\ (r + 1) * k = (f + 1) * Whole + (a + k - Whole)
    <3>1. (r + 1) * k = r * k + k /\ r * k \in Nat
      BY <2>1
    <3>2. (f + 1) * Whole = f * Whole + Whole /\ f * Whole \in Nat
      BY <2>1
    <3> QED BY <2>1, <3>1, <3>2
  <2> USE DEF r, k, f, a
  <2> QED BY <1>4, <1>5, <1>6, <2>2 DEF Account
<1>9. Told(i)'
  <2>1. ASSUME ~SplitPolls, Silent(d) PROVE seen'[i] = None
    <3>1. CASE told
      BY <1>4, <1>6, <2>1, <3>1 DEF Silent
    <3>2. CASE ~told
      BY <1>2, <1>4, <1>6, <2>1, <3>2 DEF Silent, Kept, Told
    <3> QED BY <3>1, <3>2
  <2> QED BY <1>3, <1>5, <1>6, <2>1 DEF Told, Silent
<1>10. Kept(i)'
  BY <1>4, <1>5, <1>8, <1>9 DEF Kept, Good
<1>11. \A j \in Live : j # i => Kept(j)'
  <2> SUFFICES ASSUME NEW j \in Live, j # i PROVE Kept(j)'
    OBVIOUS
  <2>1. Kept(j) /\ j \in Instances /\ ctl'[j] = ctl[j]
    BY <1>5 DEF IInv, Live
  <2> QED BY <1>7, <2>1 DEF Kept, Good, Account, Told, Silent
<1>12. \A j \in Instances \ Live' : Unread(j)'
  BY <1>2, <1>5, <1>7 DEF IInv, Unread
<1>13. TouchTypeOK'
  <2>1. \A j \in Live' : Good(ctl[j])'
    BY <1>5, <1>10, <1>11 DEF Kept
  <2>2. \A j \in Instances : reading'[j] => j \in Live'
    BY <1>2, <1>5, <1>7 DEF IInv, TouchTypeOK
  <2> QED BY <1>1, <1>5, <1>6, <2>1, <2>2 DEF IInv, TouchTypeOK, Good, registryVars
<1>14. Announces
  <2>1. ASSUME Silent(d) PROVE (Silent(ctl[i]) /\ seen'[i] = seen[i]) \/ seen'[i] = None
    BY <1>4, <1>6, <2>1 DEF Silent
  <2>2. \A j \in Live : j \in Instances
    BY DEF Live
  <2> QED BY <1>2, <1>5, <1>7, <2>1, <2>2, QuietStep
<1> QED BY <1>5, <1>10, <1>11, <1>12, <1>13, <1>14 DEF IInv

LEMMA AcknowledgeInv ==
  ASSUME IInv, NEW i \in Instances, Acknowledge(i)
  PROVE  IInv' /\ Announces
<1> DEFINE d == Acknowledged(ctl[i])
<1>1. /\ reading[i] /\ reading' = [reading EXCEPT ![i] = FALSE]
      /\ ctl' = [ctl EXCEPT ![i] = d]
      /\ UNCHANGED <<registryVars, simNow, seen, reads, failed, polls, touches>>
  BY DEF Acknowledge
<1>2. i \in Live /\ Kept(i) /\ SplitPolls
  BY <1>1, TouchAssumption DEF IInv, TouchTypeOK, Kept, Told
<1>3. Good(d) /\ d.rate = ctl[i].rate /\ d.accumulator = ctl[i].accumulator
  BY <1>2, AcknowledgedGood DEF Kept
<1> HIDE DEF d
<1>4. /\ Live' = Live /\ ctl' \in [Instances -> Controller \cup {None}]
      /\ ctl'[i] = d /\ \A j \in Live : j # i => ctl'[j] = ctl[j]
  BY <1>1, <1>2, <1>3, OneController
<1>5. \A j \in Live : Kept(j)'
  <2> SUFFICES ASSUME NEW j \in Live PROVE Kept(j)'
    OBVIOUS
  <2>1. Kept(j) /\ (IF j = i THEN ctl'[j] = d ELSE ctl'[j] = ctl[j])
    BY <1>4 DEF IInv
  <2>2. Account(j)'
    BY <1>1, <1>3, <2>1 DEF Kept, Account
  <2>3. Told(j)'
    BY <1>2 DEF Told
  <2> QED BY <1>3, <2>1, <2>2, <2>3 DEF Kept, Good
<1>6. TouchTypeOK'
  <2>1. \A j \in Live' : Good(ctl[j])'
    BY <1>4, <1>5 DEF Kept
  <2> QED BY <1>1, <1>4, <2>1 DEF IInv, TouchTypeOK, Good, registryVars
<1>7. \A j \in Instances \ Live' : Unread(j)'
  BY <1>1, <1>4 DEF IInv, Unread
<1>8. Announces
  <2>1. ~reading'[i]
    BY <1>1, <1>2 DEF IInv, TouchTypeOK, Live
  <2> QED BY <1>1, <1>4, <2>1, QuietStep
<1> QED BY <1>4, <1>5, <1>6, <1>7, <1>8 DEF IInv

LEMMA StepInv == IInv /\ [Next]_touchVars => IInv' /\ Announces
<1> SUFFICES ASSUME IInv, [Next]_touchVars PROVE IInv' /\ Announces
  OBVIOUS
<1>1. ASSUME NEW i \in Instances,
             Create(i) \/ RemoveManager(i) \/ ReadStatus(i) \/ Acknowledge(i)
      PROVE  IInv' /\ Announces
  BY <1>1, CreateInv, RemoveManagerInv, ReadStatusInv, AcknowledgeInv
<1>2. ASSUME NEW i \in Instances, NEW p \in Points \cup {None}, InjectTouch(i, p) PROVE IInv' /\ Announces
  BY <1>2, InjectTouchInv
<1>3. ASSUME NEW c \in Callers, NEW i \in Instances, NEW s \in Settings, SetForInstance(c, i, s)
      PROVE  IInv' /\ Announces
  BY <1>3, SetForInstanceInv
<1>4. ASSUME NEW c \in Callers, NEW s \in Settings, SetGlobal(c, s) PROVE IInv' /\ Announces
  BY <1>4, SetGlobalInv
<1>5. ASSUME NEW c \in Callers, Apply(c) \/ Applied(c) PROVE IInv' /\ Announces
  BY <1>5, ApplyInv, AppliedInv
<1>6. CASE TickAll
  BY <1>6, TickAllInv
<1>7. CASE UNCHANGED touchVars
  <2>1. Live' = Live
    BY <1>7 DEF touchVars, Live
  <2>2. Announces
    BY <1>7, <2>1, QuietStep DEF touchVars, firmwareVars
  <2> QED BY <1>7, <2>1, <2>2 DEF touchVars, registryVars, firmwareVars, IInv, TouchTypeOK,
                            Kept, Good, Account, Told, Silent, Unread
<1> QED BY <1>1, <1>2, <1>3, <1>4, <1>5, <1>6, <1>7 DEF Next

THEOREM Invariant == Spec => []IInv
BY InitInv, StepInv, PTL DEF Spec

-----------------------------------------------------------------------------
(* The types, and which controllers wait for a setting. *)
THEOREM TouchTypes == Spec => []TouchTypeOK
<1>1. IInv => TouchTypeOK
  BY DEF IInv
<1> QED BY <1>1, Invariant, PTL

(* "Freeze the first pressed point and continue reporting it until         *)
(* disabled" (gt911.rs:174): the contact is the frozen one while there is  *)
(* one, and otherwise what the host's pointer does.                        *)
THEOREM ShownContact == Spec => []ShownContactIsRight
<1>1. IInv => ShownContactIsRight
  BY DEF IInv, ShownContactIsRight, Kept, Good
<1> QED BY <1>1, Invariant, PTL

(* "An exact percentage of status reads fail" (gt911.rs:154), at every     *)
(* rate and after any number of reads.                                     *)
THEOREM ExactFailures == Spec => []FailuresAreExact
<1>1. IInv => FailuresAreExact
  <2> SUFFICES ASSUME IInv, NEW i \in Live
               PROVE  reads[i] * ctl[i].rate - failed[i] * Whole \in 0..(Whole - 1)
    BY DEF FailuresAreExact
  <2> DEFINE owed == ctl[i].accumulator
             paid == failed[i] * Whole
  <2>1. /\ reads[i] * ctl[i].rate = paid + owed /\ owed \in 0..(Whole - 1)
        /\ failed[i] \in Nat /\ Whole \in Nat
    BY TouchAssumption DEF IInv, TouchTypeOK, Kept, Account, Good, Controller, Live
  <2>2. paid \in Nat
    BY <2>1
  <2> HIDE DEF owed, paid
  <2>3. (paid + owed) - paid = owed
    BY <2>1, <2>2
  <2> QED BY <2>1, <2>3 DEF paid
<1> QED BY <1>1, Invariant, PTL

(* Only firmware itself loses a lift, with an acknowledgement later than   *)
(* its read (gt911.rs:352).                                                *)
THEOREM LiftsSurviveFailureModes == Spec => OnlyLateAcknowledgementsLose
BY InitInv, StepInv, PTL DEF Spec, OnlyLateAcknowledgementsLose

(* "A zero-contact frame is the real GT911 lift notification"              *)
(* (gt911.rs:257): firmware that reads and acknowledges a frame before     *)
(* anything else happens to the controller is told of every lift.          *)
THEOREM NoLiftIsLost ==
  ASSUME ~SplitPolls
  PROVE  Spec => []LiftIsAnnounced
<1>1. IInv => LiftIsAnnounced
  BY DEF IInv, LiftIsAnnounced, Unheard, Live, Kept, Told, Silent
<1> QED BY <1>1, Invariant, PTL

-----------------------------------------------------------------------------
(* What of a controller comes from the registry; the failure modes alone   *)
(* change it, and as they change a configuration.                          *)
SettingsOf(c) == [rate |-> c.rate, stall |-> c.stallMs, latch |-> c.latch]

LEMMA MarksKeepSettings ==
  ASSUME NEW c \in Controller
  PROVE  /\ SettingsOf(Marked(c)) = SettingsOf(c)
         /\ SettingsOf(MarkedUnlessStalled(c)) = SettingsOf(c)
         /\ SettingsOf(Armed(c)) = SettingsOf(c)
<1>1. SettingsOf(Marked(c)) = SettingsOf(c)
  BY DEF SettingsOf, Marked, Controller
<1>2. SettingsOf(Armed(c)) = SettingsOf(c)
  BY DEF SettingsOf, Armed, Controller
<1> QED BY <1>1, <1>2 DEF MarkedUnlessStalled

LEMMA MethodsKeepSettings ==
  ASSUME NEW c, Good(c)
  PROVE  /\ \A p \in Points : SettingsOf(Pressed(c, p)) = SettingsOf(c)
         /\ SettingsOf(Lifted(c)) = SettingsOf(c)
         /\ \A t \in Nat : SettingsOf(Ticked(c, t)) = SettingsOf(c)
         /\ SettingsOf(Read(c)) = SettingsOf(c)
         /\ SettingsOf(Acknowledged(c)) = SettingsOf(c)
<1>1. c \in Controller
  BY DEF Good
<1>2. SettingsOf(Read(c)) = SettingsOf(c) /\ SettingsOf(Acknowledged(c)) = SettingsOf(c)
  BY <1>1 DEF SettingsOf, Read, Acknowledged, Controller
<1>3. ASSUME NEW p \in Points PROVE SettingsOf(Pressed(c, p)) = SettingsOf(c)
  BY <1>1 DEF SettingsOf, Pressed, Marked, MarkedUnlessStalled, Armed, Controller
<1>4. SettingsOf(Lifted(c)) = SettingsOf(c)
  BY <1>1 DEF SettingsOf, Lifted, Marked, MarkedUnlessStalled, Controller
<1>5. ASSUME NEW t \in Nat PROVE SettingsOf(Ticked(c, t)) = SettingsOf(c)
  BY <1>1 DEF SettingsOf, Ticked, Marked, MarkedUnlessStalled, Controller
<1> QED BY <1>2, <1>3, <1>4, <1>5

LEMMA ModesSetSettings ==
  ASSUME NEW c, Good(c), NEW s \in Settings
  PROVE  SettingsOf(ApplyTo(c, s)) = SetIn(SettingsOf(c), s)
<1>1. c \in Controller
  BY DEF Good
<1>2. CASE s.mode = "rate"
  BY <1>1, <1>2 DEF SettingsOf, ApplyTo, SetIn, WithRate, Controller
<1>3. CASE s.mode = "stall"
  BY <1>1, <1>3 DEF SettingsOf, ApplyTo, SetIn, WithStall, Armed, Controller
<1>4. CASE s.mode = "latch"
  BY <1>1, <1>4 DEF SettingsOf, ApplyTo, SetIn, WithLatch, Marked, Controller
<1> QED BY <1>2, <1>3, <1>4, SettingTypes

LEMMA NewControllerSettings ==
  ASSUME NEW config \in Config
  PROVE  SettingsOf(NewController(config)) = config
<1> DEFINE fresh == [contact |-> None, physical |-> None, ready |-> FALSE, lastFrame |-> None,
                     now |-> 0, rate |-> 0, accumulator |-> 0, failures |-> 0,
                     stallMs |-> 0, stall |-> None, latch |-> FALSE,
                     frozen |-> None, frozenAt |-> None, fired |-> {}]
           c == WithLatch(WithStall(WithRate(fresh, config.rate), config.stall), config.latch)
<1>1. c.rate = config.rate /\ c.stallMs = config.stall /\ c.latch = config.latch
  BY DEF WithRate, WithStall, WithLatch, Armed, Marked
<1>2. config = [rate |-> config.rate, stall |-> config.stall, latch |-> config.latch]
  BY DEF Config
<1>3. NewController(config) = c
  BY DEF NewController
<1> HIDE DEF c
<1> QED BY <1>1, <1>2, <1>3 DEF SettingsOf

(* A controller has what the registry has for it, or a call is on its way  *)
(* that will give it just that.                                            *)
Waits(i) == \E c \in Callers : pending[c] # None /\ i \in pending[c].left
Configured(i) ==
  /\ ~Waits(i) => SettingsOf(ctl[i]) = ConfigOf(i)
  /\ \A c \in Callers : pending[c] # None /\ i \in pending[c].left =>
       SetIn(SettingsOf(ctl[i]), pending[c].setting) = ConfigOf(i)
ConfigInv == \A i \in Live : Configured(i)

(* Steps that concern neither the registry nor any setting. *)
LEMMA OthersKeepSettings ==
  ASSUME ConfigInv, UNCHANGED registryVars, Live' = Live,
         \A i \in Live : SettingsOf(ctl'[i]) = SettingsOf(ctl[i])
  PROVE  ConfigInv'
<1> SUFFICES ASSUME NEW i \in Live
             PROVE  Configured(i)'
  BY DEF ConfigInv
<1>1. pending' = pending /\ ConfigOf(i)' = ConfigOf(i)
  BY DEF registryVars, ConfigOf
<1>2. SettingsOf(ctl[i])' = SettingsOf(ctl[i])
  BY DEF SettingsOf
<1>3. Waits(i)' <=> Waits(i)
  BY <1>1 DEF Waits
<1>4. Configured(i)
  BY DEF ConfigInv
<1>5. ~Waits(i)' => (SettingsOf(ctl[i]) = ConfigOf(i))'
  BY <1>1, <1>2, <1>3, <1>4 DEF Configured
<1>6. ASSUME NEW c \in Callers, pending'[c] # None, i \in pending'[c].left
      PROVE  (SetIn(SettingsOf(ctl[i]), pending[c].setting) = ConfigOf(i))'
  <2>1. SetIn(SettingsOf(ctl[i]), pending[c].setting) = ConfigOf(i)
    BY <1>1, <1>4, <1>6 DEF Configured
  <2>2. SetIn(SettingsOf(ctl[i]), pending[c].setting)' = SetIn(SettingsOf(ctl[i]), pending[c].setting)
    BY <1>1, <1>2 DEF SetIn
  <2> QED BY <2>1, <2>2, <1>1
<1> QED BY <1>5, <1>6 DEF Configured

(* One setting more, and each controller concerned has it coming. *)
LEMMA SetGlobalSettles ==
  ASSUME IInv, ConfigInv, NEW c \in Callers, NEW s \in Settings, SetGlobal(c, s),
         \A d \in Callers : d = c
  PROVE  ConfigInv'
<1>1. /\ pending[c] = None
      /\ pending' = [pending EXCEPT ![c] = [manager |-> None, setting |-> s, left |-> Live]]
      /\ globalConfig' = SetIn(globalConfig, s)
      /\ ownConfig' = [i \in Instances |->
                         IF ownConfig[i] = None THEN None ELSE SetIn(ownConfig[i], s)]
      /\ UNCHANGED ctl
  BY DEF SetGlobal
<1>2. /\ pending'[c] = [manager |-> None, setting |-> s, left |-> Live] /\ pending'[c] # None
  <2>1. [manager |-> None, setting |-> s, left |-> Live] \in Work
    BY DEF Work, Live
  <2> QED BY <1>1, <2>1, NoneAssumption DEF IInv, TouchTypeOK
<1>3. Live' = Live
  BY <1>1 DEF Live
<1> SUFFICES ASSUME NEW i \in Live PROVE Configured(i)'
  BY <1>3 DEF ConfigInv
<1>4. SettingsOf(ctl[i]) = ConfigOf(i)
  BY <1>1 DEF ConfigInv, Configured, Waits
<1>5. i \in Instances /\ (ownConfig[i] # None => SetIn(ownConfig[i], s) # None)
  BY SetInConfig, NoneAssumption DEF Live, IInv, TouchTypeOK
<1>6. ConfigOf(i)' = SetIn(ConfigOf(i), s)
  BY <1>1, <1>5 DEF ConfigOf
<1>7. pending'[c].setting = s /\ i \in pending'[c].left
  BY <1>2
<1> QED BY <1>1, <1>2, <1>4, <1>6, <1>7 DEF Configured, Waits

LEMMA SetForInstanceSettles ==
  ASSUME IInv, ConfigInv, NEW c \in Callers, NEW i \in Instances, NEW s \in Settings,
         SetForInstance(c, i, s), \A d \in Callers : d = c
  PROVE  ConfigInv'
<1>1. /\ pending[c] = None
      /\ pending' = [pending EXCEPT ![c] = [manager |-> i, setting |-> s, left |-> {i}]]
      /\ ownConfig' = [ownConfig EXCEPT ![i] = SetIn(ConfigOf(i), s)]
      /\ UNCHANGED <<ctl, globalConfig>>
  BY DEF SetForInstance
<1>2. /\ pending'[c] = [manager |-> i, setting |-> s, left |-> {i}] /\ pending'[c] # None
  <2>1. [manager |-> i, setting |-> s, left |-> {i}] \in Work
    BY DEF Work
  <2> QED BY <1>1, <2>1, NoneAssumption DEF IInv, TouchTypeOK
<1>3. Live' = Live
  BY <1>1 DEF Live
<1> SUFFICES ASSUME NEW j \in Live PROVE Configured(j)'
  BY <1>3 DEF ConfigInv
<1>4. SettingsOf(ctl[j]) = ConfigOf(j) /\ j \in Instances
  BY <1>1 DEF ConfigInv, Configured, Waits, Live
<1>5. ConfigOf(i) \in Config
  BY NoneAssumption DEF ConfigOf, IInv, TouchTypeOK
<1>6. SetIn(ConfigOf(i), s) # None
  BY <1>5, SetInConfig, NoneAssumption
<1>7. ConfigOf(j)' = IF j = i THEN SetIn(ConfigOf(i), s) ELSE ConfigOf(j)
  BY <1>1, <1>4, <1>6 DEF ConfigOf, IInv, TouchTypeOK
<1>8. pending'[c].setting = s /\ pending'[c].left = {i}
  BY <1>2
<1> QED BY <1>1, <1>2, <1>4, <1>7, <1>8 DEF Configured, Waits

(* A setting that is given to a controller is no longer on its way to it. *)
LEMMA ApplySettles ==
  ASSUME IInv, ConfigInv, NEW c \in Callers, Apply(c), \A d \in Callers : d = c
  PROVE  ConfigInv'
<1> DEFINE s == pending[c].setting
<1>1. /\ pending[c] # None /\ pending[c] \in Work /\ s \in Settings /\ pending[c].left \subseteq Live
      /\ UNCHANGED <<globalConfig, ownConfig>>
  BY DEF Apply, IInv, TouchTypeOK, Work
<1>2. PICK i \in pending[c].left :
        /\ ctl' = [ctl EXCEPT ![i] = ApplyTo(ctl[i], s)]
        /\ pending' = [pending EXCEPT ![c].left = @ \ {i}]
  BY DEF Apply
<1>3. i \in Live /\ i \in Instances /\ Good(ctl[i])
  BY <1>1 DEF IInv, Live, Kept
<1>4. /\ pending'[c] = [pending[c] EXCEPT !.left = @ \ {i}] /\ pending'[c] # None
  <2>1. [pending[c] EXCEPT !.left = @ \ {i}] \in Work
    BY <1>1 DEF Work
  <2> QED BY <1>2, <2>1, NoneAssumption DEF IInv, TouchTypeOK
<1>5. pending'[c].setting = s /\ pending'[c].left = pending[c].left \ {i}
  BY <1>1, <1>4 DEF Work
<1>6. ctl \in [Instances -> Controller \cup {None}]
  BY DEF IInv, TouchTypeOK
<1>7. SettingsOf(ctl'[i]) = SetIn(SettingsOf(ctl[i]), s)
  BY <1>1, <1>2, <1>3, <1>6, ModesSetSettings
<1>8. Live' \subseteq Live
  BY <1>2, <1>3, <1>6 DEF Live
<1> SUFFICES ASSUME NEW j \in Live PROVE Configured(j)'
  BY <1>8 DEF ConfigInv
<1>9. ConfigOf(j)' = ConfigOf(j)
  BY <1>1 DEF ConfigOf
<1>10. CASE j = i
  <2>1. SetIn(SettingsOf(ctl[i]), s) = ConfigOf(i)
    BY <1>1, <1>3 DEF ConfigInv, Configured
  <2>2. i \notin pending'[c].left
    BY <1>5
  <2> QED BY <1>7, <1>9, <1>10, <2>1, <2>2 DEF Configured
<1>11. CASE j # i
  <2>1. ctl'[j] = ctl[j] /\ Configured(j)
    BY <1>2, <1>6, <1>11 DEF Live, ConfigInv
  <2>2. j \in pending'[c].left <=> j \in pending[c].left
    BY <1>5, <1>11
  <2> QED BY <1>1, <1>4, <1>5, <1>9, <2>1, <2>2 DEF Configured, Waits, SettingsOf
<1> QED BY <1>10, <1>11

LEMMA AppliedSettles ==
  ASSUME IInv, ConfigInv, NEW c \in Callers, Applied(c), \A d \in Callers : d = c
  PROVE  ConfigInv'
<1>1. /\ pending[c] # None /\ pending[c].left = {} /\ pending' = [pending EXCEPT ![c] = None]
      /\ UNCHANGED <<ctl, globalConfig, ownConfig>>
  BY DEF Applied
<1>2. pending'[c] = None /\ Live' = Live
  BY <1>1 DEF IInv, TouchTypeOK, Live
<1> QED BY <1>1, <1>2 DEF ConfigInv, Configured, Waits, ConfigOf, SettingsOf

LEMMA CreateSettles ==
  ASSUME IInv, ConfigInv, NEW i \in Instances, Create(i)
  PROVE  ConfigInv'
<1>1. ConfigOf(i) \in Config
  BY NoneAssumption DEF ConfigOf, IInv, TouchTypeOK
<1>2. /\ ctl' = [ctl EXCEPT ![i] = NewController(ConfigOf(i))] /\ ctl[i] = None
      /\ UNCHANGED registryVars
  BY DEF Create
<1>3. ctl'[i] = NewController(ConfigOf(i)) /\ \A j \in Live' : j # i => j \in Live /\ ctl'[j] = ctl[j]
  BY <1>2 DEF IInv, TouchTypeOK, Live
<1>4. SettingsOf(ctl'[i]) = ConfigOf(i)
  BY <1>1, <1>3, NewControllerSettings
<1>5. ~Waits(i)
  BY <1>2 DEF IInv, TouchTypeOK, Waits, Live
<1>6. Configured(i)'
  BY <1>2, <1>4, <1>5 DEF Configured, Waits, ConfigOf, SettingsOf, registryVars
<1>7. ASSUME NEW j \in Live', j # i PROVE Configured(j)'
  BY <1>2, <1>3, <1>7 DEF ConfigInv, Configured, Waits, ConfigOf, SettingsOf, registryVars
<1> QED BY <1>6, <1>7 DEF ConfigInv

LEMMA RemoveManagerSettles ==
  ASSUME IInv, ConfigInv, NEW i \in Instances, RemoveManager(i)
  PROVE  ConfigInv'
<1>1. /\ ctl' = [ctl EXCEPT ![i] = None] /\ UNCHANGED <<globalConfig, ownConfig>>
      /\ pending' = [c \in Callers |->
                       IF pending[c] = None THEN None ELSE [pending[c] EXCEPT !.left = @ \ {i}]]
  BY DEF RemoveManager
<1>2. ASSUME NEW c \in Callers, pending[c] # None
      PROVE  /\ pending'[c] # None /\ pending'[c].setting = pending[c].setting
             /\ pending'[c].left = pending[c].left \ {i}
  <2>1. pending[c] \in Work
    BY <1>2 DEF IInv, TouchTypeOK
  <2>2. [pending[c] EXCEPT !.left = @ \ {i}] \in Work
    BY <2>1 DEF Work
  <2> QED BY <1>1, <1>2, <2>1, <2>2, NoneAssumption DEF Work
<1>3. \A c \in Callers : pending[c] = None => pending'[c] = None
  BY <1>1
<1> SUFFICES ASSUME NEW j \in Live' PROVE Configured(j)'
  BY DEF ConfigInv
<1>4. j # i /\ j \in Live /\ ctl'[j] = ctl[j]
  BY <1>1 DEF IInv, TouchTypeOK, Live
<1>5. Configured(j)
  BY <1>4 DEF ConfigInv
<1>6. ConfigOf(j)' = ConfigOf(j)
  BY <1>1 DEF ConfigOf
<1> QED BY <1>2, <1>3, <1>4, <1>5, <1>6 DEF Configured, Waits, SettingsOf

LEMMA OtherStepsSettle ==
  ASSUME IInv, ConfigInv, NEW i \in Instances,
         ReadStatus(i) \/ Acknowledge(i) \/ (\E p \in Points \cup {None} : InjectTouch(i, p))
  PROVE  ConfigInv'
<1>1. i \in Live /\ Good(ctl[i]) /\ ctl \in [Instances -> Controller \cup {None}]
  <2>1. i \in Live
    BY DEF ReadStatus, Acknowledge, InjectTouch, Live, IInv, TouchTypeOK
  <2> QED BY <2>1 DEF IInv, Kept, TouchTypeOK
<1>2. PICK d : /\ ctl' = [ctl EXCEPT ![i] = d] /\ Good(d)
               /\ SettingsOf(d) = SettingsOf(ctl[i])
  <2>1. CASE ReadStatus(i)
    <3>1. Good(Read(ctl[i])) /\ SettingsOf(Read(ctl[i])) = SettingsOf(ctl[i])
      BY <1>1, ReadGood, MethodsKeepSettings
    <3>2. /\ Good(Acknowledged(Read(ctl[i])))
          /\ SettingsOf(Acknowledged(Read(ctl[i]))) = SettingsOf(ctl[i])
      BY <3>1, AcknowledgedGood, MethodsKeepSettings
    <3>3. \/ ctl' = [ctl EXCEPT ![i] = Read(ctl[i])]
          \/ ctl' = [ctl EXCEPT ![i] = Acknowledged(Read(ctl[i]))]
      BY <2>1, <1>1 DEF ReadStatus
    <3> QED BY <3>1, <3>2, <3>3
  <2>2. CASE Acknowledge(i)
    BY <1>1, <2>2, AcknowledgedGood, MethodsKeepSettings DEF Acknowledge
  <2>3. ASSUME NEW p \in Points \cup {None}, InjectTouch(i, p)
        PROVE  \E d : /\ ctl' = [ctl EXCEPT ![i] = d] /\ Good(d)
                      /\ SettingsOf(d) = SettingsOf(ctl[i])
    <3>1. CASE p = None
      <4>1. ctl' = [ctl EXCEPT ![i] = Lifted(ctl[i])]
        BY <1>1, <2>3, <3>1 DEF InjectTouch
      <4> QED BY <1>1, <4>1, LiftedFollows, MethodsKeepSettings DEF Follows
    <3>2. CASE p # None
      <4>1. ctl' = [ctl EXCEPT ![i] = Pressed(ctl[i], p)]
        BY <1>1, <2>3, <3>2 DEF InjectTouch
      <4> QED BY <1>1, <3>2, <4>1, PressedFollows, MethodsKeepSettings DEF Follows
    <3> QED BY <3>1, <3>2
  <2> QED BY <2>1, <2>2, <2>3
<1>3. UNCHANGED registryVars
  BY DEF ReadStatus, Acknowledge, InjectTouch
<1>4. /\ Live' = Live /\ ctl'[i] = d /\ \A j \in Live : j # i => ctl'[j] = ctl[j]
  BY <1>1, <1>2, OneController
<1> QED BY <1>2, <1>3, <1>4, OthersKeepSettings

LEMMA TickSettles ==
  ASSUME IInv, ConfigInv, TickAll
  PROVE  ConfigInv'
<1> DEFINE t == simNow + FrameMs
<1>1. t \in Nat
  BY TouchAssumption DEF IInv, TouchTypeOK
<1>2. /\ UNCHANGED registryVars
      /\ ctl' = [i \in Instances |-> IF i \in Live THEN Ticked(ctl[i], t) ELSE None]
  BY DEF TickAll
<1> HIDE DEF t
<1>3. \A j \in Live : /\ SettingsOf(Ticked(ctl[j], t)) = SettingsOf(ctl[j])
                      /\ Good(Ticked(ctl[j], t))
  BY <1>1, MethodsKeepSettings, TickedFollows DEF IInv, Kept, Follows
<1>4. \A j \in Live : Ticked(ctl[j], t) # None
  BY <1>3, NoneAssumption DEF Good
<1>5. Live' = Live /\ \A j \in Live : ctl'[j] = Ticked(ctl[j], t)
  BY <1>2, <1>4 DEF Live
<1> QED BY <1>2, <1>3, <1>5, OthersKeepSettings

LEMMA StepSettles ==
  ASSUME IInv, ConfigInv, [Next]_touchVars, \A c, d \in Callers : c = d
  PROVE  ConfigInv'
<1>1. ASSUME NEW i \in Instances,
             Create(i) \/ RemoveManager(i) \/ ReadStatus(i) \/ Acknowledge(i)
      PROVE  ConfigInv'
  BY <1>1, CreateSettles, RemoveManagerSettles, OtherStepsSettle
<1>2. ASSUME NEW i \in Instances, NEW p \in Points \cup {None}, InjectTouch(i, p) PROVE ConfigInv'
  BY <1>2, OtherStepsSettle
<1>3. ASSUME NEW c \in Callers, NEW i \in Instances, NEW s \in Settings, SetForInstance(c, i, s)
      PROVE  ConfigInv'
  BY <1>3, SetForInstanceSettles
<1>4. ASSUME NEW c \in Callers, NEW s \in Settings, SetGlobal(c, s) PROVE ConfigInv'
  BY <1>4, SetGlobalSettles
<1>5. ASSUME NEW c \in Callers, Apply(c) \/ Applied(c) PROVE ConfigInv'
  BY <1>5, ApplySettles, AppliedSettles
<1>6. CASE TickAll
  BY <1>6, TickSettles
<1>7. CASE UNCHANGED touchVars
  BY <1>7 DEF touchVars, registryVars, ConfigInv, Configured, Waits, ConfigOf, SettingsOf, Live
<1> QED BY <1>1, <1>2, <1>3, <1>4, <1>5, <1>6, <1>7 DEF Next

(* A failure mode is for "live and future controllers" (gt911.rs:489,516), *)
(* if one caller at a time sets modes: whatever is created, destroyed,     *)
(* touched and read while it goes from controller to controller, they all  *)
(* have the registry's settings when it is done.  The set and the apply    *)
(* of two callers may cross.                                               *)
THEOREM SettingsArrive ==
  (\A c, d \in Callers : c = d) => (Spec => []SettingsReachControllers)
<1> SUFFICES ASSUME \A c, d \in Callers : c = d
             PROVE  Spec => []SettingsReachControllers
  OBVIOUS
<1>1. Init => ConfigInv
  BY DEF Init, ConfigInv, Live
<1>2. IInv /\ ConfigInv /\ [Next]_touchVars => ConfigInv'
  BY StepSettles
<1>3. ConfigInv => SettingsReachControllers
  BY DEF ConfigInv, Configured, Waits, SettingsReachControllers, SettingsOf
<1> QED BY Invariant, <1>1, <1>2, <1>3, PTL DEF Spec
=============================================================================
