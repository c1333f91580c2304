--------------------------- MODULE MCRadioBridge ---------------------------
(***************************************************************************)
(* Instances of RadioBridge for TLC: see MCRadioBus for the levels.        *)
(***************************************************************************)
EXTENDS RadioBridge, TLC

CONSTANTS a, b, c, here, there, sf7

MCGain == [p \in Positions |-> [q \in Positions |-> IF p = q THEN 100 ELSE 10]]
MCSensitivity == [ch \in Channels |-> 10]
MCSameBand == Channels \X Channels
Symmetry == Permutations(Nodes)

(* Three radios that stay created, with their RF switches driven: only     *)
(* sends, reads, sleeps and frames.                                        *)
StandingNode(position) ==
  [position |-> position, txPower |-> 1, channel |-> sf7, inbox |-> << >>,
   busyUntil |-> 0, rxEnabled |-> TRUE, dio2 |-> TRUE]

StandingInit ==
  /\ \E at \in [Nodes -> Positions] : nodes = [n \in Nodes |-> StandingNode(at[n])]
  /\ unfinished = {} /\ finished = {} /\ nowMs = 0
  /\ sent = 0 /\ air = {} /\ received = [n \in Nodes |-> {}]
  /\ nodeIds = Nodes
  /\ handle = [n \in Nodes |-> [pending |-> << >>]]
  /\ sleepRequests = [n \in Nodes |-> 0]
  /\ busLock = << >>
  /\ simNow = 0 /\ gt911Now = 0 /\ phase = "idle"
  /\ taken = [n \in Nodes |-> << >>]

StandingNext ==
  \/ \E n \in Nodes, t \in Airtimes : StartSend(n, t)
  \/ \E n \in Nodes : RecvRaw(n) \/ RecvTruncated(n)
  \/ \E n \in Nodes, d \in SleepTimes : SleepBegin(n, d)
  \/ \E n \in Nodes : SleepTick(n) \/ SleepEnd(n)
  \/ RunLoops
  \/ BusTick

StandingSpec == StandingInit /\ [][StandingNext]_allVars

(* Radios come, send, sleep and go; reads decide nothing about sending. *)
SendingNext ==
  \/ \E n \in Nodes : RadioCreate(n, here, 1, sf7) \/ RadioDestroy(n)
  \/ \E n \in Nodes, t \in Airtimes : StartSend(n, t)
  \/ \E n \in Nodes, d \in SleepTimes : SleepBegin(n, d)
  \/ \E n \in Nodes : SleepTick(n) \/ SleepEnd(n)
  \/ RunLoops
  \/ BusTick

FairSendingSpec == BridgeInit /\ [][SendingNext]_allVars /\ Fairness
=============================================================================
