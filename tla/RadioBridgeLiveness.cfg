\* Two instances under fair frames: every send ends.
CONSTANTS
  a = a
  b = b
  c = c
  here = here
  there = there
  sf7 = sf7
  Nodes = {a, b}
  Channels = {sf7}
  Positions = {here}
  TxPowers = {1}
  Airtimes = {1, 2}
  Gain <- MCGain
  Sensitivity <- MCSensitivity
  SameBand <- MCSameBand
  CaptureRatio = 4
  Dio2TxLoss = 40
  Dio2RxLoss = 2
  NoNode = NoNode
  NoHandle = NoHandle
  FrameMs = 1
  SleepTimes = {1}
  MaxSends = 2
  MaxTime = 3
SPECIFICATION FairSendingSpec
PROPERTIES SendsComplete
\* The instance stops at MaxTime.
CHECK_DEADLOCK FALSE
