\* Every bridge call and deep sleep: two instances.
CONSTANTS
  a = a
  b = b
  c = c
  here = here
  there = there
  sf7 = sf7
  Nodes = {a, b}
  Channels = {sf7}
  Positions = {here}
  TxPowers = {1}
  Airtimes = {1, 2}
  Gain <- MCGain
  Sensitivity <- MCSensitivity
  SameBand <- MCSameBand
  CaptureRatio = 4
  Dio2TxLoss = 40
  Dio2RxLoss = 2
  NoNode = NoNode
  NoHandle = NoHandle
  FrameMs = 1
  SleepTimes = {0, 2}
  MaxSends = 2
  MaxTime = 2
SYMMETRY Symmetry
SPECIFICATION BridgeSpec
INVARIANTS HalfDuplexHolds StreamInOrder SleeperHearsNothing
PROPERTIES ImplementsIdealRadio
