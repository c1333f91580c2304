\* Three standing nodes on one channel: overlaps, capture and pruning.
CONSTANTS
  a = a
  b = b
  c = c
  here = here
  there = there
  sf7 = sf7
  sf8 = sf8
  Nodes = {a, b, c}
  Channels = {sf7, sf8}
  Positions = {here, there}
  TxPowers = {1}
  Airtimes = {1, 3}
  Gain <- MCGain
  Sensitivity <- MCSensitivity
  SameBand <- MCSameBand
  CaptureRatio = 4
  Dio2TxLoss = 40
  Dio2RxLoss = 2
  NoNode = NoNode
  MaxSends = 4
  MaxTime = 5
SYMMETRY Symmetry
SPECIFICATION TrafficSpec
INVARIANTS HistorySuffices CaptureIsExclusive
PROPERTIES NoLateInterference
