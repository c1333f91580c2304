\* Two boards of an instance, its retained state, its receiver,
\* and a SPIFFS partition of three blocks.
CONSTANTS
  a = a  b = b  rail = rail  other = other  here = here  there = there  legacy = legacy
  None = None
  Handles = {a, b}
  Rail = rail  OtherPin = other
  Curve <- BoardCurve
  MvPerCount = 4  FullMv = 15  MaxMv = 22
  MaxBytes = 3  ReadbackBytes = 2
  RetainedBytes = 2
  Ids = {here, there}  Here = here  Legacy = legacy
  MaxCalls = 5  MaxTime = 3
  Epoch = 4
  SentenceBytes = 2
  Bauds = {"slow", "fast"}  SlowBaud = "slow"
  Allowance <- AllowanceOf
  Satellites = {8, 12}
  Tracks <- GpxTracks
  Positions <- Places
  Deltas = {1, 3, 9}
  MaxGpsCalls = 7
  MaxReceiverBoardCalls = 2
  log = log  map = map  dots = dots
  NoSpiffs = NoSpiffs
  Names = {log, map}  Refused = {dots}
  Sizes = {0, 3, 5}
  PartitionSize = 5  BlockSize = 2
  StartOf <- HashOf
  MaxSpiffsCalls = 6
SYMMETRY HandleSymmetry
SPECIFICATION MCSpec
INVARIANTS AdcIsNearest ExpiryIsFinal EpochsArePrefixes MovementFollowsTime SpiffsAccounts
PROPERTIES DarkUntilDriven
CHECK_DEADLOCK FALSE
