\* One instance, one caller of the failure modes, polls whole or split.
CONSTANTS
  one = one  two = two  x = x  y = y  p = p  q = q
  None = None
  Instances = {one}
  Callers = {x}
  Points = {p, q}
  Whole = 4
  RateValues = {3, 9}
  StallTimes = {0, 3}
  ScanInterval = 1  FrameWatchdog = 1  PhantomWatchdog = 1
  BusWatchdog = 2
  FrameMs = 1
  SplitPolls = TRUE
  MaxTime = 3  MaxTouches = 3  MaxReads = 4  MaxSettings = 2
SYMMETRY PointSymmetry
SPECIFICATION Spec
INVARIANTS ShownContactIsRight FailuresAreExact SettingsReachControllers
PROPERTIES OnlyLateAcknowledgementsLose
\* The instance stops at its bounds.
CHECK_DEADLOCK FALSE
