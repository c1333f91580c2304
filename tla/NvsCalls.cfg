\* Two threads, every call, a host fault and a crash anywhere.
CONSTANTS
  x = x  y = y  k = k  l = l  p = p  q = q  small = small  large = large
  None = None
  Threads = {x, y}
  Keys = {k, l}
  Values = {small, large}
  Weight <- MCWeight
  Sizes = {3, 5}
  Pids = {p, q}
  MaxCalls = 5
  MaxCrashes = 1
  MaxFaults = 1
  Kinds <- LifeKinds
  Faults <- AllFaults
SPECIFICATION NvsSpec
SYMMETRY Symmetries
INVARIANTS RefusedIsRolledBack
PROPERTIES CallsAreAtomic
