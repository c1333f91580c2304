\* Two threads on the files of a mounted card with room for two blocks.
CONSTANTS
  x = x  y = y  f = f  g = g  b = b  b2 = b2
  None = None  Display = Display  Board = Board
  Firmware = {x, y}
  Paths = {f, g}
  Blocks = {b, b2}
  MaxHandle = 2
  Capacity = 2
  Delays = {0}
  MaxCalls = 5
  Kinds <- FileKinds
SYMMETRY Symmetries
SPECIFICATION MountedSpec
INVARIANTS WithinCapacity
PROPERTIES HandlesAreExclusive AppendsKeepData
