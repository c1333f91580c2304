\* Mounting, opening, drawing and switching the rail side by side; every call returns.
CONSTANTS
  x = x  y = y  f = f  g = g  b = b  b2 = b2
  None = None  Display = Display  Board = Board
  Firmware = {x, y}
  Paths = {f}
  Blocks = {b}
  MaxHandle = 1
  Capacity = 2
  Delays = {0, 2660, 3000}
  MaxCalls = 3
  Kinds <- ControlKinds
SPECIFICATION SdFairSpec
INVARIANTS OneDriver
PROPERTIES EveryCallReturns
