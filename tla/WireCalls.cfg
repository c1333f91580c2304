\* Two wires that share a keyboard, and the host's input without them.
CONSTANTS
  a = a  b = b  letter = letter  shift = shift  up = up  pointer = pointer
  dark = dark  lit = lit
  None = None
  Letter = letter  Shift = shift  Up = up  Pointer = pointer
  QueueCapacity = 1
  Dark = dark  Lights = {dark, lit}
  MaxHostEvents = 4
  MaxEventsOnWires = 1
  MaxDevices = 2
  Wires = {a, b}
  KeyboardAt = "keyboard"  TouchAt = "gt911"  Nowhere = "nobody"
  TxCapacity = 2
  MaxWireCalls = 4
SYMMETRY WireSymmetry
SPECIFICATION MCSpec
INVARIANTS OnlyFullQueuesMisreport ContactFollowsPointer EachKeyOnce
PROPERTIES DevicesObeyTheBus
CHECK_DEADLOCK FALSE
