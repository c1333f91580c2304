\* Two callers and the board's owner, three calls in all, under fair scheduling.
CONSTANTS
  x = x
  y = y
  Board = Board
  Nobody = Nobody
  Callers = {x, y}
  HasWorker = TRUE
  MaxBuzzerCalls = 3
SPECIFICATION BuzzerFairSpec
INVARIANTS SoundIsReported LastCallDecides
PROPERTIES TimedTonesEnd
