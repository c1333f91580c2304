\* Two threads with displays on one bus, and a controller driven by hand.
CONSTANTS
  t1 = t1  t2 = t2  h1 = h1  h2 = h2  black = black  white = white  sd = sd
  None = None
  Width = 3  Height = 2
  Colours = {black, white}  Black = black
  Threads = {t1, t2}
  Handles = {h1, h2}
  OtherDevice = sd
  Flushes <- PanelFlushes
  MaxCreates = 2  MaxFlushes = 2
SPECIFICATION MCSpec
INVARIANTS CaptureIsWhole NothingHalfCreated ReadsBack
PROPERTIES FlushIsAnswered
CHECK_DEADLOCK FALSE
