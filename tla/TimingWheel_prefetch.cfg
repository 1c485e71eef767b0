SPECIFICATION PromptSpec
CONSTANTS
  Timers = {t1, t2}
  Stops = {}
  W = W
  Nil = Nil
  Tick = 1
  Size = 2
  Levels = 3
  Delays = {0, 1, 3}
  Start = 1
  Horizon = 5
PROPERTIES
  NeverEarly
CHECK_DEADLOCK FALSE
