SPECIFICATION Spec
CONSTANTS
  Timers = {t1, t2}
  Stops = {s1}
  W = W
  Nil = Nil
  Tick = 1
  Size = 2
  Levels = 3
  Delays = {3}
  Start = 1
  Horizon = 5
PROPERTIES
  StopTellsTheTruth
CHECK_DEADLOCK FALSE
