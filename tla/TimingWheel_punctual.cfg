SPECIFICATION PunctualSpec
CONSTANTS
  Timers = {t1, t2, t3}
  Stops = {}
  W = W
  Nil = Nil
  Tick = 1
  Size = 3
  Levels = 2
  Delays = {0, 1, 3, 5}
  Start = 1
  Horizon = 8
SYMMETRY Perms
PROPERTIES
  NeverEarly
CHECK_DEADLOCK FALSE
