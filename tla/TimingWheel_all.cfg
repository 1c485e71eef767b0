SPECIFICATION KeptSpec
CONSTANTS
  Timers = {t1, t2}
  Stops = {s1}
  W = W
  Nil = Nil
  Tick = 1
  Size = 2
  Levels = 3
  Delays = {0, 1, 3}
  Start = 1
  Horizon = 5
INVARIANTS
  OneFate
  NoTimerLost
  NotForgotten
  NoSelfDeadlock
  EnqueuedOnce
PROPERTIES
  PunctuallyNeverEarly
  EventuallyRuns
CHECK_DEADLOCK FALSE
