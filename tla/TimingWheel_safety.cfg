SPECIFICATION Spec
CONSTANTS
  Timers = {t1, t2}
  Stops = {s1, s2}
  W = W
  Nil = Nil
  Tick = 1
  Size = 2
  Levels = 3
  Delays = {0, 1, 3}
  Start = 1
  Horizon = 5
SYMMETRY Perms
INVARIANTS
  TypeOK
  BucketAgrees
  OneFate
  NoTimerLost
CHECK_DEADLOCK FALSE
