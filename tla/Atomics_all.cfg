SPECIFICATION WholeSpec
CONSTANTS
  Procs = {p1, p2}
  W = 4
  Halves = {2, 4}
  Args = {3}
PROPERTIES
  ImplementsCounter
  LockFree
