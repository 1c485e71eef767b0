SPECIFICATION FairSpec
CONSTANTS
  Epollers = {e1, e2}
  Callers = {p1}
  Clients = {c1}
  Nil = Nil
INVARIANTS
  Serving
PROPERTIES
  StartEnds
CHECK_DEADLOCK FALSE
