SPECIFICATION Spec
CONSTANTS
  Epollers = {e1}
  Callers = {p1}
  Clients = {c1}
  Nil = Nil
SYMMETRY Perms
INVARIANTS
  NoPanic
CHECK_DEADLOCK FALSE
