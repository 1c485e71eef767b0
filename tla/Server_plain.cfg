SPECIFICATION Spec
CONSTANTS
  c1 = c1
  c2 = c2
  Conns <- MCConns
  Fds = {f1}
  Epollers = {e1, e2}
  Nil = Nil
  Secert = FALSE
  Packets <- One
  Room = 1
SYMMETRY Perms
INVARIANTS
  TypeOK
  MapAgrees
  Served
  AppAgrees
CHECK_DEADLOCK FALSE
