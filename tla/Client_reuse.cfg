SPECIFICATION Spec
CONSTANTS
  Clients = {c1, c2}
  Configs = {{c1}}
  Fds = {f1, f2}
  I = I
  Nil = Nil
  Secert = TRUE
  ConnectRoom = 1
  ReadRoom = 1
  Msgs = {"key", "msg"}
  Packets = 2
  Tries = 1
  Slots = {1, 2}
INVARIANTS
  MapAgrees
SYMMETRY FdSymmetry
CHECK_DEADLOCK FALSE
