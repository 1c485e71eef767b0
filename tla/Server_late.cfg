SPECIFICATION Spec
CONSTANTS
  c1 = c1
  c2 = c2
  Conns <- Alone
  Fds = {f1}
  Epollers = {e1}
  Nil = Nil
  Secert = TRUE
  Packets <- TwoPackets
  Room = 1
INVARIANTS
  AppAgrees
CHECK_DEADLOCK FALSE
