SPECIFICATION FairSpec
CONSTANTS
  c1 = c1
  c2 = c2
  Conns <- MCConns
  Fds = {f1}
  Epollers = {e1}
  Nil = Nil
  Secert = FALSE
  Packets <- One
  Room = 1
INVARIANTS
  MapAgrees
  Served
  AppAgrees
PROPERTIES
  EventuallyClosed
  EpollReturns
CHECK_DEADLOCK FALSE
