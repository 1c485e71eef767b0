SPECIFICATION HSpec
CONSTANTS
  c1 = c1
  c2 = c2
  Conns <- MCConns
  Fds = {f1}
  Epollers = {e1, e2}
  Nil = Nil
  Secert = TRUE
  Packets <- Three
  Room = 1
SYMMETRY Perms
INVARIANTS
  OneReader
  ReadIsReady
  AnnouncedFirst
  LiveIsKnown
CHECK_DEADLOCK FALSE
