SPECIFICATION CalmSpec
CONSTANTS
  Clients = {c1}
  Configs = {{}, {c1}}
  Fds = {f1}
  I = I
  Nil = Nil
  Secert = TRUE
  ConnectRoom = 1
  ReadRoom = 1
  Msgs = {"key", "msg", "junk"}
  Packets = 2
  Tries = 1
  Slots = {1, 2}
INVARIANTS
  ReconnectedServed
CHECK_DEADLOCK FALSE
