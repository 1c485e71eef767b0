SPECIFICATION FairSpec
CONSTANTS
  Clients = {c1}
  Configs = {{}, {c1}}
  Fds = {f1}
  I = I
  Nil = Nil
  Secert = TRUE
  ConnectRoom = 1
  ReadRoom = 1
  Msgs = {"key", "msg"}
  Packets = 3
  Tries = 1
  Slots = {1, 2}
PROPERTIES
  EventuallyReceived
  LoopReturns
  EventuallyReconnected
  HeartbeatsEnd
CHECK_DEADLOCK FALSE
