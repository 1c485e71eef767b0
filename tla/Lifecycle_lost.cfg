SPECIFICATION FairSpec
CONSTANTS
  Epollers = {e1, e2}
  Callers = {}
  Clients = {c1}
  Nil = Nil
PROPERTIES
  EventuallyAccepted
CHECK_DEADLOCK FALSE
