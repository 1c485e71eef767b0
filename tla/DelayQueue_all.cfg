SPECIFICATION FairSpec
CONSTANTS
  Items = {i1, i2}
  NoItem = NoItem
  Prios <- MCPrios
  Horizon = 3
INVARIANTS
  Handshake
  NoLostWakeup
  NeverEarly
  ExactlyOnePlace
PROPERTIES
  ImplementsDelayedSet
  EventuallyDelivered
  OfferReturnsWhileRunning
CHECK_DEADLOCK FALSE
