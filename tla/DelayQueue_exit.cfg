SPECIFICATION FairSpec
CONSTANTS
  Items = {i1}
  NoItem = NoItem
  Prios = {1, 2}
  Horizon = 2
PROPERTIES
  OfferAlwaysReturns
CHECK_DEADLOCK FALSE
