CONSTANTS
  NONE = NONE
  Proc = {p1, p2}
  Item = {coin, ring}
  Product = {ring}
  Order = {o1}
  MaxUnits = 2
  MaxNet = 1
  InitQty = 1
  EditsStock = FALSE
SPECIFICATION FairSpec
INVARIANTS
  FlagFollowsStock
PROPERTIES
  KeepsPromise
  EveryRequestEnds
