CONSTANTS
  NONE = NONE
  Proc = {p1, p2}
  Item = {coin, ring}
  Product = {ring}
  Order = {o1, o2}
  MaxUnits = 2
  MaxNet = 0
  InitQty = 1
  EditsStock = TRUE
SPECIFICATION Spec
INVARIANTS
  StockAccounted
  NumbersUnique
  ReconcilesUnrefunded
PROPERTIES
  GoneStaysGone
SYMMETRY HandlersAndOrders
