CONSTANTS
  NONE = NONE
  Proc = {p1, p2}
  Take = {t1}
  Unit = {coin, ounce}
  Counts = {0, 2}
  InitQty = 1
  MaxLines = 3
  MaxMoved = 1
SPECIFICATION Spec
INVARIANTS
  VariancePostedOnce
PROPERTIES
  TakeRunsOneWay
SYMMETRY Handlers
