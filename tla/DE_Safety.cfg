CONSTANTS
  Cashier = {c1}
  Purity <- Fineness
  Feed = {1001, 1051, 1100}
  Overrides = {1040}
  Margins <- Terms
  DriftMax = 5
  Piece <- Scrap
  Coin <- Pound
  Ring <- Band
  HandPrice = 500
  ClosedAge = 2
  MaxRows = 2
  MaxDeals = 1
  MaxStock = 2
  NoValue = NoValue
SPECIFICATION DealsSpec
INVARIANTS
  DealsAnswerable
  PaidAsQuoted
CHECK_DEADLOCK FALSE
