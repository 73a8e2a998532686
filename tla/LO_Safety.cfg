CONSTANTS
  NONE = NONE
  Proc = {p1, p2}
  Lot = {l1}
  Stocked = {}
  Piece = {ring}
  Weight = 2
  MaxAmount = 1
  MaxDraws = 2
  MaxDue = 1
  MaxAdjusted = 1
SPECIFICATION Spec
INVARIANTS
  SuppliersSettled
  BooksKeptUnlessStale
  OneFate
SYMMETRY Handlers
