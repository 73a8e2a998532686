CONSTANTS
  Staff = {p1, p2}
  Booked <- InBooks
  Statement <- OnPaper
  Cutoffs = {1, 2, 3}
  Window = 1
  MaxRecs = 2
  MaxRequests = 2
  None = None
SPECIFICATION BankSpec
INVARIANTS
  ClearedOnce
  DifferenceExplained
SYMMETRY Clerks
CHECK_DEADLOCK FALSE
