CONSTANTS
  None = None
  Proc = {p1, p2}
  Password = {old, new}
  FirstPassword = old
  Threshold = 2
  MaxRows = 4
  MaxVersion = 2
SPECIFICATION FairSpec
INVARIANTS
  OnlyLiveSessions
  LockoutExact
PROPERTIES
  LockEnds
