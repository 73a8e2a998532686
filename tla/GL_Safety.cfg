\* Two handlers, one document, two months in one-month years.
CONSTANTS
  Proc = {p1, p2}
  Doc = {d1}
  NumMonths = 2
  MonthsPerYear = 1
  MaxEntries = 3
  MaxRows = 3
  NONE = NONE
SPECIFICATION FairSpec
INVARIANTS
  ChainLinear
  HeadsSafe
  DocumentsBookedOnce
  AuditMirrorsJournal
  EventFirstSafe
  ReversalsComplete
PROPERTIES
  KeepsPromise
  EveryRequestEnds
