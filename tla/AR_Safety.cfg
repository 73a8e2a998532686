CONSTANTS
  None = None
  Proc = {p1, p2}
  Date = {1, 2}
  DocDate = {1}
  CreditLimit = 3
  DocTotal = {2}
  Amount = {1, 3}
  MaxDocs = 2
  MaxSettlements = 2
  MaxAllocs = 1
SPECIFICATION ReceivablesSpec
INVARIANTS
  SettlementsKept
  TiesOutUnlessDisturbed
SYMMETRY Handlers
