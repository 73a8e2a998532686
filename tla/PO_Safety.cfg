CONSTANTS
  Catalogue <- Shop
  Carts <- Baskets
  Tills = {"CASH", "CREDIT"}
  Discounts = {0, 10}
  VatRates = {0, 11}
  FxRates = {2, 3}
  FxUnit = 6
  Deliveries <- Vans
  Scraps <- Nuggets
  Sums = {7}
  Amounts = {4}
  Days = 2
  MaxEntries = 3
  MaxMixed = 2
  NONE = NONE
SPECIFICATION Spec
INVARIANTS
  NothingRefused
  SubledgersTie
  StatementsAgree
  RefundsUndoTheSale
PROPERTY
  CashIsHandedOut
CHECK_DEADLOCK FALSE
