CONSTANTS
  Catalogue <- Shop
  Stock <- Shelf
  Workshop <- Bench
  Casts <- Forms
  Edits <- Recuts
  Carts <- Baskets
  Discounts = {10}
  VatRates = {0, 11}
  Deliveries <- Vans
  Scraps <- Nuggets
  Expenditures = {7}
  Years = 3
  Sizes <- Busy
  MaxOpenings = 1
  MaxSwitches = 1
  NONE = NONE
SPECIFICATION Spec
INVARIANTS
  ReplayFaithful
  SettledBooksKept
  BooksMatchShelf
CHECK_DEADLOCK FALSE
