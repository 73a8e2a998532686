------------------------------ MODULE MCDeals ------------------------------
EXTENDS Deals
Fineness == [K18 |-> 750, K21 |-> 875]
\* A margin of a tenth, one that pays more than the gold is worth, and two in cents:
\* one leaves little of the lowest rate, the other nothing.
Terms == {[mode |-> "PERCENT", value |-> 10], [mode |-> "USD_PER_GRAM", value |-> 700],
          [mode |-> "USD_PER_GRAM", value |-> 760], [mode |-> "PERCENT", value |-> -20]}
Scrap == [karat |-> "K18", grams |-> 7]
Pound == [karat |-> "K21", grams |-> 8, markup |-> -15, mode |-> "PERCENT", margin |-> 3]
Band == [karat |-> "K18", grams |-> 5, markup |-> 12, margin |-> 15, making |-> 250, stone |-> 99]
=============================================================================
