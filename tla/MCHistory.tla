----------------------------- MODULE MCHistory -----------------------------
EXTENDS History
\* A coin on the shelf, a ring that can be melted, and a band that is bought.
Shop == [COIN |-> [karat |-> "K21", grams |-> 2, price |-> 505, making |-> 15, stone |-> 0, cost |-> 805, per |-> 2]]
Shelf == [COIN |-> 2]
Bench == [RING |-> [karat |-> "K18", grams |-> 3, cost |-> 40], BAND |-> [karat |-> "K18", grams |-> 4, cost |-> 9]]
Forms == {[karat |-> "K21", grams |-> 2]}
Recuts == {[karat |-> "K21", grams |-> 4, stone |-> 5]}
Baskets == {<<[unit |-> "COIN", qty |-> 2]>>}
\* Gold that is owed for in gold and dollars, and wares for money.
Vans == {[due |-> 6, paid |-> 2, gold |-> [K18 |-> 0, K21 |-> 4],
          lots |-> <<[karat |-> "K21", grams |-> 4, cost |-> 30]>>, units |-> <<>>, pieces |-> {}],
         [due |-> 9, paid |-> 9, gold |-> [K18 |-> 0, K21 |-> 0],
          lots |-> <<>>, units |-> <<[unit |-> "COIN", qty |-> 1]>>, pieces |-> {"BAND"}]}
Nuggets == {[karat |-> "K18", grams |-> 5, cost |-> 20]}
\* The more entries the office makes, the fewer documents: enough for a sale
\* that comes back in parts, or for two closes and a manual entry around a document.
Busy == {[docs |-> 3, mixed |-> 2, office |-> 0, manual |-> 0],
         [docs |-> 2, mixed |-> 2, office |-> 1, manual |-> 0],
         [docs |-> 2, mixed |-> 0, office |-> 2, manual |-> 0],
         [docs |-> 1, mixed |-> 1, office |-> 3, manual |-> 1]}
=============================================================================
