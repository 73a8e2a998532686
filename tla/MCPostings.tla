----------------------------- MODULE MCPostings -----------------------------
EXTENDS Postings
\* A ring with a stone and a coin whose gold is worth half cents.
Shop == [RING |-> [karat |-> "K18", grams |-> 3, price |-> 1001, making |-> 150, stone |-> 125, cost |-> 633, per |-> 1],
         COIN |-> [karat |-> "K21", grams |-> 2, price |-> 505, making |-> 0, stone |-> 0, cost |-> 805, per |-> 2]]
Baskets == {<<[unit |-> "RING", qty |-> 1], [unit |-> "COIN", qty |-> 2]>>, <<[unit |-> "COIN", qty |-> 2]>>}
Vans == {[due |-> 40, paid |-> 15, stone |-> 9,
          gold |-> [k \in KaratSet |-> 0], drawn |-> [k \in KaratSet |-> 0], worth |-> [k \in KaratSet |-> 0]],
         [due |-> 0, paid |-> 0, stone |-> 0,
          gold |-> [K18 |-> 7, K21 |-> 4], drawn |-> [K18 |-> 3, K21 |-> 4], worth |-> [K18 |-> 50, K21 |-> 30]]}
Nuggets == {[karat |-> "K18", grams |-> 5, cost |-> 20], [karat |-> "K21", grams |-> 4, cost |-> 20]}
=============================================================================
