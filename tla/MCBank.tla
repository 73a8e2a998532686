------------------------------- MODULE MCBank -------------------------------
EXTENDS Bank, TLC
Clerks == Permutations(Staff)
Amount(n, day) == [amount |-> n, day |-> day]
\* A deposit that both lines of the statement fit, of which one is of 0.00, and a withdrawal.
InBooks == [a |-> Amount(1, 2), c |-> Amount(-1, 2)]
OnPaper == [x |-> Amount(1, 3), y |-> Amount(0, 1)]
=============================================================================
