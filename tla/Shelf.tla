-------------------------------- MODULE Shelf --------------------------------
(***************************************************************************)
(* What the counter promises: every request on stock and orders takes      *)
(* effect in one step, on the stock and the order as they are at that      *)
(* moment.  There are no locks, no copies of rows and no half-done         *)
(* requests here.                                                          *)
(***************************************************************************)
EXTENDS Integers, Sequences, FiniteSets, FiniteSetsExt

CONSTANTS Item, Product, Order

VARIABLES item, orders

Gone == {"MELTED", "INACTIVE"}
Open == {d \in Order : orders[d].status = "COMPLETED"}
Refundable == {d \in Order : orders[d].status \in {"COMPLETED", "PARTIALLY_REFUNDED"}}

\* The units of item i on the lines s, or in the quantities `back` of the lines s.
BackOn(back, s, i) == SumFunctionOnSet(back, {k \in DOMAIN s : s[k].item = i})
UnitsOn(s, i) == BackOn([k \in DOMAIN s |-> s[k].qty], s, i)

Stocked(i, q) == [qty |-> q, status |-> IF i \in Product /\ q = 0 THEN "SOLD" ELSE "AVAILABLE"]

\* A sale takes its units off the shelf under a number of its own.
Checkout(d) ==
  /\ orders[d].status = "NEW" /\ orders'[d].status = "COMPLETED"
  /\ \A c \in Order \ {d} : orders[c].status # "NEW" => orders[c].number # orders'[d].number
  /\ LET s == orders'[d].lines IN
     /\ \A k \in DOMAIN s : s[k].refunded = 0 /\ s[k].restored = 0
     /\ \A i \in Item : LET n == UnitsOn(s, i) IN
          IF n = 0 THEN item'[i] = item[i]
          ELSE /\ n <= item[i].qty /\ item[i].status \notin Gone
               /\ item'[i] = Stocked(i, item[i].qty - n)
  /\ orders' = [orders EXCEPT ![d] = orders'[d]]

\* The shelf and the lines of order d once `back` was brought back: withdrawn
\* products stay as they are.
BringBack(d, back, status, refunded) ==
  LET s == orders[d].lines
      Returns(k) == item[s[k].item].status \notin Gone IN
  /\ item' = [i \in Item |-> IF BackOn(back, s, i) = 0 \/ item[i].status \in Gone THEN item[i]
                             ELSE [qty |-> item[i].qty + BackOn(back, s, i), status |-> "AVAILABLE"]]
  /\ orders' = [orders EXCEPT ![d].status = status,
       ![d].lines = [k \in DOMAIN s |-> [s[k] EXCEPT !.refunded = @ + refunded[k],
                       !.restored = @ + IF Returns(k) THEN back[k] ELSE 0]]]

Nothing(d) == [k \in DOMAIN orders[d].lines |-> 0]

Void(d) == d \in Open
  /\ BringBack(d, [k \in DOMAIN orders[d].lines |-> orders[d].lines[k].qty], "VOIDED", Nothing(d))

Refund(d) == d \in Open /\ BringBack(d, Nothing(d), "REFUNDED", Nothing(d))

RefundLine(d) == d \in Refundable /\ \E k \in DOMAIN orders[d].lines :
  \E q \in 1..(orders[d].lines[k].qty - orders[d].lines[k].refunded) :
    LET done == \A j \in DOMAIN orders[d].lines :
                  orders[d].lines[j].refunded + (IF j = k THEN q ELSE 0) >= orders[d].lines[j].qty
        back == [Nothing(d) EXCEPT ![k] = q] IN
    BringBack(d, back, IF done THEN "REFUNDED" ELSE "PARTIALLY_REFUNDED", back)

\* Coins and ounces come in and are adjusted, never below zero.
Move ==
  /\ \A i \in Item : item'[i].qty >= 0 /\ item'[i].status = item[i].status
  /\ \A i \in Product : item'[i] = item[i]
  /\ UNCHANGED orders

\* A product is withdrawn, put back, or melted.
Flagged(i) == \E now \in Gone \cup {"AVAILABLE"} :
  /\ item[i].status = "AVAILABLE" \/ (item[i].status = "INACTIVE" /\ now # "INACTIVE")
  /\ item' = [item EXCEPT ![i].status = now]
  /\ UNCHANGED orders

Init ==
  /\ \A i \in Item : item[i].qty >= 0 /\ item[i].status = "AVAILABLE"
  /\ \A d \in Order : orders[d].status = "NEW"

Next ==
  \/ \E d \in Order : Checkout(d) \/ Void(d) \/ Refund(d) \/ RefundLine(d)
  \/ Move
  \/ \E i \in Product : Flagged(i)

Spec == Init /\ [][Next]_<<item, orders>>
=============================================================================
