------------------------------- MODULE Counter -------------------------------
(***************************************************************************)
(* Stock on hand and the orders that move it: checkout, void and refunds   *)
(* (app/api/orders.py), walk-in buybacks and supplier purchases of coins   *)
(* and ounces (app/api/buybacks.py, app/api/suppliers.py), adjustments     *)
(* (app/api/adjustments.py), melting a product (app/api/melts.py) and      *)
(* editing its stock (app/api/products.py).                                *)
(*                                                                         *)
(* A process is a request handler with its own transaction at READ         *)
(* COMMITTED.  It reads a stock row FOR UPDATE and writes the new quantity *)
(* as an absolute value; what it wrote stays in tx[p] until Commit.  Money *)
(* is not modelled here, and a request may be refused for reasons that are *)
(* not (inactive item, discount, credit limit, gold rate): Abort covers    *)
(* them.                                                                   *)
(***************************************************************************)
EXTENDS Integers, Sequences, FiniteSets, FiniteSetsExt

CONSTANTS
  Proc,      \* request handlers that may be in flight at once
  Item,      \* coin types, ounce types and products
  Product,   \* the products among them
  Order,     \* orders that may be created, all on one day
  MaxUnits,  \* bound: units on the lines of a request
  MaxNet,    \* bound: nothing is bought or adjusted beyond this net quantity
  InitQty,   \* stock of each item when the model starts
  EditsStock,\* does an admin overwrite stock in the product form?
  NONE       \* no process, no order; the lot line of a purchase

ASSUME NoneAssumption == NONE \notin Proc /\ NONE \notin Order /\ NONE \notin Item
ASSUME ItemAssumption == Product \subseteq Item
ASSUME BoundAssumption ==
  /\ MaxUnits \in Nat \ {0} /\ MaxNet \in Nat
  /\ InitQty \in Nat \ {0} /\ EditsStock \in BOOLEAN

VARIABLES
  item,       \* stock rows: on_hand_qty and, for products, status
  orders,     \* orders and their lines
  net,        \* quantity bought, adjusted or edited into each item so far
  itemLock,   \* holder of each stock row
  orderLock,  \* holder of each order row
  auditLock,  \* holder of the audit-ledger head
  tx          \* the transaction of each process

vars == <<item, orders, net, itemLock, orderLock, auditLock, tx>>
tables == <<item, orders, net>>

-----------------------------------------------------------------------------
(* Rows. *)

Withdrawn == {"MELTED", "INACTIVE"}
StockRow == [qty : Int, status : {"AVAILABLE", "SOLD"} \cup Withdrawn]

\* `refunded` is refunded_qty; `restored` counts the units of the line that a void
\* or a refund put back in stock.
OrderLine == [item : Item, qty : Nat, refunded : Nat, restored : Nat]
OrderRow == [status : {"NEW", "COMPLETED", "PARTIALLY_REFUNDED", "REFUNDED", "VOIDED"},
             number : Nat, lines : Seq(OrderLine)]

\* What a handler still has to do to stock: `line` is the order line it is about,
\* and an entry whose item is NONE is the PURE_GOLD line of a purchase.
Entry == [item : Item \cup {NONE}, qty : Int, line : Nat]
One(i, q) == <<[item |-> i, qty |-> q, line |-> 0]>>

SeqsUpTo(S, n) == UNION {[1..k -> S] : k \in 1..n}
UnitsOf(s) == MapThenSumSet(LAMBDA k : s[k].qty, DOMAIN s)
Requests(S) ==
  {s \in SeqsUpTo({[item |-> i, qty |-> q, line |-> 0] : i \in S, q \in 1..MaxUnits}, MaxUnits) :
     UnitsOf(s) <= MaxUnits}

OrderOps == {"sale", "void", "refund", "itemRefund"}
IdleTx == [pc |-> "idle", op |-> "none", order |-> NONE, number |-> 0,
           todo |-> <<>>, cart |-> <<>>, rows |-> <<>>, back |-> <<>>]

Idle(p) == tx[p].pc = "idle"
Committed == {d \in Order : orders[d].status # "NEW"}

\* A stock row as the transaction sees it.
RowOf(p, i) == IF i \in DOMAIN tx[p].rows THEN tx[p].rows[i] ELSE item[i]

-----------------------------------------------------------------------------
(* Begin, wait, roll back. *)

Begin(p, t) ==
  /\ Idle(p)
  /\ tx' = [tx EXCEPT ![p] = t]
  /\ UNCHANGED <<tables, itemLock, orderLock, auditLock>>

Released(lock, p) == IF lock = p THEN NONE ELSE lock

ReleaseAll(p) ==
  /\ itemLock' = [i \in Item |-> Released(itemLock[i], p)]
  /\ orderLock' = [d \in Order |-> Released(orderLock[d], p)]
  /\ auditLock' = Released(auditLock, p)

Refuse(p) ==
  /\ tx' = [tx EXCEPT ![p] = IdleTx]
  /\ ReleaseAll(p)
  /\ UNCHANGED tables

\* The process dies, a statement fails, or a check not modelled refuses.
Abort(p) == ~Idle(p) /\ Refuse(p)

\* Mutant: SELECT without FOR UPDATE.
NoLock(lock, p) == TRUE

Free(lock, p) == lock \in {NONE, p}

\* The handlers whose uncommitted order has the number p wants.
SameNumber(p) == {q \in Proc \ {p} :
  tx[q].op = "sale" /\ tx[q].pc \in {"event", "commit"} /\ tx[q].number = tx[p].number}

NextItem(p) == Head(tx[p].todo).item

Blockers(p) ==
  (CASE tx[p].pc = "order" -> {orderLock[tx[p].order]}
     [] tx[p].pc = "lines" -> {IF NextItem(p) = NONE THEN auditLock ELSE itemLock[NextItem(p)]}
     [] tx[p].pc = "insert" -> SameNumber(p)
     [] tx[p].pc = "event" -> {auditLock}
     [] OTHER -> {}) \ {NONE, p}

\* Each of S waits for another of S, and keeps another waiting.
Circle(S) ==
  S # {} /\ \A q \in S : Blockers(q) \cap S # {} /\ \E r \in S : q \in Blockers(r)
Deadlocked(p) == \E S \in SUBSET Proc : p \in S /\ Circle(S)

\* PostgreSQL's deadlock detector aborts one transaction of a waiting cycle.
DeadlockAbort(p) == Deadlocked(p) /\ Refuse(p)

-----------------------------------------------------------------------------
(* Requests. *)

\* POST /orders: the number is counted from the orders committed so far, without a
\* lock; the stock rows are locked in the order of the payload.
BeginSale(p) == \E d \in Order, cart \in Requests(Item) :
  /\ d \notin Committed /\ \A q \in Proc : tx[q].order # d
  /\ Begin(p, [IdleTx EXCEPT !.pc = "lines", !.op = "sale", !.order = d, !.cart = cart,
                 !.todo = cart, !.number = Cardinality(Committed) + 1])

\* POST /orders/{id}/void and /refund.
BeginOnOrder(p, op) == \E d \in Committed :
  Begin(p, [IdleTx EXCEPT !.pc = "order", !.op = op, !.order = d])

\* POST /orders/{id}/items/{item_id}/refund.
BeginItemRefund(p) == \E d \in Committed, q \in 1..MaxUnits : \E k \in DOMAIN orders[d].lines :
  LET refund == <<[item |-> orders[d].lines[k].item, qty |-> q, line |-> k]>> IN
  Begin(p, [IdleTx EXCEPT !.pc = "order", !.op = "itemRefund", !.order = d,
              !.cart = refund, !.todo = refund])

OnStock(op, todo) == [IdleTx EXCEPT !.pc = "lines", !.op = op, !.todo = todo]

\* Walk-in buybacks and supplier purchases bring coins and ounces in; a purchase
\* has several lines, and one of pure gold locks the audit-ledger head.
BeginBuyback(p) == \E i \in Item \ Product :
  net[i] < MaxNet /\ Begin(p, OnStock("move", One(i, 1)))
BeginPurchase(p) == \E s \in Requests((Item \ Product) \cup {NONE}) :
  /\ \A k \in DOMAIN s : s[k].item # NONE => net[s[k].item] < MaxNet
  /\ Begin(p, OnStock("move", s))

\* POST /adjustments of a coin or ounce type, of a product, and POST /melts.
BeginAdjust(p) == \E i \in Item \ Product :
  net[i] > -MaxNet /\ Begin(p, OnStock("move", One(i, -1)))
BeginFlag(p, op) == \E i \in Product : Begin(p, OnStock(op, One(i, 0)))

\* PATCH /products/{id}: the row is read without a lock, and the quantity is written
\* if it differs from the one read.
BeginEdit(p) == \E i \in Product, q \in 0..InitQty :
  EditsStock /\ item[i].qty # q /\ Begin(p, OnStock("edit", One(i, q)))

-----------------------------------------------------------------------------
(* Steps inside a transaction. *)

\* Mutant: a void accepted after some lines were refunded.
AcceptsAny(p, o) ==
  LET e == Head(tx[p].todo) IN
  IF tx[p].op = "itemRefund"
  THEN o.status \in {"COMPLETED", "PARTIALLY_REFUNDED"}
       /\ e.qty <= o.lines[e.line].qty - o.lines[e.line].refunded
  ELSE o.status \in {"COMPLETED", "PARTIALLY_REFUNDED"}

\* What the handler requires of the order once it holds its row.
Accepts(p, o) ==
  LET e == Head(tx[p].todo) IN
  IF tx[p].op = "itemRefund"
  THEN /\ o.status \in {"COMPLETED", "PARTIALLY_REFUNDED"}
       /\ e.qty <= o.lines[e.line].qty - o.lines[e.line].refunded
  ELSE o.status = "COMPLETED"

\* The lines of an order are loaded in no particular order.
Arrangements(n) == {f \in [1..n -> 1..n] : \A j, k \in 1..n : f[j] = f[k] => j = k}
Reversals(o) ==
  {[k \in DOMAIN o.lines |-> [item |-> o.lines[f[k]].item, qty |-> o.lines[f[k]].qty, line |-> f[k]]] :
     f \in Arrangements(Len(o.lines))}

\* Mutant: a void or refund that records its event before it goes through the lines.
EventFirst(p) ==
  LET t == tx[p]  o == orders[t.order] IN
  /\ t.pc = "order" /\ Free(orderLock[t.order], p)
  /\ IF ~Accepts(p, o) THEN Refuse(p)
     ELSE /\ orderLock' = [orderLock EXCEPT ![t.order] = p]
          /\ Free(auditLock, p) /\ auditLock' = p
          /\ \E todo \in IF t.op = "void" THEN Reversals(o) ELSE {t.todo} :
               tx' = [tx EXCEPT ![p].todo = todo,
                                ![p].pc = IF t.op = "refund" THEN "commit" ELSE "lines"]
          /\ UNCHANGED <<tables, itemLock>>

\* SELECT ... FOR UPDATE of the order, judged as the locked row is.
LockOrder(p) ==
  LET t == tx[p]  o == orders[t.order] IN
  /\ t.pc = "order" /\ Free(orderLock[t.order], p)
  /\ IF ~Accepts(p, o) THEN Refuse(p)
     ELSE /\ orderLock' = [orderLock EXCEPT ![t.order] = p]
          /\ \E todo \in IF t.op = "void" THEN Reversals(o) ELSE {t.todo} :
               tx' = [tx EXCEPT ![p].todo = todo,
                                ![p].pc = IF t.op = "refund" THEN "commit" ELSE "lines"]
          /\ UNCHANGED <<tables, itemLock, auditLock>>

\* Is the entry e refused on the stock row r?
Refused(op, e, r) ==
  CASE op = "sale" -> r.status \in Withdrawn \/ r.qty < e.qty
    [] op = "move" -> r.qty + e.qty < 0
    [] op = "remove" -> r.status \in {"SOLD", "MELTED"}
    [] op = "restore" -> r.status # "INACTIVE"
    [] op = "melt" -> r.status \notin {"AVAILABLE", "INACTIVE"}
    [] OTHER -> FALSE

\* Mutant: a void that forgets the stock.
OnlyRefunds(op, r) == op = "itemRefund" /\ r.status \notin Withdrawn

\* A void or a line refund puts units back unless the product was withdrawn.
PutsBack(op, r) == op \in {"void", "itemRefund"} /\ r.status \notin Withdrawn

\* Mutant: SOLD is set one unit late.
FlagLate(i, q) == IF i \in Product /\ q < 0 THEN "SOLD" ELSE "AVAILABLE"

\* The derived flag of a product: SOLD once nothing is left on hand.
Flag(i, q) == IF i \in Product /\ q = 0 THEN "SOLD" ELSE "AVAILABLE"

\* The row r of item e.item after the entry e.
After(op, e, r) ==
  CASE op = "sale" -> [qty |-> r.qty - e.qty, status |-> Flag(e.item, r.qty - e.qty)]
    [] op \in {"void", "itemRefund"} ->
         IF PutsBack(op, r) THEN [qty |-> r.qty + e.qty, status |-> "AVAILABLE"] ELSE r
    [] op = "move" -> [r EXCEPT !.qty = @ + e.qty]
    [] op = "edit" -> [r EXCEPT !.qty = e.qty]
    [] op = "remove" -> [r EXCEPT !.status = "INACTIVE"]
    [] op = "restore" -> [r EXCEPT !.status = "AVAILABLE"]
    [] op = "melt" -> [r EXCEPT !.status = "MELTED"]

Put(f, k, v) == [x \in DOMAIN f \cup {k} |-> IF x = k THEN v ELSE f[x]]

AfterLine(t, todo) ==
  IF todo # <<>> THEN "lines" ELSE IF t.op = "sale" THEN "insert" ELSE "event"

\* One line: lock the stock row, check it, write it.
TakeItem(p) ==
  LET t == tx[p]  e == Head(t.todo)  r == RowOf(p, e.item) IN
  /\ t.pc = "lines" /\ e.item # NONE /\ Free(itemLock[e.item], p)
  /\ IF Refused(t.op, e, r) THEN Refuse(p)
     ELSE /\ itemLock' = [itemLock EXCEPT ![e.item] = p]
          /\ tx' = [tx EXCEPT ![p] = [t EXCEPT
               !.rows = Put(@, e.item, After(t.op, e, r)),
               !.back = IF PutsBack(t.op, r) THEN Put(@, e.line, e.qty) ELSE @,
               !.todo = Tail(@), !.pc = AfterLine(t, Tail(t.todo))]]
          /\ UNCHANGED <<tables, orderLock, auditLock>>

\* A purchased lot: its LOT_CREATED event locks the audit-ledger head.
TakeLot(p) ==
  LET t == tx[p] IN
  /\ t.pc = "lines" /\ NextItem(p) = NONE /\ Free(auditLock, p)
  /\ auditLock' = p
  /\ tx' = [tx EXCEPT ![p].todo = Tail(@), ![p].pc = AfterLine(t, Tail(t.todo))]
  /\ UNCHANGED <<tables, itemLock, orderLock>>

\* Mutant: order numbers without a unique index.
NeverTaken(n) == FALSE

NumberTaken(n) == \E d \in Committed : orders[d].number = n

\* INSERT of the order: the unique order_number makes it wait for another insert of
\* the same number, and fail once that one has committed.
InsertOrder(p) ==
  /\ tx[p].pc = "insert" /\ SameNumber(p) = {}
  /\ IF NumberTaken(tx[p].number) THEN Refuse(p)
     ELSE /\ tx' = [tx EXCEPT ![p].pc = "event"]
          /\ UNCHANGED <<tables, itemLock, orderLock, auditLock>>

\* The first ledger.record of the handler.
RecordEvent(p) ==
  /\ tx[p].pc = "event" /\ Free(auditLock, p)
  /\ auditLock' = p
  /\ tx' = [tx EXCEPT ![p].pc = "commit"]
  /\ UNCHANGED <<tables, itemLock, orderLock>>

Restored(t, k) == IF k \in DOMAIN t.back THEN t.back[k] ELSE 0

\* The lines of the order as the handler leaves them.
RefundedBy(t, k) == IF t.op = "itemRefund" /\ k = t.cart[1].line THEN t.cart[1].qty ELSE 0

LinesAfter(t) ==
  IF t.op = "sale"
  THEN [k \in DOMAIN t.cart |-> [item |-> t.cart[k].item, qty |-> t.cart[k].qty,
                                 refunded |-> 0, restored |-> 0]]
  ELSE [k \in DOMAIN orders[t.order].lines |->
          [orders[t.order].lines[k] EXCEPT !.refunded = @ + RefundedBy(t, k),
                                           !.restored = @ + Restored(t, k)]]

\* Mutant: an order is fully refunded as soon as one of its lines is.
AnyRefunded(lines) == \E k \in DOMAIN lines : lines[k].refunded >= lines[k].qty

FullyRefunded(lines) == \A k \in DOMAIN lines : lines[k].refunded >= lines[k].qty

StatusAfter(t) ==
  CASE t.op = "sale" -> "COMPLETED"
    [] t.op = "void" -> "VOIDED"
    [] t.op = "refund" -> "REFUNDED"
    [] t.op = "itemRefund" ->
         IF FullyRefunded(LinesAfter(t)) THEN "REFUNDED" ELSE "PARTIALLY_REFUNDED"

OrderAfter(t) == [status |-> StatusAfter(t), lines |-> LinesAfter(t),
                  number |-> IF t.op = "sale" THEN t.number ELSE orders[t.order].number]

\* db.commit().
Commit(p) ==
  LET t == tx[p] IN
  /\ t.pc = "commit"
  /\ item' = [i \in Item |-> RowOf(p, i)]
  /\ net' = [i \in Item |-> IF t.op \in OrderOps THEN net[i] ELSE net[i] + RowOf(p, i).qty - item[i].qty]
  /\ orders' = IF t.op \in OrderOps THEN [orders EXCEPT ![t.order] = OrderAfter(t)] ELSE orders
  /\ tx' = [tx EXCEPT ![p] = IdleTx]
  /\ ReleaseAll(p)

-----------------------------------------------------------------------------
Init ==
  /\ item = [i \in Item |-> [qty |-> InitQty, status |-> "AVAILABLE"]]
  /\ orders = [d \in Order |-> [status |-> "NEW", number |-> 0, lines |-> <<>>]]
  /\ net = [i \in Item |-> 0]
  /\ itemLock = [i \in Item |-> NONE]
  /\ orderLock = [d \in Order |-> NONE]
  /\ auditLock = NONE
  /\ tx = [p \in Proc |-> IdleTx]

Request(p) ==
  \/ BeginSale(p) \/ BeginOnOrder(p, "void") \/ BeginOnOrder(p, "refund") \/ BeginItemRefund(p)
  \/ BeginBuyback(p) \/ BeginPurchase(p) \/ BeginAdjust(p) \/ BeginEdit(p)
  \/ BeginFlag(p, "remove") \/ BeginFlag(p, "restore") \/ BeginFlag(p, "melt")

Step(p) ==
  \/ LockOrder(p) \/ (tx[p].pc = "lines" /\ (TakeItem(p) \/ TakeLot(p)))
  \/ InsertOrder(p) \/ RecordEvent(p) \/ Commit(p)

\* Nobody asks for anything.
ShopIdle == (\A p \in Proc : Idle(p)) /\ UNCHANGED vars

Next ==
  \/ \E p \in Proc : Request(p) \/ Step(p) \/ Abort(p) \/ DeadlockAbort(p)
  \/ ShopIdle

Spec == Init /\ [][Next]_vars

\* A row lock that is let go of is granted in the end: PostgreSQL queues its
\* waiters.  Nothing is assumed of the deadlock detector.
FairSpec == Spec /\ \A p \in Proc : SF_vars(Step(p))

-----------------------------------------------------------------------------
(* Properties. *)

Ops == OrderOps \cup {"none", "move", "edit", "remove", "restore", "melt"}

TxOK(t) ==
  /\ t.pc \in {"idle", "order", "lines", "insert", "event", "commit"}
  /\ t.op \in Ops /\ t.order \in Order \cup {NONE} /\ t.number \in Nat
  /\ t.todo \in Seq(Entry) /\ t.cart \in Seq(Entry)
  /\ DOMAIN t.rows \subseteq Item /\ \A i \in DOMAIN t.rows : t.rows[i] \in StockRow
  /\ \A k \in DOMAIN t.back : k \in Nat /\ t.back[k] \in Nat

\* Every variable keeps its type, and no stock row goes below zero.
TypeOK ==
  /\ item \in [Item -> StockRow] /\ \A i \in Item : item[i].qty >= 0
  /\ orders \in [Order -> OrderRow]
  /\ net \in [Item -> Int]
  /\ itemLock \in [Item -> Proc \cup {NONE}]
  /\ orderLock \in [Order -> Proc \cup {NONE}]
  /\ auditLock \in Proc \cup {NONE}
  /\ \A p \in Proc : TxOK(tx[p])

\* The units of item i that order d took and nobody put back.
OutOf(d, i) == SumFunctionOnSet([k \in DOMAIN orders[d].lines |-> orders[d].lines[k].qty - orders[d].lines[k].restored],
                                {k \in DOMAIN orders[d].lines : orders[d].lines[k].item = i})
Outside(i) == SumFunctionOnSet([d \in Committed |-> OutOf(d, i)], Committed)

\* No unit is lost or sold twice, whatever handlers interleave: stock is what came in
\* less the units of every sale that were not put back (the row locks of
\* _checkout_unit_line, void_order, refund_order_item and the others).
StockConserved == \A i \in Item : item[i].qty = InitQty + net[i] - Outside(i)

\* Concurrent voids and refunds of an order put back each unit of a coin or ounce
\* once: a void all of them, line refunds what they refunded, /refund none.
RestoredOnce == \A d \in Committed : \A k \in DOMAIN orders[d].lines :
  LET l == orders[d].lines[k] IN
  /\ l.refunded <= l.qty /\ l.restored <= l.qty
  /\ orders[d].status = "VOIDED" => l.refunded = 0
  /\ l.item \notin Product =>
       l.restored = IF orders[d].status = "VOIDED" THEN l.qty ELSE l.refunded

\* No unit is lost, sold twice or put back twice; the state is well typed.
StockAccounted == TypeOK /\ StockConserved /\ RestoredOnce

\* Two checkouts that counted the same orders do not both get the number
\* (generate_order_number and the unique order_number).
NumbersUnique == \A c, d \in Committed : orders[c].number = orders[d].number => c = d

\* "SOLD once nothing is left on hand" (_checkout_product_line): the derived flag
\* follows the stock through sales, voids, refunds, removals and restorations.
FlagFollowsStock == \A i \in Product :
  item[i].status \notin Withdrawn => (item[i].status = "SOLD" <=> item[i].qty = 0)

\* A melted product is gone: no handler sells it, revives it or puts units of it
\* back, even one that was waiting for its row (create_melt, void_order).
MeltedStays == [][\A i \in Item :
  item[i].status = "MELTED" => item'[i].status = "MELTED" /\ (EditsStock \/ item'[i] = item[i])]_vars

\* An order only moves forward: a void and a full refund end it, a partly refunded
\* one can only be refunded further, and refunds are never taken back.
OrderMovesForward == [][\A d \in Committed :
  /\ orders[d].status \in {"VOIDED", "REFUNDED"} => orders'[d] = orders[d]
  /\ orders[d].status = "PARTIALLY_REFUNDED" => orders'[d].status \in {"PARTIALLY_REFUNDED", "REFUNDED"}
  /\ \A k \in DOMAIN orders[d].lines :
       orders'[d].lines[k].refunded >= orders[d].lines[k].refunded]_vars

\* Neither a melted product nor an order's refunds come back.
GoneStaysGone == MeltedStays /\ OrderMovesForward

\* A handler with a stock row in hand waits for another one, as the payload of a sale or
\* the lines of an order come; or a purchase that booked a lot of pure gold, and has
\* the audit-ledger head, waits for a stock row.
Crosses(p) ==
  /\ tx[p].pc = "lines" /\ NextItem(p) # NONE
  /\ (\E i \in Item : itemLock[i] = p) \/ (tx[p].op = "move" /\ auditLock = p)
CrossedRows == \E S \in SUBSET Proc : Circle(S) /\ \E q \in S : Crosses(q)

\* Every request ends by itself, committed or refused, without the deadlock detector:
\* order row, stock rows, order number and audit-ledger head are taken in an order
\* that lets all handlers through, unless two of them hold what the other wants
\* because their lines name stock rows in different orders or after pure gold.
EveryRequestEnds == \A p \in Proc :
  tx[p].pc # "idle" ~> tx[p].pc = "idle" \/ CrossedRows

\* inventory._expected_unit_qty: the stock the recorded history implies.
SoldOn(d, i) == SumFunctionOnSet([k \in DOMAIN orders[d].lines |-> orders[d].lines[k].qty],
                                 {k \in DOMAIN orders[d].lines : orders[d].lines[k].item = i})
SoldBy(i) == SumFunctionOnSet([d \in Committed |-> SoldOn(d, i)],
                              {d \in Committed : orders[d].status \in {"COMPLETED", "REFUNDED"}})
ExpectedQty(i) == InitQty + net[i] - SoldBy(i)

\* The reconciliation agrees with the stock of a coin or ounce none of whose lines
\* was refunded by item, through sales, voids and whole-order refunds.
ReconcilesUnrefunded == \A i \in Item \ Product :
  (\A d \in Committed : \A k \in DOMAIN orders[d].lines :
     orders[d].status # "PARTIALLY_REFUNDED" /\ orders[d].lines[k].refunded = 0)
  => ExpectedQty(i) = item[i].qty

\* Each request takes effect in one step on the shelf as it is then, however many
\* steps its transaction took and whoever committed meanwhile (the locks of
\* create_order, void_order, refund_order, refund_order_item).  Editing the stock in
\* the product form breaks it, and is left out.
OnShelf == INSTANCE Shelf
KeepsPromise == OnShelf!Spec
=============================================================================
