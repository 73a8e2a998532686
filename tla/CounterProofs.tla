---------------------------- MODULE CounterProofs ----------------------------
(***************************************************************************)
(* Proofs about Counter, for any handlers, items, orders and bounds: stock *)
(* is accounted for, order numbers are unique, what is gone stays gone,    *)
(* the reconciliation agrees where nothing was refunded by line, and, as   *)
(* long as nobody edits stock in the product form, the flag of a product   *)
(* follows its stock and the counter implements Shelf.                     *)
(***************************************************************************)
EXTENDS Counter, SumTheorems, SequenceTheorems

-----------------------------------------------------------------------------
(* The inductive invariant. *)

IsSession(x) == x = [pc |-> x.pc, op |-> x.op, order |-> x.order, number |-> x.number,
                     todo |-> x.todo, cart |-> x.cart, rows |-> x.rows, back |-> x.back]

Shaped ==
  /\ tx = [p \in Proc |-> tx[p]]
  /\ \A p \in Proc : IsSession(tx[p])

OnOrder == {"void", "refund", "itemRefund"}
OnFlag == {"edit", "remove", "restore", "melt"}

LinesOf(p) == orders[tx[p].order].lines

\* Which handler does what, and that it has nothing left to do when it commits.
Course(p) ==
  LET x == tx[p] IN
  /\ x.pc = "idle" => x = IdleTx
  /\ x.op = "none" => x.pc = "idle"
  /\ x.pc = "order" => x.op \in OnOrder /\ x.rows = <<>> /\ x.back = <<>>
  /\ x.pc = "insert" => x.op = "sale"
  /\ x.pc = "lines" => x.todo # <<>>
  /\ x.pc \in {"insert", "event", "commit"} => x.todo = <<>>
  /\ x.op = "refund" => x.pc \in {"order", "commit"} /\ x.todo = <<>> /\ x.rows = <<>> /\ x.back = <<>>

\* The rows a handler has written are locked, and so is the order it works on: it is
\* what it was when the handler judged it.
Holds(p) ==
  LET x == tx[p] IN
  /\ \A i \in DOMAIN x.rows : itemLock[i] = p
  /\ x.op \in OnOrder =>
       /\ x.order \in Committed
       /\ x.pc # "order" => orderLock[x.order] = p
       /\ x.pc # "order" /\ x.op # "itemRefund" => orders[x.order].status = "COMPLETED"
  /\ x.op = "itemRefund" =>
       /\ Len(x.cart) = 1 /\ x.cart[1].line \in DOMAIN LinesOf(p)
       /\ x.cart[1].item = LinesOf(p)[x.cart[1].line].item /\ x.cart[1].qty >= 1
       /\ x.pc = "order" => x.todo = x.cart
       /\ x.pc # "order" =>
            /\ orders[x.order].status \in {"COMPLETED", "PARTIALLY_REFUNDED"}
            /\ x.cart[1].qty <= LinesOf(p)[x.cart[1].line].qty - LinesOf(p)[x.cart[1].line].refunded

\* A sale has taken the first lines of its cart off the rows.
Handled(p) == 1..(Len(tx[p].cart) - Len(tx[p].todo))
Quantities(s) == [k \in DOMAIN s |-> s[k].qty]
Taken(p, i) == SumFunctionOnSet(Quantities(tx[p].cart), {k \in Handled(p) : tx[p].cart[k].item = i})

Selling(p) ==
  LET x == tx[p] IN x.op = "sale" =>
    /\ x.pc # "order" /\ x.back = <<>> /\ x.cart # <<>>
    /\ x.order \in Order /\ orders[x.order].status = "NEW"
    /\ \A q \in Proc : q # p => tx[q].order # x.order
    /\ \A k \in DOMAIN x.cart : x.cart[k].item \in Item /\ x.cart[k].qty >= 1
    /\ Len(x.todo) <= Len(x.cart)
    /\ \A j \in DOMAIN x.todo : x.todo[j] = x.cart[Len(x.cart) - Len(x.todo) + j]
    /\ DOMAIN x.rows = {x.cart[k].item : k \in Handled(p)}
    /\ \A i \in DOMAIN x.rows :
         /\ item[i].status \notin Withdrawn
         /\ x.rows[i].qty = item[i].qty - Taken(p, i) /\ x.rows[i].qty >= 0
         /\ x.rows[i].status = Flag(i, x.rows[i].qty)

\* A number inserted is nobody else's.
Numbered(p) == tx[p].op = "sale" /\ tx[p].pc \in {"event", "commit"} =>
  ~NumberTaken(tx[p].number) /\ SameNumber(p) = {}

\* A void or a line refund has put back the lines it is done with, but for those of
\* withdrawn products.
Asked(p) == IF tx[p].op = "void" THEN DOMAIN LinesOf(p) ELSE {tx[p].cart[1].line}
UnitsAsked(p, k) == IF tx[p].op = "void" THEN LinesOf(p)[k].qty ELSE tx[p].cart[1].qty
Waiting(p) == {tx[p].todo[j].line : j \in DOMAIN tx[p].todo}
Brought(p, i) == SumFunctionOnSet(tx[p].back, {k \in DOMAIN tx[p].back : LinesOf(p)[k].item = i})

Returning(p) ==
  LET x == tx[p] IN x.op \in {"void", "itemRefund"} /\ x.pc # "order" =>
    /\ \A j \in DOMAIN x.todo :
         /\ x.todo[j].line \in Asked(p) /\ x.todo[j].item = LinesOf(p)[x.todo[j].line].item
         /\ x.todo[j].qty = UnitsAsked(p, x.todo[j].line)
    /\ \A j, k \in DOMAIN x.todo : x.todo[j].line = x.todo[k].line => j = k
    /\ DOMAIN x.back \subseteq Asked(p) \ Waiting(p)
    /\ \A k \in DOMAIN x.back : x.back[k] = UnitsAsked(p, k)
    /\ \A k \in Asked(p) \ Waiting(p) :
         /\ LinesOf(p)[k].item \in DOMAIN x.rows
         /\ k \in DOMAIN x.back <=> item[LinesOf(p)[k].item].status \notin Withdrawn
    /\ \A i \in DOMAIN x.rows :
         /\ \E k \in Asked(p) \ Waiting(p) : LinesOf(p)[k].item = i
         /\ IF item[i].status \in Withdrawn THEN x.rows[i] = item[i]
            ELSE x.rows[i].qty = item[i].qty + Brought(p, i) /\ x.rows[i].status = "AVAILABLE"

\* Purchases, buybacks and adjustments touch no product and no flag.
Moving(p) ==
  LET x == tx[p] IN x.op = "move" =>
    /\ \A j \in DOMAIN x.todo : x.todo[j].item \notin Product
    /\ \A i \in DOMAIN x.rows :
         i \notin Product /\ x.rows[i].qty >= 0 /\ x.rows[i].status = item[i].status

\* The product form, removing, restoring and melting are about one product.
Flagging(p) ==
  LET x == tx[p] IN x.op \in OnFlag =>
    /\ Len(x.todo) <= 1 /\ (x.todo # <<>> => x.rows = <<>>)
    /\ \A j \in DOMAIN x.todo : x.todo[j].item \in Product /\ x.todo[j].qty >= 0
    /\ \A i, j \in DOMAIN x.rows : i = j
    /\ x.op = "edit" => EditsStock
    /\ \A i \in DOMAIN x.rows :
         /\ i \in Product
         /\ x.op = "edit" => x.rows[i].qty >= 0 /\ x.rows[i].status = item[i].status
         /\ x.op # "edit" => x.rows[i].qty = item[i].qty
         /\ x.op = "remove" =>
              item[i].status \in {"AVAILABLE", "INACTIVE"} /\ x.rows[i].status = "INACTIVE"
         /\ x.op = "restore" => item[i].status = "INACTIVE" /\ x.rows[i].status = "AVAILABLE"
         /\ x.op = "melt" =>
              item[i].status \in {"AVAILABLE", "INACTIVE"} /\ x.rows[i].status = "MELTED"

\* What the lines of an order say of its refunds.
LineSound(d, k) ==
  LET l == orders[d].lines[k] IN
  /\ l.qty >= 1 /\ l.refunded <= l.qty
  /\ orders[d].status \in {"COMPLETED", "VOIDED"} => l.refunded = 0
  /\ l.restored <= IF orders[d].status = "VOIDED" THEN l.qty ELSE l.refunded
  /\ l.item \notin Product =>
       l.restored = IF orders[d].status = "VOIDED" THEN l.qty ELSE l.refunded

OrderSound(d) == orders[d].lines # <<>> /\ \A k \in DOMAIN orders[d].lines : LineSound(d, k)

CoinsPlain == \A i \in Item \ Product : item[i].status = "AVAILABLE"

SessionSound(p) ==
  Course(p) /\ Holds(p) /\ Selling(p) /\ Returning(p) /\ Moving(p) /\ Flagging(p)

CounterInv ==
  /\ TypeOK /\ Shaped
  /\ \A p \in Proc : SessionSound(p) /\ Numbered(p)
  /\ IsFiniteSet(Committed) /\ (\A d \in Committed : OrderSound(d))
  /\ CoinsPlain /\ NumbersUnique /\ StockConserved

\* The flag of a product that is not melted, while nobody edits stock.
FlagInv == \A i \in Product :
  item[i].status # "MELTED" => (item[i].status = "SOLD" <=> item[i].qty = 0)

-----------------------------------------------------------------------------
(* What a step of p leaves of the others. *)

\* What q has written stays locked and as it was, and so does the order q works on.
Spared(p, q) ==
  /\ tx'[q] = tx[q]
  /\ \A i \in DOMAIN tx[q].rows : itemLock'[i] = q /\ item'[i] = item[i]
  /\ tx[q].op \in OnOrder =>
       /\ tx[q].order \in Committed'
       /\ DOMAIN LinesOf(q)' = DOMAIN LinesOf(q)
       /\ \A k \in DOMAIN LinesOf(q) : LinesOf(q)[k].item' = LinesOf(q)[k].item
       /\ tx[q].pc # "order" =>
            orderLock'[tx[q].order] = q /\ orders'[tx[q].order] = orders[tx[q].order]
  /\ tx[q].op = "sale" =>
       /\ orders'[tx[q].order] = orders[tx[q].order]
       /\ \A r \in Proc : r # q => tx'[r].order # tx[q].order

\* What q knows stays true.
LEMMA OthersSound ==
  ASSUME NEW p, NEW q \in Proc, SessionSound(q), TxOK(tx[q]), Spared(p, q)
  PROVE  SessionSound(q)'
<1> DEFINE x == tx[q]
<1>1. tx'[q] = x /\ \A i \in DOMAIN x.rows : itemLock'[i] = q /\ item'[i] = item[i]
  BY DEF Spared
<1>2. Course(q)'
  BY <1>1 DEF SessionSound, Course
<1>3. Holds(q)'
  <2>1. x.op \in OnOrder =>
          /\ x.order \in Committed'
          /\ x.pc # "order" => orderLock'[x.order] = q /\ orders'[x.order] = orders[x.order]
    BY DEF Spared
  <2>2. x.op = "itemRefund" =>
          /\ x.cart[1].line \in DOMAIN orders'[x.order].lines
          /\ x.cart[1].item = orders'[x.order].lines[x.cart[1].line].item
    BY DEF Spared, LinesOf, OnOrder, SessionSound, Holds
  <2> QED BY <1>1, <2>1, <2>2 DEF SessionSound, Holds, LinesOf, OnOrder
<1>4. Selling(q)'
  <2> SUFFICES ASSUME x.op = "sale" PROVE Selling(q)'
    BY <1>1 DEF Selling
  <2>1. orders'[x.order] = orders[x.order] /\ \A r \in Proc : r # q => tx'[r].order # x.order
    BY DEF Spared
  <2>2. Handled(q)' = Handled(q) /\ \A i : Taken(q, i)' = Taken(q, i)
    BY <1>1 DEF Handled, Taken
  <2> QED BY <1>1, <2>1, <2>2 DEF SessionSound, Selling
<1>5. Returning(q)'
  <2> SUFFICES ASSUME x.op \in {"void", "itemRefund"}, x.pc # "order" PROVE Returning(q)'
    BY <1>1 DEF Returning
  <2>1. LinesOf(q)' = LinesOf(q)
    BY <1>1 DEF Spared, OnOrder, LinesOf
  <2>2. /\ Asked(q)' = Asked(q) /\ Waiting(q)' = Waiting(q)
        /\ (\A k : UnitsAsked(q, k)' = UnitsAsked(q, k))
        /\ \A i : Brought(q, i)' = Brought(q, i)
    BY <1>1, <2>1 DEF Asked, Waiting, UnitsAsked, Brought
  <2>3. \A k \in Asked(q) \ Waiting(q) : LinesOf(q)[k].item \in DOMAIN x.rows
    BY DEF SessionSound, Returning
  <2> QED BY <1>1, <2>1, <2>2, <2>3 DEF SessionSound, Returning
<1>6. Moving(q)' /\ Flagging(q)'
  BY <1>1 DEF SessionSound, Moving, Flagging
<1> QED BY <1>2, <1>3, <1>4, <1>5, <1>6 DEF SessionSound

\* A handler given a record of the right fields.
LEMMA Given ==
  ASSUME Shaped, NEW p \in Proc, NEW x, tx' = [tx EXCEPT ![p] = x], IsSession(x)
  PROVE  Shaped' /\ tx'[p] = x /\ \A q \in Proc : q # p => tx'[q] = tx[q]
BY DEF Shaped, IsSession

-----------------------------------------------------------------------------
(* Steps that write no table. *)

\* The numbers inserted and not committed by sales other than p.
OpenNumbers(p) == {tx[q].number : q \in {q \in Proc \ {p} :
                     tx[q].op = "sale" /\ tx[q].pc \in {"event", "commit"}}}

\* Rows and orders that stay as they are keep everything that is said of them.
LEMMA QuietCounter ==
  ASSUME CounterInv, NEW p \in Proc, UNCHANGED tables,
         Shaped', SessionSound(p)', TxOK(tx[p])',
         \A q \in Proc : q # p => tx'[q] = tx[q],
         itemLock' \in [Item -> Proc \cup {NONE}], orderLock' \in [Order -> Proc \cup {NONE}],
         auditLock' \in Proc \cup {NONE},
         \A i \in Item : itemLock[i] \notin {NONE, p} => itemLock'[i] = itemLock[i],
         \A d \in Order : orderLock[d] \notin {NONE, p} => orderLock'[d] = orderLock[d],
         \A q \in Proc : q # p /\ tx[q].op = "sale" => tx'[p].order # tx[q].order,
         tx'[p].op = "sale" /\ tx'[p].pc \in {"event", "commit"} =>
           ~NumberTaken(tx'[p].number) /\ tx'[p].number \notin OpenNumbers(p)
  PROVE  CounterInv'
<1>0. TypeOK /\ \A q \in Proc : SessionSound(q) /\ Numbered(q) /\ TxOK(tx[q])
  BY DEF CounterInv, TypeOK
<1>1. item' = item /\ orders' = orders /\ net' = net /\ Committed' = Committed
  BY DEF tables, Committed
<1>2. ASSUME NEW q \in Proc, q # p PROVE Spared(p, q)
  <2>1. tx'[q] = tx[q] /\ Holds(q) /\ Selling(q) /\ Course(q) /\ q # NONE
    BY <1>0, <1>2, NoneAssumption DEF SessionSound
  <2>2. \A i \in DOMAIN tx[q].rows : itemLock'[i] = q /\ item'[i] = item[i]
    BY <1>0, <1>1, <1>2, <2>1 DEF Holds, TxOK
  <2>3. tx[q].op \in OnOrder => tx[q].order \in Committed /\ tx[q].order \in Order
    BY <2>1 DEF Holds, Committed
  <2>4. tx[q].op \in OnOrder /\ tx[q].pc # "order" => orderLock'[tx[q].order] = q
    BY <1>2, <2>1, <2>3 DEF Holds
  <2>5. ASSUME tx[q].op = "sale", NEW r \in Proc, r # q PROVE tx'[r].order # tx[q].order
    BY <1>2, <2>1, <2>5 DEF Selling
  <2> QED BY <1>1, <2>1, <2>2, <2>3, <2>4, <2>5 DEF Spared, LinesOf
<1>3. \A q \in Proc : SessionSound(q)' /\ TxOK(tx[q])'
  <2> SUFFICES ASSUME NEW q \in Proc, q # p PROVE SessionSound(q)' /\ TxOK(tx[q])'
    OBVIOUS
  <2>1. SessionSound(q)'
    BY <1>0, <1>2, OthersSound
  <2>2. TxOK(tx[q])'
    BY <1>0 DEF TxOK
  <2> QED BY <2>1, <2>2
<1>4. ASSUME NEW q \in Proc, tx'[q].op = "sale", tx'[q].pc \in {"event", "commit"}
      PROVE  ~NumberTaken(tx[q].number)' /\ SameNumber(q)' = {}
  <2>2. CASE q = p
    <3>1. ~NumberTaken(tx'[p].number) /\ tx'[p].number \notin OpenNumbers(p)
      BY <1>4, <2>2
    <3>2. SameNumber(p)' = {}
      BY <3>1 DEF SameNumber, OpenNumbers
    <3>3. ~NumberTaken(tx[p].number)'
      BY <1>1, <3>1 DEF NumberTaken
    <3> QED BY <2>2, <3>2, <3>3
  <2>3. CASE q # p
    <3>1. tx'[q] = tx[q] /\ ~NumberTaken(tx[q].number) /\ SameNumber(q) = {}
      BY <1>0, <1>4, <2>3 DEF Numbered
    <3>2. tx[q].number \in OpenNumbers(p)
      BY <1>4, <2>3, <3>1 DEF OpenNumbers
    <3>3. p \notin SameNumber(q)'
      BY <3>1, <3>2 DEF SameNumber
    <3>4. ASSUME NEW r \in Proc, r # p PROVE r \notin SameNumber(q)'
      BY <3>1, <3>4 DEF SameNumber
    <3>5. SameNumber(q)' = {}
      BY <3>3, <3>4 DEF SameNumber
    <3>6. ~NumberTaken(tx[q].number)'
      BY <1>1, <3>1 DEF NumberTaken
    <3> QED BY <3>5, <3>6
  <2> QED BY <2>2, <2>3
<1>5. \A q \in Proc : Numbered(q)'
  BY <1>4 DEF Numbered
<1>6. TypeOK'
  BY <1>0, <1>1, <1>3 DEF TypeOK
<1>7. /\ IsFiniteSet(Committed)' /\ (\A d \in Committed' : OrderSound(d)') /\ CoinsPlain' /\ NumbersUnique'
  BY <1>1 DEF CounterInv, OrderSound, LineSound, CoinsPlain, NumbersUnique
<1>8. StockConserved'
  <2>1. \A i : Outside(i)' = Outside(i)
    BY <1>1 DEF Outside, OutOf
  <2> QED BY <1>1, <2>1 DEF CounterInv, StockConserved
<1> QED BY <1>3, <1>5, <1>6, <1>7, <1>8 DEF CounterInv

\* A session that is over knows nothing.
LEMMA IdleSound ==
  ASSUME NEW p, tx'[p] = IdleTx
  PROVE  SessionSound(p)' /\ TxOK(tx[p])'
<1>1. /\ tx'[p].pc = "idle" /\ tx'[p].op = "none" /\ tx'[p].order = NONE /\ tx'[p].number = 0
      /\ tx'[p].todo = <<>> /\ tx'[p].cart = <<>> /\ tx'[p].rows = <<>> /\ tx'[p].back = <<>>
  BY DEF IdleTx
<1>2. SessionSound(p)'
  BY <1>1 DEF SessionSound, Course, Holds, Selling, Returning, Moving, Flagging, OnOrder, OnFlag, IdleTx
<1>3. TxOK(tx[p])'
  BY <1>1 DEF TxOK, Ops
<1> QED BY <1>2, <1>3

\* Letting go of p's locks leaves everyone else's.
LEMMA Release ==
  ASSUME TypeOK, NEW p \in Proc, ReleaseAll(p)
  PROVE  /\ itemLock' \in [Item -> Proc \cup {NONE}] /\ orderLock' \in [Order -> Proc \cup {NONE}]
         /\ auditLock' \in Proc \cup {NONE}
         /\ \A i \in Item : itemLock[i] \notin {NONE, p} => itemLock'[i] = itemLock[i]
         /\ \A d \in Order : orderLock[d] \notin {NONE, p} => orderLock'[d] = orderLock[d]
BY DEF TypeOK, ReleaseAll, Released

\* A refused or aborted request writes nothing and lets go of its locks.
LEMMA RefuseCounter == ASSUME CounterInv, NEW p \in Proc, Refuse(p) PROVE CounterInv'
<1>1. IsSession(IdleTx)
  BY DEF IsSession, IdleTx
<1>2. Shaped' /\ tx'[p] = IdleTx /\ \A q \in Proc : q # p => tx'[q] = tx[q]
  BY <1>1, Given DEF Refuse, CounterInv
<1>3. SessionSound(p)' /\ TxOK(tx[p])'
  BY <1>2, IdleSound
<1>4. tx'[p].order = NONE /\ tx'[p].op = "none"
  BY <1>2 DEF IdleTx
<1>5. \A q \in Proc : tx[q].op = "sale" => tx[q].order \in Order
  BY DEF CounterInv, SessionSound, Selling
<1> QED BY <1>2, <1>3, <1>4, <1>5, NoneAssumption, Release, QuietCounter DEF Refuse, CounterInv

\* A request that locks nothing yet.
LEMMA BeginCounter ==
  ASSUME CounterInv, NEW p \in Proc, NEW x, IsSession(x), Begin(p, x), TxOK(x), SessionSound(p)',
         x.order \in Committed \cup {NONE} \/ \A q \in Proc : tx[q].order # x.order,
         x.pc \in {"order", "lines"}
  PROVE  CounterInv'
<1>1. Shaped' /\ tx'[p] = x /\ (\A q \in Proc : q # p => tx'[q] = tx[q])
  BY Given DEF Begin, CounterInv
<1>2. UNCHANGED <<tables, itemLock, orderLock, auditLock>>
  BY DEF Begin
<1>3. \A q \in Proc : q # p /\ tx[q].op = "sale" => tx'[p].order # tx[q].order
  <2> SUFFICES ASSUME NEW q \in Proc, tx[q].op = "sale" PROVE x.order # tx[q].order
    BY <1>1
  <2>1. tx[q].order \in Order /\ tx[q].order \notin Committed
    BY DEF CounterInv, SessionSound, Selling, Committed
  <2> QED BY <2>1, NoneAssumption
<1>4. TxOK(tx[p])'
  BY <1>1 DEF TxOK
<1> QED BY <1>1, <1>2, <1>3, <1>4, QuietCounter DEF CounterInv, TypeOK

\* The lines of a request.
LEMMA RequestFacts ==
  ASSUME NEW S \in SUBSET (Item \cup {NONE}), NEW s \in Requests(S)
  PROVE  /\ s \in Seq(Entry) /\ s # <<>>
         /\ \A j \in DOMAIN s : s[j].item \in S /\ s[j].qty \in Nat /\ s[j].qty >= 1
<1> DEFINE R == {[item |-> i, qty |-> q, line |-> 0] : i \in S, q \in 1..MaxUnits}
<1>1. PICK k \in 1..MaxUnits : s \in [1..k -> R]
  BY DEF Requests, SeqsUpTo
<1>2. \A e \in R : e \in Entry /\ e.item \in S /\ e.qty \in Nat /\ e.qty >= 1
  BY BoundAssumption DEF Entry
<1>3. k \in Nat /\ k >= 1
  BY <1>1, BoundAssumption
<1> HIDE DEF R
<1>4. \A j \in 1..k : s[j] \in R
  BY <1>1
<1>5. s \in [1..k -> Entry]
  BY <1>1, <1>2, <1>4
<1>6. s \in Seq(Entry)
  BY <1>3, <1>5
<1>7. s # <<>>
  BY <1>1, <1>3
<1> QED BY <1>1, <1>2, <1>4, <1>6, <1>7

\* What the rows of orders hold.
LEMMA OrderTypes ==
  ASSUME TypeOK, NEW d \in Order
  PROVE  /\ orders[d].number \in Nat /\ orders[d].lines \in Seq(OrderLine)
         /\ DOMAIN orders[d].lines = 1..Len(orders[d].lines) /\ Len(orders[d].lines) \in Nat
         /\ \A k \in DOMAIN orders[d].lines :
              /\ k \in Nat /\ orders[d].lines[k] \in OrderLine
              /\ orders[d].lines[k].item \in Item /\ orders[d].lines[k].qty \in Nat
              /\ orders[d].lines[k].refunded \in Nat /\ orders[d].lines[k].restored \in Nat
<1>1. orders[d] \in OrderRow
  BY DEF TypeOK
<1>2. orders[d].number \in Nat /\ orders[d].lines \in Seq(OrderLine)
  BY <1>1 DEF OrderRow
<1> DEFINE s == orders[d].lines
<1>3. s \in Seq(OrderLine)
  BY <1>2
<1> HIDE DEF s
<1>4. DOMAIN s = 1..Len(s) /\ Len(s) \in Nat /\ \A k \in DOMAIN s : k \in Nat /\ s[k] \in OrderLine
  BY <1>3
<1>5. \A k \in DOMAIN s : /\ s[k].item \in Item /\ s[k].qty \in Nat
                          /\ s[k].refunded \in Nat /\ s[k].restored \in Nat
  BY <1>4 DEF OrderLine
<1> QED BY <1>2, <1>4, <1>5 DEF s

\* A request counts or reads what it needs, and no more.
LEMMA SaleBegins == ASSUME CounterInv, NEW p \in Proc, BeginSale(p) PROVE CounterInv'
<1>1. PICK d \in Order, cart \in Requests(Item) :
        /\ d \notin Committed /\ \A q \in Proc : tx[q].order # d
        /\ Begin(p, [IdleTx EXCEPT !.pc = "lines", !.op = "sale", !.order = d, !.cart = cart,
                       !.todo = cart, !.number = Cardinality(Committed) + 1])
  BY DEF BeginSale
<1>2. PICK n : n = Cardinality(Committed) + 1
  OBVIOUS
<1>3. n \in Nat
  BY <1>2, FS_CardinalityType DEF CounterInv
<1>4. PICK x : x = [IdleTx EXCEPT !.pc = "lines", !.op = "sale", !.order = d, !.cart = cart,
                      !.todo = cart, !.number = n]
  OBVIOUS
<1>5. /\ IsSession(x) /\ x.pc = "lines" /\ x.op = "sale" /\ x.order = d /\ x.cart = cart
      /\ x.todo = cart /\ x.number = n /\ x.rows = <<>> /\ x.back = <<>>
  BY <1>4 DEF IsSession, IdleTx
<1>6. Begin(p, x)
  BY <1>1, <1>2, <1>4
<1>7. /\ cart \in Seq(Entry) /\ cart # <<>>
      /\ \A j \in DOMAIN cart : cart[j].item \in Item /\ cart[j].qty >= 1
  BY RequestFacts
<1>8. TxOK(x)
  BY <1>3, <1>5, <1>7 DEF TxOK, Ops, OrderOps
<1>9. tx'[p] = x /\ (\A q \in Proc : q # p => tx'[q] = tx[q]) /\ orders' = orders
  BY <1>5, <1>6, Given DEF Begin, CounterInv, tables
<1>10. SessionSound(p)'
  <2>1. Selling(p)'
    <3>1. orders[d].status = "NEW"
      BY <1>1 DEF Committed
    <3>2. Handled(p)' = {}
      <4>1. Len(cart) \in Nat
        BY <1>7
      <4>2. Handled(p)' = 1..(Len(cart) - Len(cart))
        <5>1. tx'[p].cart = cart /\ tx'[p].todo = cart
          BY <1>5, <1>9
        <5> QED BY <5>1 DEF Handled
      <4>3. Len(cart) - Len(cart) = 0 /\ 1..0 = {}
        BY <4>1
      <4> QED BY <4>2, <4>3
    <3>3. DOMAIN x.rows = {}
      BY <1>5
    <3>4. \A j \in DOMAIN cart : cart[j] = cart[Len(cart) - Len(cart) + j]
      BY <1>7
    <3> QED BY <1>1, <1>5, <1>7, <1>9, <3>1, <3>2, <3>3, <3>4 DEF Selling
  <2> QED BY <1>5, <1>7, <1>9, <2>1 DEF SessionSound, Course, Holds, Returning, Moving, Flagging,
             OnOrder, OnFlag
<1> QED BY <1>1, <1>5, <1>6, <1>8, <1>10, BeginCounter

\* A void or a refund starts on a committed order, and knows nothing of it yet.
LEMMA OnOrderBegins ==
  ASSUME CounterInv, NEW p \in Proc, NEW op \in {"void", "refund"}, BeginOnOrder(p, op)
  PROVE  CounterInv'
<1>1. PICK d \in Committed : Begin(p, [IdleTx EXCEPT !.pc = "order", !.op = op, !.order = d])
  BY DEF BeginOnOrder
<1>2. PICK x : x = [IdleTx EXCEPT !.pc = "order", !.op = op, !.order = d]
  OBVIOUS
<1>3. /\ IsSession(x) /\ x.pc = "order" /\ x.op = op /\ x.order = d /\ x.cart = <<>>
      /\ x.todo = <<>> /\ x.number = 0 /\ x.rows = <<>> /\ x.back = <<>>
  BY <1>2 DEF IsSession, IdleTx
<1>4. Begin(p, x)
  BY <1>1, <1>2
<1>5. tx'[p] = x /\ orders' = orders
  BY <1>3, <1>4, Given DEF Begin, CounterInv, tables
<1>6. TxOK(x)
  BY <1>3 DEF TxOK, Ops, OrderOps, Committed
<1>7. Committed' = Committed
  BY <1>5 DEF Committed
<1>8. SessionSound(p)'
  BY <1>3, <1>5, <1>7 DEF SessionSound, Course, Holds, Selling, Returning, Moving, Flagging, OnOrder, OnFlag
<1> QED BY <1>3, <1>4, <1>6, <1>8, BeginCounter

\* A line refund starts on a line of a committed order.
LEMMA ItemRefundBegins == ASSUME CounterInv, NEW p \in Proc, BeginItemRefund(p) PROVE CounterInv'
<1>1. PICK d \in Committed, u \in 1..MaxUnits : \E k \in DOMAIN orders[d].lines :
        LET refund == <<[item |-> orders[d].lines[k].item, qty |-> u, line |-> k]>> IN
        Begin(p, [IdleTx EXCEPT !.pc = "order", !.op = "itemRefund", !.order = d,
                    !.cart = refund, !.todo = refund])
  BY DEF BeginItemRefund
<1>2. PICK k \in DOMAIN orders[d].lines :
        LET refund == <<[item |-> orders[d].lines[k].item, qty |-> u, line |-> k]>> IN
        Begin(p, [IdleTx EXCEPT !.pc = "order", !.op = "itemRefund", !.order = d,
                    !.cart = refund, !.todo = refund])
  BY <1>1
<1>3. PICK e : e = [item |-> orders[d].lines[k].item, qty |-> u, line |-> k]
  OBVIOUS
<1>4. PICK x : x = [IdleTx EXCEPT !.pc = "order", !.op = "itemRefund", !.order = d,
                      !.cart = <<e>>, !.todo = <<e>>]
  OBVIOUS
<1>5. /\ IsSession(x) /\ x.pc = "order" /\ x.op = "itemRefund" /\ x.order = d /\ x.cart = <<e>>
      /\ x.todo = <<e>> /\ x.number = 0 /\ x.rows = <<>> /\ x.back = <<>>
  BY <1>4 DEF IsSession, IdleTx
<1>6. Begin(p, x)
  BY <1>2, <1>3, <1>4
<1>7. tx'[p] = x /\ orders' = orders
  BY <1>5, <1>6, Given DEF Begin, CounterInv, tables
<1>8. d \in Order /\ e \in Entry /\ e.line = k /\ e.item = orders[d].lines[k].item /\ e.qty >= 1
  BY <1>3, OrderTypes, BoundAssumption DEF CounterInv, Committed, Entry
<1>9. <<e>> \in Seq(Entry) /\ Len(<<e>>) = 1 /\ <<e>>[1] = e
  BY <1>8
<1>10. TxOK(x)
  BY <1>5, <1>8, <1>9 DEF TxOK, Ops, OrderOps
<1>11. Committed' = Committed
  BY <1>7 DEF Committed
<1>12. SessionSound(p)'
  <2>1. Holds(p)'
    <3>1. x.cart[1] = e /\ LinesOf(p)' = orders[d].lines
      BY <1>5, <1>7, <1>9 DEF LinesOf
    <3>2. DOMAIN x.rows = {}
      BY <1>5
    <3> QED BY <1>5, <1>7, <1>8, <1>9, <1>11, <3>1, <3>2 DEF Holds, OnOrder
  <2>2. Course(p)' /\ Selling(p)' /\ Returning(p)' /\ Moving(p)' /\ Flagging(p)'
    BY <1>5, <1>7 DEF Course, Selling, Returning, Moving, Flagging, OnOrder, OnFlag
  <2> QED BY <2>1, <2>2 DEF SessionSound
<1> QED BY <1>5, <1>6, <1>10, <1>12, BeginCounter

\* A purchase, a buyback, an adjustment or a change of flag starts with its lines alone.
LEMMA StockBegins ==
  ASSUME CounterInv, NEW p \in Proc, NEW op \in {"move"} \cup OnFlag, NEW s \in Seq(Entry), s # <<>>,
         Begin(p, OnStock(op, s)),
         op = "move" => \A j \in DOMAIN s : s[j].item \notin Product,
         op \in OnFlag => Len(s) = 1 /\ s[1].item \in Product /\ s[1].qty >= 0,
         op = "edit" => EditsStock
  PROVE  CounterInv'
<1>1. PICK x : x = [IdleTx EXCEPT !.pc = "lines", !.op = op, !.todo = s]
  OBVIOUS
<1>2. /\ IsSession(x) /\ x.pc = "lines" /\ x.op = op /\ x.order = NONE /\ x.cart = <<>>
      /\ x.todo = s /\ x.number = 0 /\ x.rows = <<>> /\ x.back = <<>>
  BY <1>1 DEF IsSession, IdleTx
<1>3. Begin(p, x)
  BY <1>1 DEF OnStock
<1>4. tx'[p] = x
  <2>1. Shaped /\ tx' = [tx EXCEPT ![p] = x]
    BY <1>3 DEF Begin, CounterInv
  <2> QED BY <1>2, <2>1, Given
<1>5. TxOK(x)
  BY <1>2 DEF TxOK, Ops, OnFlag
<1>6. SessionSound(p)'
  <2>1. op \notin OnOrder /\ op # "sale" /\ op # "none" /\ op # "refund" /\ DOMAIN x.rows = {}
    BY <1>2 DEF OnOrder, OnFlag
  <2>2. Course(p)' /\ Holds(p)' /\ Selling(p)' /\ Returning(p)' /\ Moving(p)'
    BY <1>2, <1>4, <2>1 DEF Course, Holds, Selling, Returning, Moving, OnOrder
  <2>3. Flagging(p)'
    <3> SUFFICES ASSUME op \in OnFlag PROVE Flagging(p)'
      BY <1>2, <1>4 DEF Flagging
    <3>1. Len(s) = 1 /\ s[1].item \in Product /\ s[1].qty >= 0
      OBVIOUS
    <3>2. DOMAIN s = {1}
      BY <3>1
    <3>3. \A j \in DOMAIN s : s[j].item \in Product /\ s[j].qty >= 0
      BY <3>1, <3>2
    <3>4. tx'[p] = x /\ x.todo = s /\ x.rows = <<>> /\ x.op = op
      BY <1>2, <1>4
    <3>5. /\ Len(x.todo) <= 1 /\ x.rows = <<>> /\ DOMAIN x.rows = {}
          /\ \A j \in DOMAIN x.todo : x.todo[j].item \in Product /\ x.todo[j].qty >= 0
          /\ x.op = "edit" => EditsStock
      BY <1>2, <3>1, <3>3
    <3> QED BY <3>4, <3>5 DEF Flagging
  <2> QED BY <2>2, <2>3 DEF SessionSound
<1> QED BY <1>2, <1>3, <1>5, <1>6, BeginCounter

\* Every request keeps the invariant.
LEMMA RequestCounter == ASSUME CounterInv, NEW p \in Proc, Request(p) PROVE CounterInv'
<1>1. ASSUME NEW i \in Item, NEW q \in Int
      PROVE  /\ One(i, q) \in Seq(Entry) /\ One(i, q) # <<>> /\ Len(One(i, q)) = 1
             /\ One(i, q)[1].item = i /\ One(i, q)[1].qty = q /\ DOMAIN One(i, q) = {1}
  <2>1. [item |-> i, qty |-> q, line |-> 0] \in Entry
    BY DEF Entry
  <2> QED BY <2>1 DEF One
<1>2. CASE BeginBuyback(p)
  BY <1>1, <1>2, StockBegins DEF BeginBuyback, OnFlag
<1>3. CASE BeginAdjust(p)
  BY <1>1, <1>3, StockBegins DEF BeginAdjust, OnFlag
<1>4. CASE BeginPurchase(p)
  <2>1. PICK s \in Requests((Item \ Product) \cup {NONE}) : Begin(p, OnStock("move", s))
    BY <1>4 DEF BeginPurchase
  <2>2. /\ s \in Seq(Entry) /\ s # <<>>
        /\ \A j \in DOMAIN s : s[j].item \in (Item \ Product) \cup {NONE}
    BY RequestFacts
  <2> QED BY <2>1, <2>2, StockBegins, ItemAssumption, NoneAssumption DEF OnFlag
<1>5. CASE BeginEdit(p)
  <2>1. PICK i \in Product, q \in 0..InitQty : EditsStock /\ Begin(p, OnStock("edit", One(i, q)))
    BY <1>5 DEF BeginEdit
  <2>2. i \in Item /\ q \in Int /\ q >= 0
    BY ItemAssumption, BoundAssumption
  <2> QED BY <1>1, <2>1, <2>2, StockBegins DEF OnFlag
<1>6. ASSUME NEW op \in {"remove", "restore", "melt"}, BeginFlag(p, op) PROVE CounterInv'
  <2>1. PICK i \in Product : Begin(p, OnStock(op, One(i, 0)))
    BY <1>6 DEF BeginFlag
  <2> QED BY <1>1, <1>6, <2>1, StockBegins, ItemAssumption DEF OnFlag
<1> QED BY <1>2, <1>3, <1>4, <1>5, <1>6, SaleBegins, OnOrderBegins, ItemRefundBegins DEF Request

-----------------------------------------------------------------------------
(* The order is locked. *)

\* A void goes over every line of the order, and over none twice.
LEMMA ReversalFacts ==
  ASSUME TypeOK, NEW d \in Order, NEW todo \in Reversals(orders[d])
  PROVE  /\ todo \in Seq(Entry) /\ Len(todo) = Len(orders[d].lines)
         /\ \A j \in DOMAIN todo :
              /\ todo[j].line \in DOMAIN orders[d].lines
              /\ todo[j].item = orders[d].lines[todo[j].line].item
              /\ todo[j].qty = orders[d].lines[todo[j].line].qty
         /\ \A j, k \in DOMAIN todo : todo[j].line = todo[k].line => j = k
         /\ {todo[j].line : j \in DOMAIN todo} = DOMAIN orders[d].lines
<1>1. PICK s, n : s = orders[d].lines /\ n = Len(s)
  OBVIOUS
<1>2. /\ n \in Nat /\ DOMAIN s = 1..n
      /\ \A k \in 1..n : k \in Nat /\ s[k].item \in Item /\ s[k].qty \in Nat
  BY <1>1, OrderTypes
<1>3. PICK f \in Arrangements(n) :
        todo = [k \in 1..n |-> [item |-> s[f[k]].item, qty |-> s[f[k]].qty, line |-> f[k]]]
  BY <1>1, <1>2 DEF Reversals
<1>4. f \in [1..n -> 1..n] /\ \A j, k \in 1..n : f[j] = f[k] => j = k
  BY <1>3 DEF Arrangements
<1>5. \A m \in 1..n : \E j \in 1..n : f[j] = m
  <2> DEFINE S == 1..n
  <2>1. IsFiniteSet(S)
    BY <1>2, FS_Interval
  <2>2. f \in Injection(S, S)
    BY <1>4 DEF Injection, IsInjective
  <2> HIDE DEF S
  <2>3. f \in Surjection(S, S)
    BY <2>1, <2>2, FS_Injection
  <2> QED BY <2>3 DEF S, Surjection
<1>6. todo \in [1..n -> Entry]
  BY <1>2, <1>3, <1>4 DEF Entry
<1>7. todo \in Seq(Entry) /\ DOMAIN todo = 1..n /\ Len(todo) = n
  BY <1>2, <1>6
<1>8. \A j \in 1..n : todo[j].line = f[j] /\ todo[j].item = s[f[j]].item /\ todo[j].qty = s[f[j]].qty
  BY <1>3
<1>9. {todo[j].line : j \in 1..n} = 1..n
  <2>1. {todo[j].line : j \in 1..n} = {f[j] : j \in 1..n}
    BY <1>8
  <2>2. {f[j] : j \in 1..n} = 1..n
    BY <1>4, <1>5
  <2> QED BY <2>1, <2>2
<1>10. \A j \in 1..n : f[j] \in 1..n
  BY <1>4
<1>11. \A j, k \in 1..n : todo[j].line = todo[k].line => j = k
  BY <1>4, <1>8
<1>12. \A j \in 1..n : /\ todo[j].line \in DOMAIN s /\ todo[j].item = s[todo[j].line].item
                        /\ todo[j].qty = s[todo[j].line].qty
  BY <1>2, <1>8, <1>10
<1> QED BY <1>1, <1>2, <1>7, <1>9, <1>11, <1>12

\* The order judged is the order held.
LEMMA LockCounter == ASSUME CounterInv, NEW p \in Proc, LockOrder(p) PROVE CounterInv'
<1>0. CASE Refuse(p)
  BY <1>0, RefuseCounter
<1> SUFFICES ASSUME ~Refuse(p) PROVE CounterInv'
  BY <1>0
<1>1. PICK t, d, o : t = tx[p] /\ d = t.order /\ o = orders[d]
  OBVIOUS
<1>2. /\ t.pc = "order" /\ Free(orderLock[d], p) /\ Accepts(p, o)
      /\ orderLock' = [orderLock EXCEPT ![d] = p] /\ UNCHANGED <<tables, itemLock, auditLock>>
  BY <1>1 DEF LockOrder
<1>3. PICK todo \in IF t.op = "void" THEN Reversals(o) ELSE {t.todo} :
        tx' = [tx EXCEPT ![p].todo = todo, ![p].pc = IF t.op = "refund" THEN "commit" ELSE "lines"]
  BY <1>1, <1>2 DEF LockOrder
<1>4. PICK x : x = [t EXCEPT !.todo = todo, !.pc = IF t.op = "refund" THEN "commit" ELSE "lines"]
  OBVIOUS
<1>5. /\ TypeOK /\ Shaped /\ SessionSound(p) /\ Numbered(p) /\ IsSession(t) /\ TxOK(t)
      /\ t.op \in OnOrder /\ d \in Committed /\ d \in Order /\ t.rows = <<>> /\ t.back = <<>>
  BY <1>1, <1>2 DEF CounterInv, TypeOK, Shaped, SessionSound, Course, Holds, OnOrder, Committed
<1>6. /\ IsSession(x) /\ x.op = t.op /\ x.order = d /\ x.cart = t.cart /\ x.rows = <<>> /\ x.back = <<>>
      /\ x.number = t.number /\ x.todo = todo /\ x.pc = IF t.op = "refund" THEN "commit" ELSE "lines"
  BY <1>1, <1>4, <1>5 DEF IsSession
<1>7. tx' = [tx EXCEPT ![p] = x]
  BY <1>1, <1>3, <1>4, <1>5 DEF Shaped
<1>8. Shaped' /\ tx'[p] = x /\ \A q \in Proc : q # p => tx'[q] = tx[q]
  BY <1>5, <1>6, <1>7, Given
<1>9. orders' = orders /\ item' = item /\ Committed' = Committed /\ orderLock'[d] = p
  BY <1>2, <1>5 DEF tables, Committed, TypeOK
<1>10. t.op # "itemRefund" => o.status = "COMPLETED"
  BY <1>1, <1>2 DEF Accepts
<1>11. t.op # "void" => todo = t.todo
  BY <1>3
<1>12. todo \in Seq(Entry) /\ (t.op = "void" => todo # <<>>)
  <2>1. CASE t.op = "void"
    <3>1. todo \in Seq(Entry) /\ Len(todo) = Len(o.lines)
      BY <1>1, <1>3, <1>5, <2>1, ReversalFacts
    <3>2. o.lines # <<>> /\ o.lines \in Seq(OrderLine)
      BY <1>1, <1>5, OrderTypes DEF CounterInv, OrderSound
    <3> QED BY <3>1, <3>2
  <2>2. CASE t.op # "void"
    BY <1>5, <1>11, <2>2 DEF TxOK
  <2> QED BY <2>1, <2>2
<1>13. TxOK(x)
  BY <1>5, <1>6, <1>12 DEF TxOK
<1>14. t.op = "itemRefund" =>
         /\ Len(t.cart) = 1 /\ t.cart[1].line \in DOMAIN o.lines
         /\ t.cart[1].item = o.lines[t.cart[1].line].item /\ t.cart[1].qty >= 1
         /\ todo = t.cart /\ t.cart \in Seq(Entry)
         /\ o.status \in {"COMPLETED", "PARTIALLY_REFUNDED"}
         /\ t.cart[1].qty <= o.lines[t.cart[1].line].qty - o.lines[t.cart[1].line].refunded
  <2> SUFFICES ASSUME t.op = "itemRefund"
               PROVE  /\ Len(t.cart) = 1 /\ t.cart[1].line \in DOMAIN o.lines
                      /\ t.cart[1].item = o.lines[t.cart[1].line].item /\ t.cart[1].qty >= 1
                      /\ todo = t.cart /\ t.cart \in Seq(Entry)
                      /\ o.status \in {"COMPLETED", "PARTIALLY_REFUNDED"}
                      /\ t.cart[1].qty <= o.lines[t.cart[1].line].qty - o.lines[t.cart[1].line].refunded
    OBVIOUS
  <2>1. /\ Len(t.cart) = 1 /\ t.cart[1].line \in DOMAIN o.lines
        /\ t.cart[1].item = o.lines[t.cart[1].line].item /\ t.cart[1].qty >= 1 /\ t.todo = t.cart
    BY <1>1, <1>2, <1>5 DEF SessionSound, Holds, LinesOf
  <2>2. Head(t.todo) = t.cart[1] /\ t.cart \in Seq(Entry)
    BY <1>5, <2>1 DEF TxOK
  <2> QED BY <1>1, <1>2, <1>11, <2>1, <2>2 DEF Accepts
<1>15. LinesOf(p)' = o.lines
  BY <1>1, <1>6, <1>8, <1>9 DEF LinesOf
<1>16. Course(p)'
  <2>1. t.op = "refund" => todo = <<>>
    BY <1>1, <1>5, <1>11 DEF SessionSound, Course
  <2>2. t.op = "itemRefund" => todo # <<>>
    BY <1>14
  <2> QED BY <1>5, <1>6, <1>8, <1>12, <2>1, <2>2 DEF Course, OnOrder
<1>17. Holds(p)'
  <2>1. \A i \in DOMAIN x.rows : itemLock'[i] = p
    BY <1>6
  <2>2. x.order \in Committed' /\ orderLock'[x.order] = p /\ orders'[x.order] = o
    BY <1>1, <1>5, <1>6, <1>9
  <2> QED BY <1>6, <1>8, <1>10, <1>14, <1>15, <2>1, <2>2 DEF Holds, OnOrder
<1>18. Returning(p)'
  <2>0. t.op \in OnOrder /\ tx'[p] = x
    BY <1>5, <1>8
  <2>1. CASE t.op = "refund"
    BY <1>6, <2>0, <2>1 DEF Returning
  <2>2. CASE t.op \in {"void", "itemRefund"}
    <3>1. Waiting(p)' = {todo[j].line : j \in DOMAIN todo}
      BY <1>6, <2>0 DEF Waiting
    <3>2. /\ \A j \in DOMAIN todo :
               /\ todo[j].line \in Asked(p)' /\ todo[j].item = o.lines[todo[j].line].item
               /\ todo[j].qty = UnitsAsked(p, todo[j].line)'
          /\ \A j, k \in DOMAIN todo : todo[j].line = todo[k].line => j = k
          /\ {todo[j].line : j \in DOMAIN todo} = Asked(p)'
      <4>1. CASE t.op = "void"
        <5>1. Asked(p)' = DOMAIN o.lines /\ \A k : UnitsAsked(p, k)' = o.lines[k].qty
          BY <1>6, <1>15, <2>0, <4>1 DEF Asked, UnitsAsked
        <5>2. todo \in Reversals(orders[d])
          BY <1>1, <1>3, <4>1
        <5>3. /\ \A j \in DOMAIN todo :
                    /\ todo[j].line \in DOMAIN o.lines /\ todo[j].item = o.lines[todo[j].line].item
                    /\ todo[j].qty = o.lines[todo[j].line].qty
              /\ \A j, k \in DOMAIN todo : todo[j].line = todo[k].line => j = k
              /\ {todo[j].line : j \in DOMAIN todo} = DOMAIN o.lines
          <6>1. TypeOK /\ d \in Order /\ o = orders[d]
            BY <1>1, <1>5
          <6>2. /\ \A j \in DOMAIN todo :
                      /\ todo[j].line \in DOMAIN orders[d].lines
                      /\ todo[j].item = orders[d].lines[todo[j].line].item
                      /\ todo[j].qty = orders[d].lines[todo[j].line].qty
                /\ \A j, k \in DOMAIN todo : todo[j].line = todo[k].line => j = k
                /\ {todo[j].line : j \in DOMAIN todo} = DOMAIN orders[d].lines
            BY <6>1, <5>2, ReversalFacts, Zenon
          <6> QED BY <6>1, <6>2, Zenon
        <5> QED BY <5>1, <5>3
      <4>2. CASE t.op = "itemRefund"
        <5>1. Asked(p)' = {t.cart[1].line} /\ \A k : UnitsAsked(p, k)' = t.cart[1].qty
          BY <1>6, <2>0, <4>2 DEF Asked, UnitsAsked
        <5>2. DOMAIN todo = {1} /\ todo[1] = t.cart[1]
          BY <1>14, <4>2
        <5>3. t.cart[1].item = o.lines[t.cart[1].line].item
          BY <1>14, <4>2
        <5> QED BY <5>1, <5>2, <5>3
      <4> QED BY <2>2, <4>1, <4>2
    <3>3. DOMAIN x.rows = {} /\ DOMAIN x.back = {} /\ Asked(p)' \ Waiting(p)' = {}
      BY <1>6, <3>1, <3>2
    <3>4. x.todo = todo
      BY <1>6
    <3> QED BY <1>15, <2>0, <3>2, <3>3, <3>4 DEF Returning
  <2> QED BY <2>0, <2>1, <2>2 DEF OnOrder
<1>19. Selling(p)' /\ Moving(p)' /\ Flagging(p)'
  BY <1>5, <1>6, <1>8 DEF Selling, Moving, Flagging, OnOrder, OnFlag
<1>20. SessionSound(p)'
  BY <1>16, <1>17, <1>18, <1>19 DEF SessionSound
<1>21. \A q \in Proc : q # p /\ tx[q].op = "sale" => tx'[p].order # tx[q].order
  <2> SUFFICES ASSUME NEW q \in Proc, tx[q].op = "sale" PROVE x.order # tx[q].order
    BY <1>8
  <2>1. tx[q].order \notin Committed
    BY DEF CounterInv, SessionSound, Selling, Committed
  <2> QED BY <1>5, <1>6, <2>1
<1>22. TxOK(tx[p])'
  BY <1>8, <1>13 DEF TxOK
<1>23. /\ orderLock' \in [Order -> Proc \cup {NONE}]
       /\ \A c \in Order : orderLock[c] \notin {NONE, p} => orderLock'[c] = orderLock[c]
  BY <1>2, <1>5 DEF TypeOK, Free
<1>24. tx'[p].op # "sale"
  BY <1>5, <1>6, <1>8 DEF OnOrder
<1> QED BY <1>2, <1>5, <1>8, <1>20, <1>21, <1>22, <1>23, <1>24, QuietCounter DEF TypeOK

-----------------------------------------------------------------------------
(* The steps that write no row: the number, the event and the lots.         *)

\* No order a sale is about to create is another handler's.
LEMMA NobodyElses ==
  ASSUME CounterInv, NEW p \in Proc, NEW q \in Proc, q # p, tx[q].op = "sale"
  PROVE  tx[p].order # tx[q].order
BY DEF CounterInv, SessionSound, Selling

\* A step towards the commit, with all rows written.
LEMMA Onward ==
  ASSUME CounterInv, NEW p \in Proc, NEW c \in {"event", "commit"}, tx[p].pc \in {"insert", "event"},
         tx' = [tx EXCEPT ![p].pc = c], UNCHANGED <<tables, itemLock, orderLock>>
  PROVE  /\ Shaped' /\ SessionSound(p)' /\ TxOK(tx[p])'
         /\ \A q \in Proc : q # p => tx'[q] = tx[q]
         /\ tx'[p].pc = c /\ tx'[p].op = tx[p].op /\ tx'[p].order = tx[p].order
         /\ tx'[p].number = tx[p].number
<1>1. PICK t : t = tx[p]
  OBVIOUS
<1>2. PICK x : x = [t EXCEPT !.pc = c]
  OBVIOUS
<1>3. /\ Shaped /\ SessionSound(p) /\ IsSession(t) /\ TxOK(t)
  BY <1>1 DEF CounterInv, TypeOK, Shaped
<1>4. /\ IsSession(x) /\ x.op = t.op /\ x.order = t.order /\ x.cart = t.cart /\ x.rows = t.rows
      /\ x.back = t.back /\ x.number = t.number /\ x.todo = t.todo /\ x.pc = c
  BY <1>1, <1>2, <1>3 DEF IsSession
<1>5. tx' = [tx EXCEPT ![p] = x]
  BY <1>1, <1>2, <1>3 DEF Shaped
<1>6. Shaped' /\ tx'[p] = x /\ \A q \in Proc : q # p => tx'[q] = tx[q]
  BY <1>3, <1>4, <1>5, Given
<1>7. TxOK(tx[p])'
  BY <1>3, <1>4, <1>6 DEF TxOK
<1>8. orders' = orders /\ item' = item /\ itemLock' = itemLock /\ orderLock' = orderLock
      /\ Committed' = Committed
  BY DEF tables, Committed
<1>9. LinesOf(p)' = LinesOf(p)
  BY <1>1, <1>4, <1>6, <1>8 DEF LinesOf
<1>10. Course(p)'
  BY <1>1, <1>3, <1>4, <1>6 DEF SessionSound, Course
<1>11. Holds(p)'
  BY <1>1, <1>3, <1>4, <1>6, <1>8, <1>9 DEF SessionSound, Holds
<1>12. Selling(p)'
  <2> SUFFICES ASSUME t.op = "sale" PROVE Selling(p)'
    BY <1>4, <1>6 DEF Selling
  <2>1. Handled(p)' = Handled(p) /\ \A i : Taken(p, i)' = Taken(p, i)
    BY <1>1, <1>4, <1>6 DEF Handled, Taken
  <2> QED BY <1>1, <1>3, <1>4, <1>6, <1>8, <2>1 DEF SessionSound, Selling
<1>13. Returning(p)'
  <2> SUFFICES ASSUME t.op \in {"void", "itemRefund"} PROVE Returning(p)'
    BY <1>4, <1>6 DEF Returning
  <2>1. /\ Asked(p)' = Asked(p) /\ Waiting(p)' = Waiting(p)
        /\ (\A k : UnitsAsked(p, k)' = UnitsAsked(p, k))
        /\ \A i : Brought(p, i)' = Brought(p, i)
    BY <1>1, <1>4, <1>6, <1>9 DEF Asked, Waiting, UnitsAsked, Brought
  <2> QED BY <1>1, <1>3, <1>4, <1>6, <1>8, <1>9, <2>1 DEF SessionSound, Returning
<1>14. Moving(p)' /\ Flagging(p)'
  BY <1>1, <1>3, <1>4, <1>6, <1>8 DEF SessionSound, Moving, Flagging
<1> QED BY <1>1, <1>4, <1>6, <1>7, <1>10, <1>11, <1>12, <1>13, <1>14 DEF SessionSound

\* A number inserted is nobody else's: the unique index.
LEMMA InsertCounter == ASSUME CounterInv, NEW p \in Proc, InsertOrder(p) PROVE CounterInv'
<1>0. CASE Refuse(p)
  BY <1>0, RefuseCounter
<1> SUFFICES ASSUME ~Refuse(p) PROVE CounterInv'
  BY <1>0
<1>1. /\ tx[p].pc = "insert" /\ SameNumber(p) = {} /\ ~NumberTaken(tx[p].number)
      /\ tx' = [tx EXCEPT ![p].pc = "event"] /\ UNCHANGED <<tables, itemLock, orderLock, auditLock>>
  BY DEF InsertOrder
<1>2. /\ Shaped' /\ SessionSound(p)' /\ TxOK(tx[p])'
      /\ \A q \in Proc : q # p => tx'[q] = tx[q]
      /\ tx'[p].order = tx[p].order /\ tx'[p].number = tx[p].number
  BY <1>1, Onward
<1>3. tx[p].number \notin OpenNumbers(p)
  BY <1>1 DEF OpenNumbers, SameNumber
<1>4. \A q \in Proc : q # p /\ tx[q].op = "sale" => tx'[p].order # tx[q].order
  BY <1>2, NobodyElses
<1>5. TypeOK
  BY DEF CounterInv
<1> QED BY <1>1, <1>2, <1>3, <1>4, <1>5, QuietCounter DEF TypeOK

\* The event is recorded under the head of the audit ledger.
LEMMA EventCounter == ASSUME CounterInv, NEW p \in Proc, RecordEvent(p) PROVE CounterInv'
<1>1. /\ tx[p].pc = "event" /\ auditLock' = p
      /\ tx' = [tx EXCEPT ![p].pc = "commit"] /\ UNCHANGED <<tables, itemLock, orderLock>>
  BY DEF RecordEvent
<1>2. /\ Shaped' /\ SessionSound(p)' /\ TxOK(tx[p])'
      /\ \A q \in Proc : q # p => tx'[q] = tx[q]
      /\ tx'[p].op = tx[p].op /\ tx'[p].order = tx[p].order /\ tx'[p].number = tx[p].number
  BY <1>1, Onward
<1>3. tx[p].op = "sale" => ~NumberTaken(tx[p].number) /\ tx[p].number \notin OpenNumbers(p)
  BY <1>1 DEF CounterInv, Numbered, OpenNumbers, SameNumber
<1>4. \A q \in Proc : q # p /\ tx[q].op = "sale" => tx'[p].order # tx[q].order
  BY <1>2, NobodyElses
<1>5. TypeOK
  BY DEF CounterInv
<1> QED BY <1>1, <1>2, <1>3, <1>4, <1>5, QuietCounter DEF TypeOK

\* What a handler still has to do, one entry less.
LEMMA TodoFacts ==
  ASSUME NEW s \in Seq(Entry), s # <<>>
  PROVE  /\ Head(s) \in Entry /\ Head(s) = s[1] /\ 1 \in DOMAIN s
         /\ Tail(s) \in Seq(Entry) /\ Len(Tail(s)) = Len(s) - 1 /\ Len(s) \in Nat /\ Len(s) >= 1
         /\ \A j \in DOMAIN Tail(s) : j \in Nat /\ j >= 1 /\ j + 1 \in DOMAIN s /\ Tail(s)[j] = s[j + 1]
OBVIOUS

\* Only a purchase has a line of pure gold, and it writes no row.
LEMMA LotCounter == ASSUME CounterInv, NEW p \in Proc, TakeLot(p) PROVE CounterInv'
<1>1. PICK t : t = tx[p]
  OBVIOUS
<1>2. /\ t.pc = "lines" /\ Head(t.todo).item = NONE /\ auditLock' = p
      /\ tx' = [tx EXCEPT ![p].todo = Tail(t.todo), ![p].pc = AfterLine(t, Tail(t.todo))]
      /\ UNCHANGED <<tables, itemLock, orderLock>>
  BY <1>1 DEF TakeLot, NextItem
<1>3. /\ TypeOK /\ Shaped /\ SessionSound(p) /\ IsSession(t) /\ TxOK(t) /\ t.todo # <<>>
  BY <1>1, <1>2 DEF CounterInv, TypeOK, Shaped, SessionSound, Course
<1>4. /\ Head(t.todo) = t.todo[1] /\ 1 \in DOMAIN t.todo /\ Tail(t.todo) \in Seq(Entry)
      /\ \A j \in DOMAIN Tail(t.todo) : j + 1 \in DOMAIN t.todo /\ Tail(t.todo)[j] = t.todo[j + 1]
  BY <1>3, TodoFacts DEF TxOK
<1>5. t.op = "move"
  <2>1. t.op # "sale"
    <3> SUFFICES ASSUME t.op = "sale" PROVE FALSE
      OBVIOUS
    <3>1. t.todo[1] = t.cart[Len(t.cart) - Len(t.todo) + 1]
      BY <1>1, <1>3, <1>4 DEF SessionSound, Selling
    <3>2. Len(t.cart) \in Nat /\ Len(t.todo) \in Nat /\ Len(t.todo) >= 1 /\ Len(t.todo) <= Len(t.cart)
          /\ DOMAIN t.cart = 1..Len(t.cart)
      BY <1>1, <1>3, TodoFacts DEF SessionSound, Selling, TxOK
    <3>3. t.cart[Len(t.cart) - Len(t.todo) + 1].item \in Item
      <4>1. Len(t.cart) - Len(t.todo) + 1 \in DOMAIN t.cart
        <5>1. ASSUME NEW a \in Nat, NEW b \in Nat, b >= 1, b <= a PROVE a - b + 1 \in 1..a
          BY <5>1
        <5> QED BY <3>2, <5>1
      <4> QED BY <1>1, <1>3, <4>1 DEF SessionSound, Selling
    <3> QED BY <1>2, <1>4, <3>1, <3>3, NoneAssumption
  <2>2. t.op \notin {"void", "itemRefund"}
    <3> SUFFICES ASSUME t.op \in {"void", "itemRefund"} PROVE FALSE
      OBVIOUS
    <3>1. t.order \in Order /\ t.order \in Committed
      BY <1>1, <1>3 DEF SessionSound, Holds, OnOrder, Committed
    <3>2. t.todo[1].line \in Asked(p) /\ t.todo[1].item = LinesOf(p)[t.todo[1].line].item
      BY <1>1, <1>2, <1>3, <1>4 DEF SessionSound, Returning
    <3>3. Asked(p) \subseteq DOMAIN LinesOf(p)
      BY <1>1, <1>2, <1>3 DEF Asked, SessionSound, Holds, LinesOf
    <3>4. t.todo[1].item \in Item
      BY <1>1, <1>3, <3>1, <3>2, <3>3, OrderTypes DEF LinesOf
    <3> QED BY <1>2, <1>4, <3>4, NoneAssumption
  <2>3. t.op \notin OnFlag
    BY <1>1, <1>2, <1>3, <1>4, NoneAssumption, ItemAssumption DEF SessionSound, Flagging
  <2>4. t.op \notin {"none", "refund"}
    BY <1>1, <1>2, <1>3 DEF SessionSound, Course
  <2> QED BY <1>3, <2>1, <2>2, <2>3, <2>4 DEF TxOK, Ops, OrderOps, OnFlag
<1>6. PICK x : x = [t EXCEPT !.todo = Tail(t.todo), !.pc = AfterLine(t, Tail(t.todo))]
  OBVIOUS
<1>7. /\ IsSession(x) /\ x.op = "move" /\ x.order = t.order /\ x.cart = t.cart /\ x.rows = t.rows
      /\ x.back = t.back /\ x.number = t.number /\ x.todo = Tail(t.todo)
      /\ x.pc = IF x.todo # <<>> THEN "lines" ELSE "event"
  BY <1>1, <1>3, <1>5, <1>6 DEF IsSession, AfterLine
<1>8. tx' = [tx EXCEPT ![p] = x]
  BY <1>1, <1>2, <1>3, <1>6 DEF Shaped
<1>9. Shaped' /\ tx'[p] = x /\ \A q \in Proc : q # p => tx'[q] = tx[q]
  BY <1>3, <1>7, <1>8, Given
<1>10. TxOK(tx[p])'
  <2>1. TxOK(x)
    BY <1>3, <1>4, <1>5, <1>7 DEF TxOK
  <2> QED BY <1>9, <2>1 DEF TxOK
<1>11. item' = item /\ itemLock' = itemLock
  BY <1>2 DEF tables
<1>12. SessionSound(p)'
  <2>1. Course(p)'
    BY <1>7, <1>9 DEF Course
  <2>2. Holds(p)' /\ Selling(p)' /\ Returning(p)' /\ Flagging(p)'
    BY <1>1, <1>3, <1>5, <1>7, <1>9, <1>11 DEF SessionSound, Holds, Selling, Returning, Flagging, OnOrder, OnFlag
  <2>3. \A j \in DOMAIN x.todo : x.todo[j].item \notin Product
    BY <1>1, <1>3, <1>4, <1>5, <1>7 DEF SessionSound, Moving
  <2>4. Moving(p)'
    BY <1>1, <1>3, <1>5, <1>7, <1>9, <1>11, <2>3 DEF SessionSound, Moving
  <2> QED BY <2>1, <2>2, <2>4 DEF SessionSound
<1>13. \A q \in Proc : q # p /\ tx[q].op = "sale" => tx'[p].order # tx[q].order
  BY <1>1, <1>7, <1>9, NobodyElses
<1>14. tx'[p].op # "sale"
  BY <1>7, <1>9
<1> QED BY <1>2, <1>3, <1>9, <1>10, <1>12, <1>13, <1>14, QuietCounter DEF TypeOK

-----------------------------------------------------------------------------
(* A line is taken: the row is locked, read and written.                    *)

\* Handler p is left as x after the entry e on the row r of e.item.
Takes(p, x, e, r) ==
  /\ tx[p].pc = "lines" /\ tx[p].todo # <<>> /\ e = tx[p].todo[1] /\ e \in Entry /\ e.item \in Item
  /\ r = RowOf(p, e.item) /\ r \in StockRow /\ ~Refused(tx[p].op, e, r)
  /\ IsSession(x) /\ x.op = tx[p].op /\ x.order = tx[p].order /\ x.number = tx[p].number
  /\ x.cart = tx[p].cart /\ x.todo = Tail(tx[p].todo) /\ x.pc = AfterLine(tx[p], x.todo)
  /\ DOMAIN x.rows = DOMAIN tx[p].rows \cup {e.item}
  /\ x.rows[e.item] = After(tx[p].op, e, r)
  /\ \A i \in DOMAIN tx[p].rows : i # e.item => x.rows[i] = tx[p].rows[i]
  /\ x.back = IF PutsBack(tx[p].op, r) THEN Put(tx[p].back, e.line, e.qty) ELSE tx[p].back
  /\ x.todo \in Seq(Entry)
  /\ \A j \in DOMAIN x.todo : j \in Nat /\ j + 1 \in DOMAIN tx[p].todo /\ x.todo[j] = tx[p].todo[j + 1]
  /\ Len(tx[p].todo) \in Nat /\ Len(x.todo) = Len(tx[p].todo) - 1 /\ 1 \in DOMAIN tx[p].todo
  /\ DOMAIN tx[p].todo = 1..Len(tx[p].todo) /\ DOMAIN x.todo = 1..Len(x.todo)

\* What taking a line writes.
LEMMA ItemTaken ==
  ASSUME CounterInv, NEW p \in Proc, TakeItem(p), ~Refuse(p)
  PROVE  /\ \E x, e, r : Takes(p, x, e, r) /\ tx' = [tx EXCEPT ![p] = x]
                         /\ itemLock[e.item] \in {NONE, p} /\ itemLock' = [itemLock EXCEPT ![e.item] = p]
         /\ UNCHANGED <<tables, orderLock, auditLock>>
<1>1. PICK t, e, r : t = tx[p] /\ e = Head(t.todo) /\ r = RowOf(p, e.item)
  OBVIOUS
<1>2. /\ t.pc = "lines" /\ e.item # NONE /\ Free(itemLock[e.item], p) /\ ~Refused(t.op, e, r)
      /\ itemLock' = [itemLock EXCEPT ![e.item] = p]
      /\ tx' = [tx EXCEPT ![p] = [t EXCEPT
               !.rows = Put(@, e.item, After(t.op, e, r)),
               !.back = IF PutsBack(t.op, r) THEN Put(@, e.line, e.qty) ELSE @,
               !.todo = Tail(@), !.pc = AfterLine(t, Tail(t.todo))]]
      /\ UNCHANGED <<tables, orderLock, auditLock>>
  BY <1>1 DEF TakeItem
<1>3. /\ TypeOK /\ Shaped /\ SessionSound(p) /\ IsSession(t) /\ TxOK(t) /\ t.todo # <<>>
  BY <1>1, <1>2 DEF CounterInv, TypeOK, Shaped, SessionSound, Course
<1>4. PICK w : w = Tail(t.todo)
  OBVIOUS
<1>5. /\ e = t.todo[1] /\ 1 \in DOMAIN t.todo /\ w \in Seq(Entry) /\ e \in Entry
      /\ \A j \in DOMAIN w : j \in Nat /\ j + 1 \in DOMAIN t.todo /\ w[j] = t.todo[j + 1]
      /\ Len(t.todo) \in Nat /\ Len(w) = Len(t.todo) - 1
      /\ DOMAIN t.todo = 1..Len(t.todo) /\ DOMAIN w = 1..Len(w)
  BY <1>1, <1>3, <1>4, TodoFacts DEF TxOK
<1>6. e.item \in Item
  BY <1>2, <1>5 DEF Entry
<1>7. r \in StockRow
  BY <1>1, <1>3, <1>6 DEF RowOf, TxOK, TypeOK
<1>8. PICK v, b, x : /\ v = After(t.op, e, r)
                     /\ b = IF PutsBack(t.op, r) THEN Put(t.back, e.line, e.qty) ELSE t.back
                     /\ x = [t EXCEPT !.rows = Put(t.rows, e.item, v), !.back = b, !.todo = w,
                                      !.pc = AfterLine(t, w)]
  OBVIOUS
<1>9. /\ IsSession(x) /\ x.op = t.op /\ x.order = t.order /\ x.number = t.number
      /\ x.cart = t.cart /\ x.todo = w /\ x.pc = AfterLine(t, w) /\ x.rows = Put(t.rows, e.item, v)
      /\ x.back = b
  BY <1>1, <1>3, <1>8 DEF IsSession
<1>10. /\ DOMAIN x.rows = DOMAIN t.rows \cup {e.item} /\ x.rows[e.item] = v
       /\ \A i \in DOMAIN t.rows : i # e.item => x.rows[i] = t.rows[i]
  BY <1>9 DEF Put
<1>11. tx' = [tx EXCEPT ![p] = x]
  BY <1>2, <1>4, <1>8
<1>12. Takes(p, x, e, r)
  <2>1. /\ x.todo \in Seq(Entry)
        /\ \A j \in DOMAIN x.todo : j \in Nat /\ j + 1 \in DOMAIN t.todo /\ x.todo[j] = t.todo[j + 1]
        /\ Len(x.todo) = Len(t.todo) - 1 /\ DOMAIN x.todo = 1..Len(x.todo)
        /\ x.todo = Tail(t.todo) /\ x.pc = AfterLine(t, x.todo)
    BY <1>4, <1>5, <1>9
  <2>2. /\ x.back = IF PutsBack(t.op, r) THEN Put(t.back, e.line, e.qty) ELSE t.back
        /\ DOMAIN x.rows = DOMAIN t.rows \cup {e.item} /\ x.rows[e.item] = After(t.op, e, r)
        /\ \A i \in DOMAIN t.rows : i # e.item => x.rows[i] = t.rows[i]
    BY <1>8, <1>9, <1>10
  <2>3. /\ t.pc = "lines" /\ t.todo # <<>> /\ e = t.todo[1] /\ e \in Entry /\ e.item \in Item
        /\ r = RowOf(p, e.item) /\ r \in StockRow /\ ~Refused(t.op, e, r)
        /\ Len(t.todo) \in Nat /\ 1 \in DOMAIN t.todo /\ DOMAIN t.todo = 1..Len(t.todo)
    BY <1>1, <1>2, <1>3, <1>5, <1>6, <1>7
  <2> QED BY <1>1, <1>9, <2>1, <2>2, <2>3 DEF Takes
<1> QED BY <1>2, <1>11, <1>12 DEF Free

\* A sum over nothing.
LEMMA NoSum == ASSUME NEW f PROVE SumFunctionOnSet(f, {}) = 0
BY FS_EmptySet, SumStep

\* The lines of an order are finitely many.
LEMMA FiniteLines ==
  ASSUME TypeOK, NEW d \in Order, NEW K, K \subseteq DOMAIN orders[d].lines
  PROVE  IsFiniteSet(K)
<1>1. PICK n : n = Len(orders[d].lines)
  OBVIOUS
<1>2. n \in Nat /\ K \subseteq 1..n
  BY <1>1, OrderTypes
<1>3. IsFiniteSet(1..n)
  BY <1>2, FS_Interval
<1> QED BY <1>2, <1>3, FS_Subset

\* A sale takes its units off the row it sees, which has them.
LEMMA SaleTakes ==
  ASSUME CounterInv, NEW p \in Proc, NEW x, NEW e, NEW r, Takes(p, x, e, r), tx[p].op = "sale",
         tx'[p] = x, \A q \in Proc : q # p => tx'[q] = tx[q], item' = item, orders' = orders
  PROVE  Selling(p)' /\ x.rows[e.item] \in StockRow /\ x.back = <<>>
<1>1. PICK t, i, a, m, c : /\ t = tx[p] /\ i = e.item /\ a = Len(t.cart) - Len(t.todo) /\ m = a + 1
                           /\ c = t.cart
  OBVIOUS
<1>2. TypeOK /\ Selling(p) /\ TxOK(t)
  BY <1>1 DEF CounterInv, SessionSound, TypeOK
<1>3. /\ c \in Seq(Entry) /\ Len(c) \in Nat /\ DOMAIN c = 1..Len(c)
      /\ Len(t.todo) \in Nat /\ Len(t.todo) <= Len(c)
      /\ \A k \in 1..Len(c) : k \in Nat /\ c[k] \in Entry /\ c[k].item \in Item /\ c[k].qty \in Int /\ c[k].qty >= 1
  <2>1. c \in Seq(Entry)
    BY <1>1, <1>2 DEF TxOK
  <2>2. Len(c) \in Nat /\ DOMAIN c = 1..Len(c) /\ \A k \in 1..Len(c) : k \in Nat /\ c[k] \in Entry
    BY <2>1
  <2>3. \A k \in 1..Len(c) : c[k].qty \in Int
    BY <2>2 DEF Entry
  <2> QED BY <1>1, <1>2, <2>1, <2>2, <2>3 DEF Selling, Takes
<1>4. a \in Nat /\ m \in 1..Len(c) /\ e = c[m] /\ a = m - 1
  <2>1. Len(t.todo) >= 1 /\ e = c[Len(c) - Len(t.todo) + 1]
    <3>1. 1 \in DOMAIN t.todo /\ DOMAIN t.todo = 1..Len(t.todo) /\ e = t.todo[1]
      BY <1>1 DEF Takes
    <3>2. t.todo[1] = c[Len(c) - Len(t.todo) + 1]
      BY <1>1, <1>2, <3>1 DEF Selling
    <3> QED BY <1>3, <3>1, <3>2
  <2>2. ASSUME NEW u \in Nat, NEW w \in Nat, w >= 1, w <= u
        PROVE  u - w \in Nat /\ u - w + 1 \in 1..u /\ (u - w + 1) - 1 = u - w
    BY <2>2
  <2> QED BY <1>1, <1>3, <2>1, <2>2
<1>5. Handled(p) = 1..a /\ Handled(p)' = 1..m
  <2>1. tx'[p].cart = c /\ Len(tx'[p].todo) = Len(t.todo) - 1
    BY <1>1 DEF Takes
  <2>2. Len(c) - (Len(t.todo) - 1) = m
    BY <1>1, <1>3
  <2> QED BY <1>1, <2>1, <2>2 DEF Handled
<1>6. 1..m = 1..a \cup {m} /\ m \notin 1..a /\ 1..m \subseteq 1..Len(c)
  BY <1>3, <1>4
<1> DEFINE On(j) == {k \in 1..a : c[k].item = j}
           Q == Quantities(c)
<1>7. \A k \in 1..Len(c) : Q[k] = c[k].qty /\ Q[k] \in Int
  BY <1>3 DEF Quantities
<1>8. \A j : IsFiniteSet(On(j)) /\ On(j) \subseteq 1..Len(c)
  <2>1. IsFiniteSet(1..a)
    BY <1>4, FS_Interval
  <2> QED BY <1>6, <2>1, FS_Subset
<1>9. \A j : Taken(p, j) = SumFunctionOnSet(Q, On(j))
  BY <1>1, <1>5 DEF Taken
<1>10. \A j : j # i => Taken(p, j)' = Taken(p, j)
  <2>1. ASSUME NEW j, j # i PROVE {k \in 1..m : c[k].item = j} = On(j)
    BY <1>1, <1>4, <1>6, <2>1
  <2>2. ASSUME NEW j, j # i PROVE Taken(p, j)' = Taken(p, j)
    <3>1. tx'[p].cart = c
      BY <1>1 DEF Takes
    <3>2. Taken(p, j)' = SumFunctionOnSet(Q, {k \in 1..m : c[k].item = j})
      BY <1>5, <3>1 DEF Taken
    <3>3. Taken(p, j) = SumFunctionOnSet(Q, On(j))
      BY <1>9
    <3>4. {k \in 1..m : c[k].item = j} = On(j)
      BY <2>1, <2>2
    <3> HIDE DEF On, Q
    <3> QED BY <3>2, <3>3, <3>4
  <2> QED BY <2>2
<1>11. Taken(p, i)' = e.qty + Taken(p, i)
  <2>1. {k \in 1..m : c[k].item = i} = On(i) \cup {m}
    BY <1>1, <1>4, <1>6
  <2>2. Taken(p, i)' = SumFunctionOnSet(Q, {k \in 1..m : c[k].item = i})
    BY <1>1, <1>5 DEF Taken, Takes
  <2>3. m \notin On(i) /\ Q[m] = e.qty /\ Q[m] \in Int /\ \A k \in On(i) : Q[k] \in Int
    BY <1>4, <1>6, <1>7, <1>8
  <2>4. PICK S : S = On(i)
    OBVIOUS
  <2> HIDE DEF Q, On
  <2>5. SumFunctionOnSet(Q, S \cup {m}) = Q[m] + SumFunctionOnSet(Q, S)
    BY <1>8, <2>3, <2>4, SumAdd
  <2> QED BY <1>9, <2>1, <2>2, <2>3, <2>4, <2>5
<1>12. Taken(p, i) \in Int
  <2> HIDE DEF Q, On
  <2>1. \A k \in On(i) : Q[k] \in Int
    BY <1>7, <1>8
  <2> QED BY <1>8, <1>9, <2>1, SumType
<1>13. /\ r.qty \in Int /\ item[i].status \notin Withdrawn /\ item[i].qty \in Int
       /\ r.qty = item[i].qty - Taken(p, i)
  <2>1. item[i] \in StockRow /\ r \in StockRow /\ i \in Item
    BY <1>1, <1>2 DEF TypeOK, Takes
  <2>2. CASE i \in DOMAIN t.rows
    BY <1>1, <1>2, <2>1, <2>2 DEF RowOf, Takes, Selling, StockRow
  <2>3. CASE i \notin DOMAIN t.rows
    <3>1. r = item[i] /\ r.status \notin Withdrawn
      BY <1>1, <2>3 DEF RowOf, Takes, Refused
    <3>2. On(i) = {}
      BY <1>1, <1>2, <1>5, <2>3 DEF Selling
    <3>3. Taken(p, i) = 0
      BY <1>9, <3>2, NoSum
    <3> QED BY <2>1, <3>1, <3>3 DEF StockRow
  <2> QED BY <2>2, <2>3
<1>14. r.qty >= e.qty /\ e.qty \in Int
  <2>1. tx[p].op = "sale" /\ ~Refused("sale", e, r) /\ e.qty \in Int
    BY <1>3, <1>4 DEF Takes
  <2>2. ~(r.qty < e.qty)
    BY <2>1 DEF Refused
  <2> QED BY <1>13, <2>1, <2>2
<1>15. /\ x.rows[i].qty = r.qty - e.qty /\ x.rows[i].status = Flag(i, r.qty - e.qty)
       /\ x.rows[i] \in StockRow
  <2>1. x.rows[i] = After("sale", e, r)
    BY <1>1 DEF Takes
  <2>2. PICK q, f : q = r.qty - e.qty /\ f = Flag(i, q)
    OBVIOUS
  <2>3. After("sale", e, r) = [qty |-> q, status |-> f]
    BY <1>1, <2>2 DEF After
  <2>4. q \in Int /\ f \in {"AVAILABLE", "SOLD"}
    BY <1>13, <1>14, <2>2 DEF Flag
  <2>5. x.rows[i].qty = q /\ x.rows[i].status = f /\ x.rows[i] \in StockRow
    BY <2>1, <2>3, <2>4 DEF StockRow
  <2> QED BY <2>2, <2>5
<1>16. DOMAIN x.rows = {c[k].item : k \in 1..m}
  <2>1. DOMAIN x.rows = DOMAIN t.rows \cup {i} /\ DOMAIN t.rows = {c[k].item : k \in 1..a}
    <3>1. DOMAIN x.rows = DOMAIN t.rows \cup {i}
      BY <1>1 DEF Takes
    <3>2. DOMAIN t.rows = {t.cart[k].item : k \in Handled(p)}
      BY <1>1, <1>2 DEF Selling
    <3> QED BY <1>1, <1>5, <3>1, <3>2
  <2>2. {c[k].item : k \in 1..m} = {c[k].item : k \in 1..a} \cup {c[m].item}
    BY <1>6
  <2> QED BY <1>1, <1>4, <2>1, <2>2
<1>17. \A j \in DOMAIN x.rows :
         /\ item[j].status \notin Withdrawn
         /\ x.rows[j].qty = item[j].qty - Taken(p, j)' /\ x.rows[j].qty >= 0
         /\ x.rows[j].status = Flag(j, x.rows[j].qty)
  <2> SUFFICES ASSUME NEW j \in DOMAIN x.rows
               PROVE  /\ item[j].status \notin Withdrawn
                      /\ x.rows[j].qty = item[j].qty - Taken(p, j)' /\ x.rows[j].qty >= 0
                      /\ x.rows[j].status = Flag(j, x.rows[j].qty)
    OBVIOUS
  <2>1. CASE j = i
    BY <1>11, <1>12, <1>13, <1>14, <1>15, <2>1
  <2>2. CASE j # i
    <3>1. j \in DOMAIN t.rows /\ x.rows[j] = t.rows[j]
      BY <1>1, <2>2 DEF Takes
    <3> QED BY <1>1, <1>2, <1>10, <2>2, <3>1 DEF Selling
  <2> QED BY <2>1, <2>2
<1>18. \A j \in DOMAIN x.todo : x.todo[j] = c[Len(c) - Len(x.todo) + j]
  <2> SUFFICES ASSUME NEW j \in DOMAIN x.todo PROVE x.todo[j] = c[Len(c) - Len(x.todo) + j]
    OBVIOUS
  <2>1. j \in Nat /\ j + 1 \in DOMAIN t.todo /\ x.todo[j] = t.todo[j + 1]
        /\ Len(x.todo) = Len(t.todo) - 1
    BY <1>1 DEF Takes
  <2>2. t.todo[j + 1] = c[Len(c) - Len(t.todo) + (j + 1)]
    BY <1>1, <1>2, <2>1 DEF Selling
  <2>3. Len(c) - Len(t.todo) + (j + 1) = Len(c) - Len(x.todo) + j
    <3>1. PICK u, w, z : u = Len(c) /\ w = Len(t.todo) /\ z = Len(x.todo)
      OBVIOUS
    <3>2. u \in Nat /\ w \in Nat /\ z = w - 1 /\ j \in Nat
      BY <1>3, <2>1, <3>1
    <3>3. u - w + (j + 1) = u - z + j
      BY <3>2
    <3> QED BY <3>1, <3>3
  <2> QED BY <2>1, <2>2, <2>3
<1>19. x.back = <<>> /\ x.pc # "order" /\ Len(x.todo) <= Len(c)
  <2>1. x.pc \in {"lines", "insert", "event"}
    BY DEF Takes, AfterLine
  <2>2. Len(x.todo) <= Len(c)
    BY <1>1, <1>3 DEF Takes
  <2> QED BY <1>1, <1>2, <2>1, <2>2 DEF Takes, PutsBack, Selling
<1>20. /\ x.cart = c /\ c # <<>> /\ x.order = t.order /\ t.order \in Order /\ orders[t.order].status = "NEW"
       /\ \A q \in Proc : q # p => tx'[q].order # x.order
  BY <1>1, <1>2 DEF Takes, Selling
<1>21. Selling(p)'
  BY <1>3, <1>5, <1>16, <1>17, <1>18, <1>19, <1>20 DEF Selling
<1> QED BY <1>1, <1>15, <1>19, <1>21

\* A void or a line refund adds its units to the row it sees, and to what it brought
\* back, unless the product was withdrawn.
LEMMA ReturnTakes ==
  ASSUME CounterInv, NEW p \in Proc, NEW x, NEW e, NEW r, Takes(p, x, e, r),
         tx[p].op \in {"void", "itemRefund"},
         tx'[p] = x, item' = item, orders' = orders
  PROVE  Returning(p)' /\ x.rows[e.item] \in StockRow
         /\ \A k \in DOMAIN x.back : k \in Nat /\ x.back[k] \in Nat
<1>1. PICK t, i, s, l : t = tx[p] /\ i = e.item /\ s = LinesOf(p) /\ l = e.line
  OBVIOUS
<1>2. /\ TypeOK /\ Returning(p) /\ Holds(p) /\ TxOK(t) /\ t.pc = "lines" /\ t.op = tx[p].op
      /\ x.op = t.op /\ x.order = t.order /\ x.cart = t.cart
  BY <1>1 DEF CounterInv, SessionSound, TypeOK, Takes
<1>3. t.order \in Order /\ t.order \in Committed /\ s = orders[t.order].lines
  BY <1>1, <1>2 DEF Holds, OnOrder, Committed, LinesOf
<1>4. \A k \in DOMAIN s : k \in Nat /\ s[k].item \in Item /\ s[k].qty \in Nat
  BY <1>2, <1>3, OrderTypes
<1>5. LinesOf(p)' = s
  BY <1>1, <1>2 DEF LinesOf
<1> DEFINE A == Asked(p)
           W == Waiting(p)
           U(k) == UnitsAsked(p, k)
<1>6. Asked(p)' = A /\ \A k : UnitsAsked(p, k)' = U(k)
  BY <1>1, <1>2, <1>5 DEF Asked, UnitsAsked
<1>7. A \subseteq DOMAIN s /\ \A k \in A : U(k) \in Nat
  <2>1. CASE t.op = "void"
    BY <1>1, <1>4, <2>1 DEF Asked, UnitsAsked
  <2>2. CASE t.op = "itemRefund"
    <3>1. t.cart[1].line \in DOMAIN s /\ t.cart[1].qty >= 1 /\ t.cart \in Seq(Entry) /\ Len(t.cart) = 1
      BY <1>1, <1>2, <2>2 DEF Holds, TxOK
    <3>2. t.cart[1] \in Entry
      BY <3>1
    <3>3. t.cart[1].qty \in Nat
      BY <3>1, <3>2 DEF Entry
    <3> QED BY <1>1, <2>2, <3>1, <3>3 DEF Asked, UnitsAsked
  <2> QED BY <1>1, <2>1, <2>2
<1>8. l \in A /\ i = s[l].item /\ e.qty = U(l) /\ l \in W /\ 1 \in DOMAIN t.todo /\ e = t.todo[1]
  BY <1>1, <1>2 DEF Takes, Returning, Waiting
<1>9. Waiting(p)' = W \ {l}
  <2>1. Waiting(p)' = {x.todo[j].line : j \in DOMAIN x.todo}
    BY DEF Waiting
  <2>2. ASSUME NEW j \in DOMAIN x.todo PROVE x.todo[j].line \in W \ {l}
    <3>1. j + 1 \in DOMAIN t.todo /\ x.todo[j] = t.todo[j + 1] /\ j \in Nat /\ j >= 1
      BY <1>1 DEF Takes
    <3>2. t.todo[j + 1].line # t.todo[1].line
      BY <1>1, <1>2, <1>8, <3>1 DEF Returning
    <3> QED BY <1>1, <1>8, <3>1, <3>2 DEF Waiting
  <2>3. ASSUME NEW k \in W \ {l} PROVE \E j \in DOMAIN x.todo : x.todo[j].line = k
    <3>1. PICK j \in DOMAIN t.todo : t.todo[j].line = k
      BY <1>1 DEF Waiting
    <3>2. /\ DOMAIN t.todo = 1..Len(t.todo) /\ DOMAIN x.todo = 1..(Len(t.todo) - 1) /\ Len(t.todo) \in Nat
          /\ \A m \in DOMAIN x.todo : x.todo[m] = t.todo[m + 1]
      BY <1>1 DEF Takes
    <3>3. j # 1
      BY <1>1, <1>8, <3>1
    <3>4. j - 1 \in DOMAIN x.todo /\ (j - 1) + 1 = j
      <4>1. PICK n : n = Len(t.todo)
        OBVIOUS
      <4>2. n \in Nat /\ j \in 1..n
        BY <3>1, <3>2, <4>1
      <4>3. j - 1 \in 1..(n - 1) /\ (j - 1) + 1 = j
        BY <3>3, <4>2
      <4> QED BY <3>2, <4>1, <4>3
    <3>5. x.todo[j - 1] = t.todo[j]
      BY <3>2, <3>4
    <3> QED BY <3>1, <3>4, <3>5
  <2> QED BY <2>1, <2>2, <2>3
<1>10. A \ Waiting(p)' = (A \ W) \cup {l}
  BY <1>8, <1>9
<1>11. /\ DOMAIN t.back \subseteq A \ W /\ (\A k \in DOMAIN t.back : t.back[k] = U(k))
       /\ \A k \in A \ W : /\ s[k].item \in DOMAIN t.rows
                           /\ k \in DOMAIN t.back <=> item[s[k].item].status \notin Withdrawn
       /\ \A j \in DOMAIN t.rows :
            /\ \E k \in A \ W : s[k].item = j
            /\ IF item[j].status \in Withdrawn THEN t.rows[j] = item[j]
               ELSE t.rows[j].qty = item[j].qty + Brought(p, j) /\ t.rows[j].status = "AVAILABLE"
  BY <1>1, <1>2 DEF Returning
<1>12. l \notin DOMAIN t.back /\ l \in Nat /\ e.qty \in Nat /\ i \in Item
  BY <1>4, <1>7, <1>8, <1>11
<1> DEFINE B(j) == {k \in DOMAIN t.back : s[k].item = j}
<1>13. \A j : IsFiniteSet(B(j)) /\ \A k \in B(j) : k \in DOMAIN t.back /\ t.back[k] \in Int
  <2> SUFFICES ASSUME NEW j PROVE IsFiniteSet(B(j)) /\ \A k \in B(j) : k \in DOMAIN t.back /\ t.back[k] \in Int
    OBVIOUS
  <2>1. B(j) \subseteq DOMAIN orders[t.order].lines
    BY <1>3, <1>7, <1>11
  <2>2. IsFiniteSet(B(j))
    <3> HIDE DEF B
    <3> QED BY <1>2, <1>3, <2>1, FiniteLines
  <2>3. \A k \in DOMAIN t.back : t.back[k] \in Nat
    BY <1>7, <1>11
  <2>4. \A k \in DOMAIN t.back : t.back[k] \in Int
    BY <2>3
  <2> QED BY <2>2, <2>4
<1>14. \A j : Brought(p, j) = SumFunctionOnSet(t.back, B(j))
  BY <1>1 DEF Brought
<1>15. \A j : Brought(p, j) \in Int
  <2> SUFFICES ASSUME NEW j PROVE Brought(p, j) \in Int
    OBVIOUS
  <2> HIDE DEF B
  <2>1. IsFiniteSet(B(j)) /\ \A k \in B(j) : t.back[k] \in Int
    BY <1>13
  <2> QED BY <1>14, <2>1, SumType
<1>16. /\ item[i] \in StockRow /\ r \in StockRow /\ (item[i].status \in Withdrawn => r = item[i])
       /\ item[i].status \notin Withdrawn =>
            r.status \notin Withdrawn /\ r.qty = item[i].qty + Brought(p, i)
  <2>1. item[i] \in StockRow /\ r \in StockRow /\ r = RowOf(p, i)
    BY <1>1, <1>2 DEF TypeOK, Takes
  <2>2. CASE i \in DOMAIN t.rows
    BY <1>1, <1>11, <2>1, <2>2 DEF RowOf, Withdrawn
  <2>3. CASE i \notin DOMAIN t.rows
    <3>1. B(i) = {}
      BY <1>11, <2>3
    <3>2. Brought(p, i) = 0
      BY <1>14, <3>1, NoSum
    <3>3. r = item[i]
      BY <1>1, <2>1, <2>3 DEF RowOf
    <3> QED BY <2>1, <3>2, <3>3 DEF StockRow
  <2> QED BY <2>2, <2>3
<1>17. PutsBack(t.op, r) <=> item[i].status \notin Withdrawn
  BY <1>1, <1>16 DEF PutsBack
<1>18. /\ DOMAIN x.back = IF item[i].status \notin Withdrawn THEN DOMAIN t.back \cup {l} ELSE DOMAIN t.back
       /\ \A k \in DOMAIN t.back : x.back[k] = t.back[k]
       /\ item[i].status \notin Withdrawn => x.back[l] = e.qty
  <2>1. x.back = IF PutsBack(t.op, r) THEN Put(t.back, l, e.qty) ELSE t.back
    BY <1>1 DEF Takes
  <2>2. /\ DOMAIN Put(t.back, l, e.qty) = DOMAIN t.back \cup {l} /\ Put(t.back, l, e.qty)[l] = e.qty
        /\ \A k \in DOMAIN t.back : Put(t.back, l, e.qty)[k] = t.back[k]
    BY <1>12 DEF Put
  <2> QED BY <1>17, <2>1, <2>2
<1>19. \A j : Brought(p, j)' = SumFunctionOnSet(x.back, {k \in DOMAIN x.back : s[k].item = j})
  BY <1>5 DEF Brought
<1>20. \A j : SumFunctionOnSet(x.back, B(j)) = Brought(p, j)
  <2> SUFFICES ASSUME NEW j PROVE SumFunctionOnSet(x.back, B(j)) = Brought(p, j)
    OBVIOUS
  <2>1. \A k \in B(j) : x.back[k] = t.back[k]
    BY <1>18
  <2> HIDE DEF B
  <2> QED BY <1>13, <1>14, <2>1, SumSame
<1>21. \A j : j # i => Brought(p, j)' = Brought(p, j)
  <2> SUFFICES ASSUME NEW j, j # i PROVE Brought(p, j)' = Brought(p, j)
    OBVIOUS
  <2>1. {k \in DOMAIN x.back : s[k].item = j} = B(j)
    BY <1>8, <1>18
  <2> HIDE DEF B
  <2> QED BY <1>19, <1>20, <2>1
<1>22. item[i].status \notin Withdrawn => Brought(p, i)' = e.qty + Brought(p, i)
  <2> SUFFICES ASSUME item[i].status \notin Withdrawn PROVE Brought(p, i)' = e.qty + Brought(p, i)
    OBVIOUS
  <2>1. {k \in DOMAIN x.back : s[k].item = i} = B(i) \cup {l}
    BY <1>8, <1>18
  <2>2. l \notin B(i) /\ x.back[l] = e.qty /\ e.qty \in Int /\ \A k \in B(i) : x.back[k] \in Int
    <3>1. l \notin B(i) /\ x.back[l] = e.qty /\ e.qty \in Int
      BY <1>12, <1>18
    <3>2. ASSUME NEW k \in B(i) PROVE x.back[k] \in Int
      <4>1. k \in DOMAIN t.back /\ t.back[k] \in Int
        BY <1>13
      <4> QED BY <1>18, <4>1
    <3> QED BY <3>1, <3>2
  <2>3. PICK S : S = B(i)
    OBVIOUS
  <2> HIDE DEF B
  <2>4. SumFunctionOnSet(x.back, S \cup {l}) = x.back[l] + SumFunctionOnSet(x.back, S)
    BY <1>13, <2>2, <2>3, SumAdd
  <2> QED BY <1>19, <1>20, <2>1, <2>2, <2>3, <2>4
<1>23. /\ item[i].status \in Withdrawn => x.rows[i] = item[i]
       /\ item[i].status \notin Withdrawn =>
            x.rows[i].qty = item[i].qty + Brought(p, i)' /\ x.rows[i].status = "AVAILABLE"
       /\ x.rows[i] \in StockRow
  <2>1. x.rows[i] = IF PutsBack(t.op, r) THEN [qty |-> r.qty + e.qty, status |-> "AVAILABLE"] ELSE r
    BY <1>1, <1>2 DEF Takes, After
  <2>2. r.qty \in Int /\ item[i].qty \in Int
    BY <1>16 DEF StockRow
  <2>3. CASE item[i].status \in Withdrawn
    BY <1>16, <1>17, <2>1, <2>3
  <2>4. CASE item[i].status \notin Withdrawn
    <3>1. x.rows[i] = [qty |-> r.qty + e.qty, status |-> "AVAILABLE"]
      BY <1>17, <2>1, <2>4
    <3>2. r.qty + e.qty = item[i].qty + Brought(p, i)' /\ r.qty + e.qty \in Int
      BY <1>12, <1>15, <1>16, <1>22, <2>2, <2>4
    <3> QED BY <2>4, <3>1, <3>2 DEF StockRow
  <2> QED BY <2>3, <2>4
<1>24. \A j \in DOMAIN x.rows :
         /\ \E k \in A \ Waiting(p)' : s[k].item = j
         /\ IF item[j].status \in Withdrawn THEN x.rows[j] = item[j]
            ELSE x.rows[j].qty = item[j].qty + Brought(p, j)' /\ x.rows[j].status = "AVAILABLE"
  <2> SUFFICES ASSUME NEW j \in DOMAIN x.rows
               PROVE  /\ \E k \in A \ Waiting(p)' : s[k].item = j
                      /\ IF item[j].status \in Withdrawn THEN x.rows[j] = item[j]
                         ELSE x.rows[j].qty = item[j].qty + Brought(p, j)' /\ x.rows[j].status = "AVAILABLE"
    OBVIOUS
  <2>1. CASE j = i
    BY <1>8, <1>10, <1>23, <2>1
  <2>2. CASE j # i
    <3>1. j \in DOMAIN t.rows /\ x.rows[j] = t.rows[j]
      BY <1>1, <2>2 DEF Takes
    <3> QED BY <1>10, <1>11, <1>21, <2>2, <3>1
  <2> QED BY <2>1, <2>2
<1>25. \A k \in A \ Waiting(p)' :
         /\ s[k].item \in DOMAIN x.rows
         /\ k \in DOMAIN x.back <=> item[s[k].item].status \notin Withdrawn
  <2>1. DOMAIN x.rows = DOMAIN t.rows \cup {i}
    BY <1>1 DEF Takes
  <2> SUFFICES ASSUME NEW k \in A \ Waiting(p)'
               PROVE  /\ s[k].item \in DOMAIN x.rows
                      /\ k \in DOMAIN x.back <=> item[s[k].item].status \notin Withdrawn
    OBVIOUS
  <2>2. CASE k = l
    BY <1>8, <1>12, <1>18, <2>1, <2>2
  <2>3. CASE k # l
    <3>1. k \in A \ W
      BY <1>10, <2>3
    <3>2. k \in DOMAIN x.back <=> k \in DOMAIN t.back
      BY <1>18, <2>3
    <3> QED BY <1>11, <2>1, <3>1, <3>2
  <2> QED BY <2>2, <2>3
<1>26. /\ DOMAIN x.back \subseteq A \ Waiting(p)'
       /\ \A k \in DOMAIN x.back : x.back[k] = U(k)
  BY <1>8, <1>10, <1>11, <1>18
<1>27. /\ \A j \in DOMAIN x.todo :
            /\ x.todo[j].line \in A /\ x.todo[j].item = s[x.todo[j].line].item
            /\ x.todo[j].qty = U(x.todo[j].line)
       /\ \A j, k \in DOMAIN x.todo : x.todo[j].line = x.todo[k].line => j = k
  <2>1. \A j \in DOMAIN x.todo : j \in Nat /\ j + 1 \in DOMAIN t.todo /\ x.todo[j] = t.todo[j + 1]
    BY <1>1 DEF Takes
  <2>2. /\ \A j \in DOMAIN t.todo :
             /\ t.todo[j].line \in A /\ t.todo[j].item = s[t.todo[j].line].item
             /\ t.todo[j].qty = U(t.todo[j].line)
        /\ \A j, k \in DOMAIN t.todo : t.todo[j].line = t.todo[k].line => j = k
    BY <1>1, <1>2 DEF Returning
  <2>3. \A j, k \in DOMAIN x.todo : x.todo[j].line = x.todo[k].line => j + 1 = k + 1
    BY <2>1, <2>2
  <2> QED BY <2>1, <2>2, <2>3
<1> HIDE DEF A, W, U, B
<1>28. Returning(p)'
  BY <1>5, <1>6, <1>24, <1>25, <1>26, <1>27 DEF Returning, A, U
<1>29. \A k \in DOMAIN x.back : k \in Nat /\ x.back[k] \in Nat
  BY <1>4, <1>7, <1>26 DEF U
<1> QED BY <1>1, <1>23, <1>28, <1>29

\* A purchase, a buyback or an adjustment never takes a row below zero.
LEMMA MoveTakes ==
  ASSUME CounterInv, NEW p \in Proc, NEW x, NEW e, NEW r, Takes(p, x, e, r), tx[p].op = "move",
         tx'[p] = x, item' = item
  PROVE  Moving(p)' /\ x.rows[e.item] \in StockRow /\ x.back = tx[p].back
<1>1. PICK t, i, v : t = tx[p] /\ i = e.item /\ v = x.rows[i]
  OBVIOUS
<1>2. TypeOK /\ Moving(p) /\ TxOK(t)
  BY <1>1 DEF CounterInv, SessionSound, TypeOK
<1>3. /\ i \notin Product /\ i \in Item /\ r \in StockRow /\ e \in Entry /\ 1 \in DOMAIN t.todo
      /\ ~(r.qty + e.qty < 0) /\ v = [r EXCEPT !.qty = @ + e.qty] /\ x.back = t.back
  BY <1>1, <1>2 DEF Takes, Moving, Refused, After, PutsBack
<1>4. r.status = item[i].status
  BY <1>1, <1>2 DEF Takes, Moving, RowOf
<1>5. v.qty = r.qty + e.qty /\ v.status = r.status /\ v \in StockRow /\ v.qty \in Int /\ v.qty >= 0
  BY <1>3 DEF StockRow, Entry
<1>6. \A j \in DOMAIN x.todo : x.todo[j].item \notin Product
  BY <1>1, <1>2 DEF Takes, Moving
<1>7. \A j \in DOMAIN x.rows : j \notin Product /\ x.rows[j].qty >= 0 /\ x.rows[j].status = item[j].status
  <2>1. \A j \in DOMAIN x.rows : j = i \/ (j \in DOMAIN t.rows /\ x.rows[j] = t.rows[j])
    BY <1>1 DEF Takes
  <2> QED BY <1>1, <1>2, <1>3, <1>4, <1>5, <2>1 DEF Moving
<1> QED BY <1>1, <1>3, <1>5, <1>6, <1>7 DEF Moving

\* The product form, a removal, a restoration or a melt writes one row, once.
LEMMA FlagTakes ==
  ASSUME CounterInv, NEW p \in Proc, NEW x, NEW e, NEW r, Takes(p, x, e, r), tx[p].op \in OnFlag,
         tx'[p] = x, item' = item
  PROVE  Flagging(p)' /\ x.rows[e.item] \in StockRow /\ x.back = tx[p].back
<1>1. PICK t, i, v : t = tx[p] /\ i = e.item /\ v = x.rows[i]
  OBVIOUS
<1>2. TypeOK /\ Flagging(p) /\ TxOK(t)
  BY <1>1 DEF CounterInv, SessionSound, TypeOK
<1>3. /\ t.rows = <<>> /\ Len(t.todo) = 1 /\ Len(x.todo) = 0 /\ x.op = t.op /\ t.op \in OnFlag
      /\ i \in Product /\ e.qty >= 0 /\ e.qty \in Int
  <2>1. t.todo # <<>> /\ 1 \in DOMAIN t.todo /\ DOMAIN t.todo = 1..Len(t.todo) /\ Len(t.todo) \in Nat
        /\ Len(x.todo) = Len(t.todo) - 1 /\ e = t.todo[1] /\ e \in Entry /\ x.op = t.op /\ t.op = tx[p].op
    BY <1>1 DEF Takes
  <2>2. t.rows = <<>> /\ Len(t.todo) <= 1 /\ i \in Product /\ e.qty >= 0
    BY <1>1, <1>2, <2>1 DEF Flagging
  <2>3. e.qty \in Int
    BY <2>1 DEF Entry
  <2>4. Len(t.todo) = 1 /\ Len(x.todo) = 0
    <3>1. PICK n : n = Len(t.todo)
      OBVIOUS
    <3>2. n \in Nat /\ 1 \in 1..n /\ n <= 1
      BY <2>1, <2>2, <3>1
    <3>3. n = 1
      BY <3>2
    <3>4. Len(x.todo) = n - 1
      BY <2>1, <3>1
    <3> QED BY <3>1, <3>3, <3>4
  <2>5. t.op \in OnFlag
    BY <1>1
  <2> QED BY <2>1, <2>2, <2>3, <2>4, <2>5
<1>4. r = item[i] /\ r \in StockRow /\ i \in Item
  BY <1>1, <1>3 DEF Takes, RowOf
<1>5. /\ v = After(t.op, e, r) /\ ~Refused(t.op, e, r) /\ DOMAIN x.rows = {i} /\ x.back = t.back
      /\ x.todo = <<>>
  <2>1. v = After(t.op, e, r) /\ ~Refused(t.op, e, r) /\ DOMAIN x.rows = DOMAIN t.rows \cup {i}
    BY <1>1 DEF Takes
  <2>2. x.back = t.back
    BY <1>1, <1>3 DEF Takes, PutsBack, OnFlag
  <2>3. x.todo \in Seq(Entry)
    BY DEF Takes
  <2> QED BY <1>3, <2>1, <2>2, <2>3
<1>6. r.qty \in Int /\ r.status \in {"AVAILABLE", "SOLD", "MELTED", "INACTIVE"}
  BY <1>4 DEF StockRow, Withdrawn
<1>7. t.op = "edit" => v \in StockRow /\ v.qty >= 0 /\ v.status = r.status
  BY <1>3, <1>4, <1>5, <1>6 DEF After, StockRow
<1>8. t.op = "remove" =>
        v \in StockRow /\ v.qty = r.qty /\ v.status = "INACTIVE" /\ r.status \in {"AVAILABLE", "INACTIVE"}
  BY <1>4, <1>5, <1>6 DEF After, StockRow, Refused, Withdrawn
<1>9. t.op = "restore" =>
        v \in StockRow /\ v.qty = r.qty /\ v.status = "AVAILABLE" /\ r.status = "INACTIVE"
  BY <1>4, <1>5, <1>6 DEF After, StockRow, Refused, Withdrawn
<1>10. t.op = "melt" =>
        v \in StockRow /\ v.qty = r.qty /\ v.status = "MELTED" /\ r.status \in {"AVAILABLE", "INACTIVE"}
  BY <1>4, <1>5, <1>6 DEF After, StockRow, Refused, Withdrawn
<1>11. v \in StockRow
  BY <1>3, <1>7, <1>8, <1>9, <1>10 DEF OnFlag
<1>12. t.op = "edit" => EditsStock
  BY <1>1, <1>2, <1>3 DEF Flagging
<1>13. Flagging(p)'
  <2>1. \A j \in DOMAIN x.rows : j = i /\ x.rows[j] = v
    BY <1>1, <1>5
  <2>2. \A j, k \in DOMAIN x.rows : j = k
    BY <2>1
  <2>3. Len(x.todo) <= 1 /\ DOMAIN x.todo = {}
    BY <1>3, <1>5
  <2>4. \A j \in DOMAIN x.rows :
          /\ j \in Product
          /\ x.op = "edit" => x.rows[j].qty >= 0 /\ x.rows[j].status = item[j].status
          /\ x.op # "edit" => x.rows[j].qty = item[j].qty
          /\ x.op = "remove" =>
               item[j].status \in {"AVAILABLE", "INACTIVE"} /\ x.rows[j].status = "INACTIVE"
          /\ x.op = "restore" => item[j].status = "INACTIVE" /\ x.rows[j].status = "AVAILABLE"
          /\ x.op = "melt" =>
               item[j].status \in {"AVAILABLE", "INACTIVE"} /\ x.rows[j].status = "MELTED"
    BY <1>3, <1>4, <1>7, <1>8, <1>9, <1>10, <2>1 DEF OnFlag
  <2>5. tx'[p] = x /\ item' = item /\ x.op = t.op
    BY <1>3
  <2> QED BY <1>5, <1>12, <2>2, <2>3, <2>4, <2>5 DEF Flagging
<1> QED BY <1>1, <1>5, <1>11, <1>13

\* Taking a line keeps the invariant.
LEMMA TakeCounter == ASSUME CounterInv, NEW p \in Proc, TakeItem(p) PROVE CounterInv'
<1>0. CASE Refuse(p)
  BY <1>0, RefuseCounter
<1> SUFFICES ASSUME ~Refuse(p) PROVE CounterInv'
  BY <1>0
<1>1. UNCHANGED <<tables, orderLock, auditLock>>
  BY ItemTaken
<1>2. PICK x, e, r : Takes(p, x, e, r) /\ tx' = [tx EXCEPT ![p] = x]
                     /\ itemLock[e.item] \in {NONE, p} /\ itemLock' = [itemLock EXCEPT ![e.item] = p]
  BY ItemTaken
<1>3. PICK t, i : t = tx[p] /\ i = e.item
  OBVIOUS
<1>4. /\ TypeOK /\ Shaped /\ SessionSound(p) /\ TxOK(t)
  BY <1>3 DEF CounterInv, TypeOK
<1>5. /\ IsSession(x) /\ x.op = t.op /\ x.order = t.order /\ x.number = t.number /\ x.cart = t.cart
      /\ t.pc = "lines" /\ i \in Item /\ DOMAIN x.rows = DOMAIN t.rows \cup {i}
      /\ (\A j \in DOMAIN t.rows : j # i => x.rows[j] = t.rows[j])
      /\ x.todo \in Seq(Entry) /\ x.pc = AfterLine(t, x.todo)
  BY <1>3, <1>2 DEF Takes
<1>6. Shaped' /\ tx'[p] = x /\ \A q \in Proc : q # p => tx'[q] = tx[q]
  BY <1>2, <1>4, <1>5, Given
<1>7. item' = item /\ orders' = orders /\ Committed' = Committed /\ orderLock' = orderLock
  BY <1>1 DEF tables, Committed
<1>8. t.op \in {"sale", "void", "itemRefund", "move"} \cup OnFlag
  BY <1>3, <1>4, <1>5 DEF SessionSound, Course, TxOK, Ops, OrderOps, OnFlag
<1>9. /\ itemLock' \in [Item -> Proc \cup {NONE}] /\ itemLock'[i] = p
      /\ \A j \in Item : j # i => itemLock'[j] = itemLock[j]
  BY <1>2, <1>3, <1>4, <1>5 DEF TypeOK
<1>10. Course(p)'
  <2>1. x.todo # <<>> => x.pc = "lines"
    BY <1>5 DEF AfterLine
  <2>2. x.todo = <<>> => x.pc = IF x.op = "sale" THEN "insert" ELSE "event"
    BY <1>5 DEF AfterLine
  <2>3. x.op \notin {"none", "refund"}
    BY <1>5, <1>8 DEF OnFlag
  <2>4. CASE x.todo = <<>>
    BY <1>6, <2>2, <2>3, <2>4 DEF Course
  <2>5. CASE x.todo # <<>>
    BY <1>6, <2>1, <2>3, <2>5 DEF Course
  <2> QED BY <2>4, <2>5
<1>11. Holds(p)'
  <2>1. \A j \in DOMAIN x.rows : itemLock'[j] = p
    BY <1>3, <1>4, <1>5, <1>9 DEF SessionSound, Holds, TxOK
  <2>2. LinesOf(p)' = LinesOf(p)
    BY <1>3, <1>5, <1>6, <1>7 DEF LinesOf
  <2>3. x.pc # "order"
    BY <1>5 DEF AfterLine
  <2> QED BY <1>3, <1>4, <1>5, <1>6, <1>7, <2>1, <2>2, <2>3 DEF SessionSound, Holds
<1>12. /\ Selling(p)' /\ Returning(p)' /\ Moving(p)' /\ Flagging(p)' /\ x.rows[i] \in StockRow
       /\ \A k \in DOMAIN x.back : k \in Nat /\ x.back[k] \in Nat
  <2>1. CASE t.op = "sale"
    <3>1. Selling(p)' /\ x.rows[i] \in StockRow /\ x.back = <<>>
      BY <1>2, <1>3, <1>6, <1>7, <2>1, SaleTakes
    <3> QED BY <1>5, <1>6, <2>1, <3>1 DEF Returning, Moving, Flagging, OnFlag
  <2>2. CASE t.op \in {"void", "itemRefund"}
    <3>1. /\ Returning(p)' /\ x.rows[i] \in StockRow
          /\ \A k \in DOMAIN x.back : k \in Nat /\ x.back[k] \in Nat
      BY <1>2, <1>3, <1>6, <1>7, <2>2, ReturnTakes
    <3> QED BY <1>5, <1>6, <2>2, <3>1 DEF Selling, Moving, Flagging, OnFlag
  <2>3. CASE t.op = "move"
    <3>1. Moving(p)' /\ x.rows[i] \in StockRow /\ x.back = t.back
      BY <1>2, <1>3, <1>6, <1>7, <2>3, MoveTakes
    <3> QED BY <1>4, <1>5, <1>6, <2>3, <3>1 DEF Selling, Returning, Flagging, OnFlag, TxOK
  <2>4. CASE t.op \in OnFlag
    <3>1. Flagging(p)' /\ x.rows[i] \in StockRow /\ x.back = t.back
      BY <1>2, <1>3, <1>6, <1>7, <2>4, FlagTakes
    <3> QED BY <1>4, <1>5, <1>6, <2>4, <3>1 DEF Selling, Returning, Moving, OnFlag, TxOK
  <2> QED BY <1>8, <2>1, <2>2, <2>3, <2>4
<1>13. SessionSound(p)'
  BY <1>10, <1>11, <1>12 DEF SessionSound
<1>14. TxOK(tx[p])'
  <2>1. DOMAIN x.rows \subseteq Item /\ \A j \in DOMAIN x.rows : x.rows[j] \in StockRow
    BY <1>4, <1>5, <1>12 DEF TxOK
  <2>2. x.pc \in {"lines", "insert", "event"}
    BY <1>5 DEF AfterLine
  <2>3. TxOK(x)
    BY <1>4, <1>5, <1>12, <2>1, <2>2 DEF TxOK
  <2> QED BY <1>6, <2>3 DEF TxOK
<1>15. \A q \in Proc : q # p /\ tx[q].op = "sale" => tx'[p].order # tx[q].order
  BY <1>3, <1>5, <1>6, NobodyElses
<1>16. tx'[p].op = "sale" => tx'[p].pc \notin {"event", "commit"}
  BY <1>5, <1>6 DEF AfterLine
<1>17. \A j \in Item : itemLock[j] \notin {NONE, p} => itemLock'[j] = itemLock[j]
  BY <1>2, <1>3, <1>9
<1> QED BY <1>1, <1>4, <1>6, <1>9, <1>13, <1>14, <1>15, <1>16, <1>17, QuietCounter DEF TypeOK

-----------------------------------------------------------------------------
(* The commit: what the rows it writes hold.                                *)

\* The order a handler works on, and what it brought back to it.
LEMMA OrderHeld ==
  ASSUME CounterInv, NEW p \in Proc, tx[p].op \in OnOrder, tx[p].pc = "commit"
  PROVE  /\ tx[p].order \in Order /\ tx[p].order \in Committed /\ orderLock[tx[p].order] = p
         /\ DOMAIN tx[p].back \subseteq DOMAIN LinesOf(p)
         /\ \A k \in DOMAIN tx[p].back : tx[p].back[k] \in Nat
         /\ \A i : Brought(p, i) \in Nat
<1>1. PICK t, d : t = tx[p] /\ d = t.order
  OBVIOUS
<1>2. /\ TypeOK /\ Holds(p) /\ Returning(p) /\ TxOK(t) /\ Course(p) /\ t.op \in OnOrder /\ t.pc = "commit"
  BY <1>1 DEF CounterInv, SessionSound, TypeOK
<1>3. d \in Order /\ d \in Committed /\ orderLock[d] = p
  BY <1>1, <1>2 DEF Holds, Committed
<1>4. DOMAIN t.back \subseteq DOMAIN LinesOf(p)
  <2>1. CASE t.op = "refund"
    BY <1>1, <1>2, <2>1 DEF Course
  <2>2. CASE t.op = "void"
    BY <1>1, <1>2, <2>2 DEF Returning, Asked
  <2>3. CASE t.op = "itemRefund"
    BY <1>1, <1>2, <2>3 DEF Returning, Asked, Holds
  <2> QED BY <1>2, <2>1, <2>2, <2>3 DEF OnOrder
<1>5. \A k \in DOMAIN t.back : t.back[k] \in Nat
  BY <1>2 DEF TxOK
<1>6. \A i : Brought(p, i) \in Nat
  <2> SUFFICES ASSUME NEW i PROVE Brought(p, i) \in Nat
    OBVIOUS
  <2>1. PICK B : B = {k \in DOMAIN t.back : LinesOf(p)[k].item = i}
    OBVIOUS
  <2>2. B \subseteq DOMAIN orders[d].lines
    BY <1>1, <1>4, <2>1 DEF LinesOf
  <2>3. IsFiniteSet(B) /\ \A k \in B : t.back[k] \in Nat
    BY <1>2, <1>3, <1>5, <2>1, <2>2, FiniteLines
  <2>4. SumFunctionOnSet(t.back, B) \in Nat
    BY <2>3, SumNat
  <2> QED BY <1>1, <2>1, <2>4 DEF Brought
<1> QED BY <1>1, <1>3, <1>4, <1>5, <1>6

\* A sale leaves each row with what it took less.
LEMMA SaleRows ==
  ASSUME CounterInv, NEW p \in Proc, tx[p].op = "sale", tx[p].pc = "commit", NEW i \in Item
  PROVE  /\ Handled(p) = DOMAIN tx[p].cart
         /\ RowOf(p, i).qty = item[i].qty - Taken(p, i) /\ RowOf(p, i).qty >= 0
         /\ i \notin Product => RowOf(p, i).status = "AVAILABLE"
<1>1. PICK t : t = tx[p]
  OBVIOUS
<1>2. TypeOK /\ Selling(p) /\ TxOK(t) /\ Course(p) /\ item[i] \in StockRow /\ item[i].qty >= 0 /\ CoinsPlain
  BY <1>1 DEF CounterInv, SessionSound, TypeOK
<1>3. Handled(p) = DOMAIN t.cart
  <2>1. t.todo = <<>> /\ t.cart \in Seq(Entry)
    BY <1>1, <1>2 DEF Course, TxOK
  <2>2. Len(t.todo) = 0 /\ Len(t.cart) \in Nat /\ DOMAIN t.cart = 1..Len(t.cart)
    BY <2>1
  <2> QED BY <1>1, <2>2 DEF Handled
<1>4. CASE i \in DOMAIN t.rows
  BY <1>1, <1>2, <1>3, <1>4 DEF Selling, RowOf, Flag
<1>5. CASE i \notin DOMAIN t.rows
  <2>1. {k \in Handled(p) : t.cart[k].item = i} = {}
    BY <1>1, <1>2, <1>5 DEF Selling
  <2>2. Taken(p, i) = 0
    BY <1>1, <2>1, NoSum DEF Taken
  <2>3. RowOf(p, i) = item[i] /\ item[i].qty \in Int
    BY <1>1, <1>2, <1>5 DEF RowOf, StockRow
  <2> QED BY <1>1, <1>2, <1>3, <2>2, <2>3 DEF CoinsPlain
<1> QED BY <1>4, <1>5

\* A void or a refund leaves each row with what it brought back more.
LEMMA ReturnRows ==
  ASSUME CounterInv, NEW p \in Proc, tx[p].op \in OnOrder, tx[p].pc = "commit", NEW i \in Item
  PROVE  /\ RowOf(p, i).qty = item[i].qty + Brought(p, i) /\ RowOf(p, i).qty >= 0
         /\ i \notin Product => RowOf(p, i).status = "AVAILABLE"
<1>1. PICK t : t = tx[p]
  OBVIOUS
<1>2. /\ TypeOK /\ Returning(p) /\ Course(p) /\ item[i] \in StockRow /\ item[i].qty >= 0 /\ CoinsPlain
      /\ t.op \in OnOrder /\ t.pc = "commit"
  BY <1>1 DEF CounterInv, SessionSound, TypeOK
<1>3. item[i].qty \in Int /\ Brought(p, i) \in Nat
  BY <1>2, OrderHeld DEF StockRow
<1>4. CASE i \in DOMAIN t.rows /\ item[i].status \notin Withdrawn
  <2>1. t.op # "refund"
    BY <1>1, <1>2, <1>4 DEF Course
  <2> QED BY <1>1, <1>2, <1>3, <1>4, <2>1 DEF Returning, OnOrder, RowOf
<1>5. CASE ~(i \in DOMAIN t.rows /\ item[i].status \notin Withdrawn)
  <2>1. RowOf(p, i) = item[i] /\ {k \in DOMAIN t.back : LinesOf(p)[k].item = i} = {}
    <3>1. CASE t.op = "refund"
      BY <1>1, <1>2, <3>1 DEF Course, RowOf
    <3>2. CASE t.op \in {"void", "itemRefund"}
      <4>1. \A k \in DOMAIN t.back : /\ LinesOf(p)[k].item \in DOMAIN t.rows
                                     /\ item[LinesOf(p)[k].item].status \notin Withdrawn
        BY <1>1, <1>2, <3>2 DEF Returning
      <4>2. i \in DOMAIN t.rows => t.rows[i] = item[i]
        BY <1>1, <1>2, <1>5, <3>2 DEF Returning
      <4> QED BY <1>1, <1>5, <4>1, <4>2 DEF RowOf
    <3> QED BY <1>2, <3>1, <3>2 DEF OnOrder
  <2>2. Brought(p, i) = 0
    BY <1>1, <2>1, NoSum DEF Brought
  <2> QED BY <1>2, <1>3, <2>1, <2>2 DEF CoinsPlain
<1> QED BY <1>4, <1>5

\* Whatever a handler commits, no row goes below zero and no coin is withdrawn.
LEMMA RowsKept ==
  ASSUME CounterInv, NEW p \in Proc, tx[p].pc = "commit", NEW i \in Item
  PROVE  /\ RowOf(p, i) \in StockRow /\ RowOf(p, i).qty >= 0
         /\ i \notin Product => RowOf(p, i).status = "AVAILABLE"
<1>1. PICK t : t = tx[p]
  OBVIOUS
<1>2. /\ TypeOK /\ SessionSound(p) /\ TxOK(t) /\ item[i] \in StockRow /\ item[i].qty >= 0 /\ CoinsPlain
  BY <1>1 DEF CounterInv, TypeOK
<1>3. RowOf(p, i) \in StockRow
  BY <1>1, <1>2 DEF RowOf, TxOK
<1>4. t.op \in {"sale", "move"} \cup OnOrder \cup OnFlag
  BY <1>1, <1>2 DEF SessionSound, Course, TxOK, Ops, OrderOps, OnOrder, OnFlag
<1>5. CASE t.op = "sale"
  BY <1>1, <1>3, <1>5, SaleRows
<1>6. CASE t.op \in OnOrder
  BY <1>1, <1>3, <1>6, ReturnRows
<1>7. CASE t.op = "move"
  BY <1>1, <1>2, <1>3, <1>7 DEF SessionSound, Moving, RowOf, CoinsPlain
<1>8. CASE t.op \in OnFlag
  <2>1. i \in DOMAIN t.rows => i \in Product /\ t.rows[i].qty >= 0
    BY <1>1, <1>2, <1>8 DEF SessionSound, Flagging
  <2> QED BY <1>1, <1>2, <1>3, <2>1 DEF RowOf, CoinsPlain
<1> QED BY <1>4, <1>5, <1>6, <1>7, <1>8

\* What a void or a refund leaves of the lines of its order.
LEMMA LinesLeft ==
  ASSUME CounterInv, NEW p \in Proc, tx[p].op \in OnOrder, tx[p].pc = "commit",
         NEW s, s = LinesOf(p), NEW w, w = LinesAfter(tx[p])
  PROVE  /\ w \in Seq(OrderLine) /\ DOMAIN w = DOMAIN s /\ (w = <<>> => s = <<>>)
         /\ \A k \in DOMAIN s :
              /\ w[k].item = s[k].item /\ w[k].qty = s[k].qty
              /\ w[k].refunded = s[k].refunded + RefundedBy(tx[p], k)
              /\ w[k].restored = s[k].restored + Restored(tx[p], k)
              /\ RefundedBy(tx[p], k) \in Nat /\ Restored(tx[p], k) \in Nat
<1>1. PICK t, d : t = tx[p] /\ d = t.order
  OBVIOUS
<1>2. TypeOK /\ Holds(p) /\ TxOK(t) /\ t.op \in OnOrder /\ t.pc = "commit"
  BY <1>1 DEF CounterInv, SessionSound, TypeOK
<1>3. d \in Order /\ s = orders[d].lines
  BY <1>1, <1>2 DEF Holds, Committed, LinesOf
<1>4. /\ s \in Seq(OrderLine) /\ DOMAIN s = 1..Len(s) /\ Len(s) \in Nat
      /\ \A k \in DOMAIN s : s[k] \in OrderLine
  BY <1>2, <1>3, OrderTypes
<1>5. w = [k \in DOMAIN s |-> [s[k] EXCEPT !.refunded = @ + RefundedBy(t, k), !.restored = @ + Restored(t, k)]]
  BY <1>1, <1>2, <1>3 DEF LinesAfter, OnOrder
<1>6. \A k \in DOMAIN s : RefundedBy(t, k) \in Nat /\ Restored(t, k) \in Nat
  <2>1. \A k : Restored(t, k) \in Nat
    BY <1>1, OrderHeld DEF Restored
  <2>2. t.op = "itemRefund" => t.cart[1].qty \in Nat
    <3> SUFFICES ASSUME t.op = "itemRefund" PROVE t.cart[1].qty \in Nat
      OBVIOUS
    <3>1. t.cart \in Seq(Entry) /\ Len(t.cart) = 1 /\ t.cart[1].qty >= 1
      BY <1>1, <1>2 DEF Holds, TxOK
    <3>2. t.cart[1] \in Entry
      BY <3>1
    <3> QED BY <3>1, <3>2 DEF Entry
  <2> QED BY <2>1, <2>2 DEF RefundedBy
<1>7. \A k \in DOMAIN s :
        /\ w[k] \in OrderLine /\ w[k].item = s[k].item /\ w[k].qty = s[k].qty
        /\ w[k].refunded = s[k].refunded + RefundedBy(t, k)
        /\ w[k].restored = s[k].restored + Restored(t, k)
  <2> SUFFICES ASSUME NEW k \in DOMAIN s
               PROVE  /\ w[k] \in OrderLine /\ w[k].item = s[k].item /\ w[k].qty = s[k].qty
                      /\ w[k].refunded = s[k].refunded + RefundedBy(t, k)
                      /\ w[k].restored = s[k].restored + Restored(t, k)
    OBVIOUS
  <2>1. PICK a, b : a = RefundedBy(t, k) /\ b = Restored(t, k) /\ a \in Nat /\ b \in Nat
    BY <1>6
  <2>2. w[k] = [s[k] EXCEPT !.refunded = @ + a, !.restored = @ + b]
    BY <1>5, <2>1
  <2>3. PICK l : l = s[k]
    OBVIOUS
  <2>4. l \in [item : Item, qty : Nat, refunded : Nat, restored : Nat]
    BY <1>4, <2>3 DEF OrderLine
  <2>5. /\ w[k] \in OrderLine /\ w[k].item = l.item /\ w[k].qty = l.qty
        /\ w[k].refunded = l.refunded + a /\ w[k].restored = l.restored + b
    <3>1. PICK u, v : u = l.refunded + a /\ v = l.restored + b
      OBVIOUS
    <3>2. w[k] = [l EXCEPT !.refunded = u, !.restored = v]
      BY <2>2, <2>3, <3>1
    <3>3. u \in Nat /\ v \in Nat
      BY <2>1, <2>4, <3>1
    <3> QED BY <2>4, <3>1, <3>2, <3>3 DEF OrderLine
  <2> QED BY <2>1, <2>3, <2>5
<1>8. DOMAIN w = DOMAIN s
  BY <1>5
<1>9. w \in Seq(OrderLine)
  <2>1. w \in [1..Len(s) -> OrderLine]
    <3>1. w = [k \in DOMAIN s |-> w[k]]
      BY <1>5
    <3> QED BY <1>4, <1>7, <3>1
  <2> QED BY <1>4, <2>1
<1>10. w = <<>> => s = <<>>
  <2> SUFFICES ASSUME w = <<>> PROVE s = <<>>
    OBVIOUS
  <2>1. DOMAIN s = {}
    BY <1>8
  <2> QED BY <1>4, <2>1
<1> QED BY <1>1, <1>6, <1>7, <1>8, <1>9, <1>10

\* How many units of a line that is.
LEMMA UnitsLeft ==
  ASSUME CounterInv, NEW p \in Proc, tx[p].op \in OnOrder, tx[p].pc = "commit", NEW k \in DOMAIN LinesOf(p)
  PROVE  LET l == LinesOf(p)[k]
             t == tx[p]
             n == IF t.op = "void" THEN l.qty
                  ELSE IF t.op = "itemRefund" /\ k = t.cart[1].line THEN t.cart[1].qty ELSE 0
         IN  /\ Restored(t, k) = IF item[l.item].status \notin Withdrawn THEN n ELSE 0
             /\ RefundedBy(t, k) = IF t.op = "itemRefund" THEN n ELSE 0
             /\ n \in Nat /\ n <= l.qty - l.refunded
<1>1. PICK t, d, s : t = tx[p] /\ d = t.order /\ s = LinesOf(p)
  OBVIOUS
<1>2. /\ TypeOK /\ Holds(p) /\ Returning(p) /\ Course(p) /\ TxOK(t) /\ t.op \in OnOrder /\ t.pc = "commit"
  BY <1>1 DEF CounterInv, SessionSound, TypeOK
<1>3. d \in Order /\ d \in Committed /\ s = orders[d].lines /\ OrderSound(d)
  BY <1>1, <1>2 DEF Holds, Committed, LinesOf, CounterInv
<1>4. s[k].qty \in Nat /\ s[k].refunded \in Nat /\ s[k].refunded <= s[k].qty
      /\ (orders[d].status = "COMPLETED" => s[k].refunded = 0)
  BY <1>1, <1>2, <1>3, OrderTypes DEF OrderSound, LineSound
<1>5. Waiting(p) = {}
  BY <1>1, <1>2 DEF Course, Waiting
<1>6. CASE t.op = "refund"
  BY <1>1, <1>2, <1>4, <1>6 DEF Course, Restored, RefundedBy
<1>7. CASE t.op = "void"
  <2>1. Asked(p) = DOMAIN s /\ UnitsAsked(p, k) = s[k].qty
    BY <1>1, <1>7 DEF Asked, UnitsAsked
  <2>2. /\ k \in DOMAIN t.back <=> item[s[k].item].status \notin Withdrawn
        /\ k \in DOMAIN t.back => t.back[k] = s[k].qty
    BY <1>1, <1>2, <1>5, <1>7, <2>1 DEF Returning
  <2>3. orders[d].status = "COMPLETED"
    BY <1>1, <1>2, <1>7 DEF Holds
  <2> QED BY <1>1, <1>4, <1>7, <2>2, <2>3 DEF Restored, RefundedBy
<1>8. CASE t.op = "itemRefund"
  <2>1. Asked(p) = {t.cart[1].line} /\ UnitsAsked(p, k) = t.cart[1].qty
    BY <1>1, <1>8 DEF Asked, UnitsAsked
  <2>2. /\ k \in DOMAIN t.back <=> (k = t.cart[1].line /\ item[s[k].item].status \notin Withdrawn)
        /\ k \in DOMAIN t.back => t.back[k] = t.cart[1].qty
    <3>1. DOMAIN t.back \subseteq {t.cart[1].line}
      BY <1>1, <1>2, <1>5, <1>8, <2>1 DEF Returning
    <3>2. k = t.cart[1].line => (k \in DOMAIN t.back <=> item[s[k].item].status \notin Withdrawn)
      BY <1>1, <1>2, <1>5, <1>8, <2>1 DEF Returning
    <3>3. k \in DOMAIN t.back => t.back[k] = t.cart[1].qty
      BY <1>1, <1>2, <1>8, <2>1 DEF Returning
    <3> QED BY <3>1, <3>2, <3>3
  <2>3. t.cart[1].qty \in Nat
    <3>1. t.cart \in Seq(Entry) /\ Len(t.cart) = 1 /\ t.cart[1].qty >= 1
      BY <1>1, <1>2, <1>8 DEF Holds, TxOK
    <3>2. t.cart[1] \in Entry
      BY <3>1
    <3> QED BY <3>1, <3>2 DEF Entry
  <2>4. k = t.cart[1].line => t.cart[1].qty <= s[k].qty - s[k].refunded
    BY <1>1, <1>2, <1>8 DEF Holds
  <2> QED BY <1>1, <1>4, <1>8, <2>2, <2>3, <2>4 DEF Restored, RefundedBy
<1> QED BY <1>2, <1>6, <1>7, <1>8 DEF OnOrder

\* The order a void or a refund commits is sound.
LEMMA ReturnSound ==
  ASSUME CounterInv, NEW p \in Proc, tx[p].op \in OnOrder, tx[p].pc = "commit",
         NEW d, d = tx[p].order, orders'[d] = OrderAfter(tx[p])
  PROVE  /\ OrderAfter(tx[p]) \in OrderRow /\ OrderSound(d)'
         /\ OrderAfter(tx[p]).status # "NEW" /\ OrderAfter(tx[p]).number = orders[d].number
<1>1. PICK t, s, w, o : /\ t = tx[p] /\ d = t.order /\ s = LinesOf(p) /\ w = LinesAfter(tx[p])
                           /\ o = OrderAfter(tx[p])
  OBVIOUS
<1>2. TypeOK /\ Holds(p) /\ t.op \in OnOrder /\ t.pc = "commit" /\ CoinsPlain
  BY <1>1 DEF CounterInv, SessionSound, TypeOK
<1>3. d \in Order /\ d \in Committed /\ s = orders[d].lines /\ OrderSound(d)
  BY <1>1, <1>2 DEF Holds, Committed, LinesOf, CounterInv
<1>4. o.status = StatusAfter(t) /\ o.lines = w /\ o.number = orders[d].number
      /\ o = [status |-> o.status, lines |-> w, number |-> orders[d].number]
  BY <1>1, <1>2 DEF OrderAfter, OnOrder
<1>5. /\ t.op = "void" => o.status = "VOIDED"
      /\ t.op = "refund" => o.status = "REFUNDED"
      /\ t.op = "itemRefund" => o.status \in {"REFUNDED", "PARTIALLY_REFUNDED"}
  BY <1>4 DEF StatusAfter
<1>6. /\ w \in Seq(OrderLine) /\ DOMAIN w = DOMAIN s /\ (w = <<>> => s = <<>>)
      /\ \A k \in DOMAIN s :
           /\ w[k].item = s[k].item /\ w[k].qty = s[k].qty
           /\ w[k].refunded = s[k].refunded + RefundedBy(t, k)
           /\ w[k].restored = s[k].restored + Restored(t, k)
  BY <1>1, LinesLeft
<1>7. o \in OrderRow
  <2>1. orders[d].number \in Nat
    BY <1>2, <1>3, OrderTypes
  <2>2. o.status \in {"VOIDED", "REFUNDED", "PARTIALLY_REFUNDED"}
    BY <1>2, <1>5 DEF OnOrder
  <2> QED BY <1>4, <1>6, <2>1, <2>2 DEF OrderRow
<1>8. ASSUME NEW k \in DOMAIN w PROVE LineSound(d, k)'
  <2>1. PICK l, n : /\ l = s[k]
                    /\ n = IF t.op = "void" THEN l.qty
                           ELSE IF t.op = "itemRefund" /\ k = t.cart[1].line THEN t.cart[1].qty ELSE 0
    OBVIOUS
  <2>2. k \in DOMAIN s /\ l.item \in Item /\ l.qty \in Nat /\ l.refunded \in Nat /\ l.restored \in Nat
    BY <1>2, <1>3, <1>6, <1>8, <2>1, OrderTypes
  <2>3. /\ Restored(t, k) = IF item[l.item].status \notin Withdrawn THEN n ELSE 0
        /\ RefundedBy(t, k) = IF t.op = "itemRefund" THEN n ELSE 0
        /\ n \in Nat /\ n <= l.qty - l.refunded
    BY <1>1, <1>2, <2>1, <2>2, UnitsLeft
  <2>4. /\ l.qty >= 1 /\ l.refunded <= l.qty
        /\ orders[d].status \in {"COMPLETED", "VOIDED"} => l.refunded = 0
        /\ l.restored <= IF orders[d].status = "VOIDED" THEN l.qty ELSE l.refunded
        /\ l.item \notin Product =>
             l.restored = IF orders[d].status = "VOIDED" THEN l.qty ELSE l.refunded
    BY <1>3, <2>1, <2>2 DEF OrderSound, LineSound
  <2>5. /\ t.op # "itemRefund" => orders[d].status = "COMPLETED"
        /\ orders[d].status # "VOIDED"
    BY <1>1, <1>2 DEF Holds, OnOrder
  <2>6. l.item \notin Product => item[l.item].status \notin Withdrawn
    BY <1>2, <2>2 DEF CoinsPlain, Withdrawn
  <2>7. /\ w[k].item = l.item /\ w[k].qty = l.qty
        /\ w[k].refunded = l.refunded + RefundedBy(t, k)
        /\ w[k].restored = l.restored + Restored(t, k)
    BY <1>6, <2>1, <2>2
  <2>8. CASE t.op = "void"
    <3>1. w[k].refunded = 0 /\ w[k].restored <= l.qty
          /\ (l.item \notin Product => w[k].restored = l.qty)
      BY <2>1, <2>2, <2>3, <2>4, <2>5, <2>6, <2>7, <2>8
    <3> QED BY <1>1, <1>4, <1>5, <2>2, <2>4, <2>7, <2>8, <3>1 DEF LineSound
  <2>9. CASE t.op = "refund"
    <3>1. w[k].refunded = l.refunded /\ w[k].restored = l.restored
      BY <2>1, <2>2, <2>3, <2>7, <2>9
    <3>2. o.status = "REFUNDED"
      BY <1>5, <2>9
    <3> QED BY <1>1, <1>4, <2>2, <2>4, <2>5, <2>7, <3>1, <3>2 DEF LineSound
  <2>10. CASE t.op = "itemRefund"
    <3>1. /\ w[k].refunded = l.refunded + n /\ w[k].refunded <= l.qty
          /\ w[k].restored <= w[k].refunded
          /\ (l.item \notin Product => w[k].restored = w[k].refunded)
      BY <2>2, <2>3, <2>4, <2>5, <2>6, <2>7, <2>10
    <3>2. o.status \in {"REFUNDED", "PARTIALLY_REFUNDED"}
      BY <1>5, <2>10
    <3> QED BY <1>1, <1>4, <2>2, <2>4, <2>7, <3>1, <3>2 DEF LineSound
  <2> QED BY <1>2, <2>8, <2>9, <2>10 DEF OnOrder
<1>9. OrderSound(d)'
  <2>1. orders'[d].lines = w /\ w # <<>>
    BY <1>1, <1>3, <1>4, <1>6 DEF OrderSound
  <2> QED BY <1>8, <2>1 DEF OrderSound
<1> QED BY <1>1, <1>2, <1>4, <1>5, <1>7, <1>9 DEF OnOrder

\* The order a sale commits is sound.
LEMMA SaleSound ==
  ASSUME CounterInv, NEW p \in Proc, tx[p].op = "sale", tx[p].pc = "commit",
         NEW d, d = tx[p].order, orders'[d] = OrderAfter(tx[p]), NEW w, w = LinesAfter(tx[p])
  PROVE  /\ OrderAfter(tx[p]) \in OrderRow /\ OrderSound(d)'
         /\ OrderAfter(tx[p]).status = "COMPLETED" /\ OrderAfter(tx[p]).number = tx[p].number
         /\ OrderAfter(tx[p]).lines = w /\ DOMAIN w = DOMAIN tx[p].cart
         /\ \A k \in DOMAIN w : /\ w[k].item = tx[p].cart[k].item /\ w[k].qty = tx[p].cart[k].qty
                                /\ w[k].qty \in Nat /\ w[k].restored = 0 /\ w[k].refunded = 0
<1>1. PICK t, c, o : t = tx[p] /\ d = t.order /\ c = t.cart /\ o = OrderAfter(tx[p])
  OBVIOUS
<1>2. TxOK(t) /\ Selling(p) /\ t.op = "sale"
  BY <1>1 DEF CounterInv, SessionSound, TypeOK
<1>3. c \in Seq(Entry) /\ c # <<>> /\ t.number \in Nat
      /\ \A k \in DOMAIN c : c[k].item \in Item /\ c[k].qty >= 1
  BY <1>1, <1>2 DEF TxOK, Selling
<1>4. Len(c) \in Nat /\ DOMAIN c = 1..Len(c) /\ \A k \in DOMAIN c : c[k] \in Entry
  BY <1>3
<1>5. \A k \in DOMAIN c : c[k].qty \in Nat
  BY <1>3, <1>4 DEF Entry
<1>6. w = [k \in DOMAIN c |-> [item |-> c[k].item, qty |-> c[k].qty, refunded |-> 0, restored |-> 0]]
  BY <1>1, <1>2 DEF LinesAfter
<1>7. DOMAIN w = DOMAIN c /\ \A k \in DOMAIN w :
        /\ w[k] \in OrderLine /\ w[k].item = c[k].item /\ w[k].qty = c[k].qty
        /\ w[k].restored = 0 /\ w[k].refunded = 0
  BY <1>3, <1>5, <1>6 DEF OrderLine
<1>8. w \in Seq(OrderLine) /\ w # <<>>
  <2>1. w \in [1..Len(c) -> OrderLine]
    BY <1>4, <1>6, <1>7
  <2>2. DOMAIN c # {}
    BY <1>3, <1>4
  <2> QED BY <1>4, <1>7, <2>1, <2>2
<1>9. o = [status |-> "COMPLETED", lines |-> w, number |-> t.number]
  BY <1>1, <1>2 DEF OrderAfter, StatusAfter
<1>10. o \in OrderRow /\ o.status = "COMPLETED" /\ o.lines = w /\ o.number = t.number
  BY <1>3, <1>8, <1>9 DEF OrderRow
<1>11. orders'[d] = o
  BY <1>1
<1>12. \A k \in DOMAIN w : LineSound(d, k)'
  BY <1>3, <1>5, <1>7, <1>10, <1>11 DEF LineSound
<1>13. OrderSound(d)'
  BY <1>8, <1>10, <1>11, <1>12 DEF OrderSound
<1> QED BY <1>1, <1>5, <1>7, <1>10, <1>13

-----------------------------------------------------------------------------
(* The commit: the units of an item outside.                                *)

\* The units of a line that are outside.
Out(d) == [k \in DOMAIN orders[d].lines |-> orders[d].lines[k].qty - orders[d].lines[k].restored]
LinesWith(d, i) == {k \in DOMAIN orders[d].lines : orders[d].lines[k].item = i}

\* They are numbers, and so are their sums.
LEMMA OutsideTypes ==
  ASSUME TypeOK, NEW i
  PROVE  /\ \A d \in Order : /\ IsFiniteSet(LinesWith(d, i)) /\ OutOf(d, i) \in Int
                             /\ \A k \in LinesWith(d, i) : Out(d)[k] \in Int
         /\ \A d : OutOf(d, i) = SumFunctionOnSet(Out(d), LinesWith(d, i))
         /\ IsFiniteSet(Committed) => Outside(i) \in Int
<1>1. \A d : OutOf(d, i) = SumFunctionOnSet(Out(d), LinesWith(d, i))
  BY DEF OutOf, Out, LinesWith
<1>2. ASSUME NEW d \in Order
      PROVE  /\ IsFiniteSet(LinesWith(d, i)) /\ OutOf(d, i) \in Int
             /\ \A k \in LinesWith(d, i) : Out(d)[k] \in Int
  <2>1. PICK f, S : f = Out(d) /\ S = LinesWith(d, i)
    OBVIOUS
  <2>2. S \subseteq DOMAIN orders[d].lines
    BY <2>1 DEF LinesWith
  <2>3. IsFiniteSet(S)
    BY <2>2, FiniteLines
  <2>4. \A k \in S : f[k] = orders[d].lines[k].qty - orders[d].lines[k].restored
    BY <2>1, <2>2 DEF Out
  <2>5. \A k \in S : f[k] \in Int
    BY <2>2, <2>4, OrderTypes
  <2>6. SumFunctionOnSet(f, S) \in Int
    BY <2>3, <2>5, SumType
  <2> QED BY <1>1, <2>1, <2>3, <2>5, <2>6
<1>3. ASSUME IsFiniteSet(Committed) PROVE Outside(i) \in Int
  <2>1. PICK g : g = [d \in Committed |-> OutOf(d, i)]
    OBVIOUS
  <2>2. \A d \in Committed : d \in Order
    BY DEF Committed
  <2>3. \A d \in Committed : g[d] \in Int
    BY <1>2, <2>1, <2>2
  <2>4. SumFunctionOnSet(g, Committed) \in Int
    BY <1>3, <2>3, SumType
  <2> QED BY <2>1, <2>4 DEF Outside
<1> QED BY <1>1, <1>2, <1>3

\* Orders nobody writes hold what they held.
LEMMA OutKept ==
  ASSUME NEW d, orders'[d] = orders[d]
  PROVE  \A i : OutOf(d, i)' = OutOf(d, i)
BY DEF OutOf

\* What the lines an order is left with hold outside.
LEMMA OutNow ==
  ASSUME NEW d, NEW w, orders'[d].lines = w, NEW i
  PROVE  OutOf(d, i)' = SumFunctionOnSet([k \in DOMAIN w |-> w[k].qty - w[k].restored],
                                         {k \in DOMAIN w : w[k].item = i})
BY DEF OutOf

\* What a sale has taken is a number.
LEMMA TakenInt ==
  ASSUME CounterInv, NEW p \in Proc, tx[p].op = "sale", tx[p].pc = "commit", NEW i \in Item
  PROVE  Taken(p, i) \in Int
<1>1. PICK c, n, g, S : /\ c = tx[p].cart /\ n = Len(c) /\ g = Quantities(c)
                        /\ S = {k \in Handled(p) : c[k].item = i}
  OBVIOUS
<1>2. c \in Seq(Entry) /\ Handled(p) = DOMAIN c
  BY <1>1, SaleRows DEF CounterInv, TypeOK, TxOK
<1>3. n \in Nat /\ S \subseteq 1..n /\ \A k \in S : k \in DOMAIN c /\ c[k] \in Entry
  BY <1>1, <1>2
<1>4. IsFiniteSet(1..n)
  BY <1>3, FS_Interval
<1>5. IsFiniteSet(S)
  BY <1>3, <1>4, FS_Subset
<1>6. \A k \in S : g[k] \in Int
  BY <1>1, <1>3 DEF Quantities, Entry
<1>7. SumFunctionOnSet(g, S) \in Int
  BY <1>5, <1>6, SumType
<1> QED BY <1>1, <1>7 DEF Taken

\* What a sale takes is outside once it commits.
LEMMA OutSale ==
  ASSUME CounterInv, NEW p \in Proc, tx[p].op = "sale", tx[p].pc = "commit",
         NEW d, d = tx[p].order, orders' = [orders EXCEPT ![d] = OrderAfter(tx[p])], NEW i \in Item
  PROVE  /\ Committed' = Committed \cup {d} /\ d \in Order /\ d \notin Committed
         /\ Outside(i)' = Outside(i) + Taken(p, i)
<1>1. PICK t, w, c : t = tx[p] /\ w = LinesAfter(tx[p]) /\ c = t.cart
  OBVIOUS
<1>2. TypeOK /\ Selling(p) /\ TxOK(t) /\ IsFiniteSet(Committed)
  BY <1>1 DEF CounterInv, SessionSound, TypeOK
<1>3. d \in Order /\ orders[d].status = "NEW"
  BY <1>1, <1>2 DEF Selling
<1>4. orders'[d] = OrderAfter(t) /\ \A b \in Order : b # d => orders'[b] = orders[b]
  BY <1>1, <1>2, <1>3 DEF TypeOK
<1>5. /\ OrderAfter(t).status = "COMPLETED" /\ OrderAfter(t).lines = w /\ DOMAIN w = DOMAIN c
      /\ \A k \in DOMAIN w : w[k].item = c[k].item /\ w[k].qty = c[k].qty
                             /\ w[k].qty \in Nat /\ w[k].restored = 0
  BY <1>1, <1>4, SaleSound
<1>6. Committed' = Committed \cup {d} /\ d \notin Committed
  BY <1>3, <1>4, <1>5 DEF Committed
<1>7. OutOf(d, i)' = Taken(p, i)
  <2>1. PICK f, g, S : /\ f = [k \in DOMAIN w |-> w[k].qty - w[k].restored] /\ g = Quantities(c)
                       /\ S = {k \in DOMAIN w : w[k].item = i}
    OBVIOUS
  <2>2. OutOf(d, i)' = SumFunctionOnSet(f, S)
    <3>1. orders'[d].lines = w
      BY <1>4, <1>5
    <3> QED BY <2>1, <3>1, OutNow
  <2>3. {k \in Handled(p) : c[k].item = i} = S
    <3>1. Handled(p) = DOMAIN w
      BY <1>1, <1>5, SaleRows
    <3> QED BY <1>5, <2>1, <3>1
  <2>4. Taken(p, i) = SumFunctionOnSet(g, S)
    BY <1>1, <2>1, <2>3 DEF Taken
  <2>5. \A k \in S : f[k] = g[k]
    BY <1>5, <2>1 DEF Quantities
  <2>6. IsFiniteSet(S)
    <3>1. c \in Seq(Entry)
      BY <1>1, <1>2 DEF TxOK
    <3>2. PICK n : n = Len(c)
      OBVIOUS
    <3>3. n \in Nat /\ S \subseteq 1..n
      BY <1>5, <2>1, <3>1, <3>2
    <3>4. IsFiniteSet(1..n)
      BY <3>3, FS_Interval
    <3> QED BY <3>3, <3>4, FS_Subset
  <2> QED BY <2>2, <2>4, <2>5, <2>6, SumSame
<1>8. Taken(p, i) \in Int
  BY <1>1, TakenInt
<1>9. PICK f, g, C : /\ f = [b \in Committed |-> OutOf(b, i)] /\ C = Committed
                     /\ g = [b \in C \cup {d} |-> OutOf(b, i)']
  OBVIOUS
<1>10. Outside(i) = SumFunctionOnSet(f, C) /\ Outside(i)' = SumFunctionOnSet(g, C \cup {d})
  BY <1>6, <1>9 DEF Outside
<1>11. \A b \in C : b \in Order /\ b # d /\ f[b] = g[b] /\ g[b] \in Int
  <2>1. ASSUME NEW b \in C PROVE b \in Order /\ b # d /\ f[b] = g[b] /\ g[b] \in Int
    <3>1. b \in Order /\ b # d
      BY <1>6, <1>9 DEF Committed
    <3>2. OutOf(b, i)' = OutOf(b, i)
      BY <1>4, <3>1, OutKept
    <3>3. OutOf(b, i) \in Int
      BY <1>2, <3>1, OutsideTypes
    <3> QED BY <1>9, <3>1, <3>2, <3>3
  <2> QED BY <2>1
<1>12. g[d] = Taken(p, i)
  BY <1>7, <1>9
<1>13. SumFunctionOnSet(f, C) = SumFunctionOnSet(g, C)
  BY <1>2, <1>9, <1>11, SumSame
<1>14. SumFunctionOnSet(g, C \cup {d}) = g[d] + SumFunctionOnSet(g, C)
  BY <1>2, <1>6, <1>8, <1>9, <1>11, <1>12, SumAdd
<1>15. SumFunctionOnSet(g, C) \in Int
  BY <1>2, <1>9, <1>11, SumType
<1> QED BY <1>3, <1>6, <1>8, <1>10, <1>12, <1>13, <1>14, <1>15

\* What a void or a refund brings back is outside no longer.
LEMMA OutReturn ==
  ASSUME CounterInv, NEW p \in Proc, tx[p].op \in OnOrder, tx[p].pc = "commit",
         NEW d, d = tx[p].order, orders' = [orders EXCEPT ![d] = OrderAfter(tx[p])], NEW i \in Item
  PROVE  Committed' = Committed /\ Outside(i)' = Outside(i) - Brought(p, i)
<1>1. PICK t, w, s : t = tx[p] /\ w = LinesAfter(tx[p]) /\ s = LinesOf(p)
  OBVIOUS
<1>2. TypeOK /\ IsFiniteSet(Committed)
  BY DEF CounterInv
<1>3. /\ d \in Order /\ d \in Committed /\ s = orders[d].lines
      /\ DOMAIN t.back \subseteq DOMAIN s /\ Brought(p, i) \in Nat
      /\ \A k \in DOMAIN t.back : t.back[k] \in Nat
  BY <1>1, OrderHeld DEF LinesOf
<1>4. orders'[d] = OrderAfter(t) /\ \A b \in Order : b # d => orders'[b] = orders[b]
  BY <1>1, <1>2, <1>3 DEF TypeOK
<1>5. Committed' = Committed
  <2>1. orders'[d].status # "NEW"
    BY <1>1, <1>4, ReturnSound
  <2> QED BY <1>3, <1>4, <2>1 DEF Committed
<1>6. /\ orders'[d].lines = w /\ DOMAIN w = DOMAIN s
      /\ \A k \in DOMAIN s : /\ w[k].item = s[k].item /\ w[k].qty = s[k].qty
                             /\ w[k].restored = s[k].restored + Restored(t, k) /\ Restored(t, k) \in Nat
  <2>1. OrderAfter(t).lines = w
    BY <1>1 DEF OrderAfter
  <2> QED BY <1>1, <1>4, <2>1, LinesLeft
<1>7. OutOf(d, i) = OutOf(d, i)' + Brought(p, i) /\ OutOf(d, i)' \in Int
  <2>1. PICK f, g, h, S, B : /\ f = Out(d) /\ S = LinesWith(d, i)
                             /\ g = [k \in DOMAIN w |-> w[k].qty - w[k].restored]
                             /\ h = [k \in DOMAIN s |-> Restored(t, k)]
                             /\ B = {k \in DOMAIN t.back : s[k].item = i}
    OBVIOUS
  <2>2. IsFiniteSet(S) /\ S \subseteq DOMAIN s /\ OutOf(d, i) = SumFunctionOnSet(f, S)
    BY <1>2, <1>3, <2>1, OutsideTypes DEF LinesWith
  <2>3. OutOf(d, i)' = SumFunctionOnSet(g, S)
    <3>1. {k \in DOMAIN w : w[k].item = i} = S
      <4>1. S = {k \in DOMAIN s : s[k].item = i}
        BY <1>3, <2>1 DEF LinesWith
      <4>2. DOMAIN w = DOMAIN s /\ \A k \in DOMAIN s : w[k].item = s[k].item
        BY <1>6
      <4> QED BY <4>1, <4>2
    <3>2. orders'[d].lines = w
      BY <1>6
    <3> QED BY <2>1, <3>1, <3>2, OutNow
  <2>4. \A k \in S : g[k] \in Int /\ h[k] \in Int /\ f[k] = g[k] + h[k]
    <3> SUFFICES ASSUME NEW k \in S PROVE g[k] \in Int /\ h[k] \in Int /\ f[k] = g[k] + h[k]
      OBVIOUS
    <3>1. k \in DOMAIN s /\ s[k].qty \in Nat /\ s[k].restored \in Nat
      BY <1>2, <1>3, <2>2, OrderTypes
    <3>2. h[k] = Restored(t, k) /\ g[k] = w[k].qty - w[k].restored /\ f[k] = s[k].qty - s[k].restored
      BY <1>3, <1>6, <2>1, <3>1 DEF Out
    <3> QED BY <1>6, <3>1, <3>2
  <2>5. SumFunctionOnSet(f, S) = SumFunctionOnSet(g, S) + SumFunctionOnSet(h, S)
    BY <2>2, <2>4, SumPlus
  <2>6. B \subseteq S /\ \A k \in S \ B : h[k] = 0
    BY <1>3, <2>1, <2>2 DEF LinesWith, Restored
  <2>7. SumFunctionOnSet(h, S) = SumFunctionOnSet(h, B)
    BY <2>2, <2>4, <2>6, SumSupport
  <2>8. IsFiniteSet(B) /\ \A k \in B : h[k] = t.back[k]
    <3>1. IsFiniteSet(B)
      BY <2>2, <2>6, FS_Subset
    <3> QED BY <1>3, <2>1, <3>1 DEF Restored
  <2>9. SumFunctionOnSet(h, B) = SumFunctionOnSet(t.back, B)
    BY <2>8, SumSame
  <2>10. Brought(p, i) = SumFunctionOnSet(t.back, B)
    BY <1>1, <2>1 DEF Brought
  <2>11. SumFunctionOnSet(g, S) \in Int
    BY <2>2, <2>4, SumType
  <2> QED BY <2>2, <2>3, <2>5, <2>7, <2>9, <2>10, <2>11
<1>8. PICK f, g, C : /\ f = [b \in Committed |-> OutOf(b, i)] /\ C = Committed
                     /\ g = [b \in C |-> OutOf(b, i)']
  OBVIOUS
<1>9. Outside(i) = SumFunctionOnSet(f, C) /\ Outside(i)' = SumFunctionOnSet(g, C)
  BY <1>5, <1>8 DEF Outside
<1>10. \A b \in C : f[b] \in Int /\ g[b] \in Int /\ (b # d => g[b] = f[b])
  <2> SUFFICES ASSUME NEW b \in C PROVE f[b] \in Int /\ g[b] \in Int /\ (b # d => g[b] = f[b])
    OBVIOUS
  <2>1. b \in Order
    BY <1>8 DEF Committed
  <2>2. OutOf(b, i) \in Int
    BY <1>2, <2>1, OutsideTypes
  <2>3. b # d => OutOf(b, i)' = OutOf(b, i)
    BY <1>4, <2>1, OutKept
  <2> QED BY <1>7, <1>8, <2>2, <2>3
<1>11. SumFunctionOnSet(g, C) = SumFunctionOnSet(f, C) - f[d] + g[d]
  BY <1>2, <1>3, <1>8, <1>10, SumChange
<1>12. f[d] = OutOf(d, i) /\ g[d] = OutOf(d, i)'
  BY <1>3, <1>8
<1>13. SumFunctionOnSet(f, C) \in Int
  BY <1>2, <1>8, <1>10, SumType
<1> QED BY <1>3, <1>5, <1>7, <1>9, <1>11, <1>12, <1>13

-----------------------------------------------------------------------------
(* The commit keeps the invariant.                                          *)

\* What a commit writes.
LEMMA Written ==
  ASSUME CounterInv, NEW p \in Proc, Commit(p), NEW d, d = tx[p].order
  PROVE  /\ tx[p].pc = "commit" /\ tx[p].op \in {"sale", "move"} \cup OnOrder \cup OnFlag
         /\ tx'[p] = IdleTx /\ (\A q \in Proc : q # p => tx'[q] = tx[q]) /\ Shaped'
         /\ \A i \in Item : item'[i] = RowOf(p, i)
         /\ \A i \in Item : itemLock[i] \notin {NONE, p} => itemLock'[i] = itemLock[i]
         /\ \A b \in Order : orderLock[b] \notin {NONE, p} => orderLock'[b] = orderLock[b]
         /\ tx[p].op \in OrderOps => /\ d \in Order /\ orders' = [orders EXCEPT ![d] = OrderAfter(tx[p])]
                                     /\ orders'[d] = OrderAfter(tx[p])
         /\ tx[p].op \notin OrderOps => orders' = orders
         /\ \A b \in Order : b # d => orders'[b] = orders[b]
<1>1. PICK t : t = tx[p]
  OBVIOUS
<1>2. /\ TypeOK /\ Shaped /\ SessionSound(p) /\ TxOK(t)
  BY <1>1 DEF CounterInv, TypeOK
<1>3. /\ t.pc = "commit" /\ item' = [i \in Item |-> RowOf(p, i)]
      /\ orders' = IF t.op \in OrderOps THEN [orders EXCEPT ![t.order] = OrderAfter(t)] ELSE orders
      /\ tx' = [tx EXCEPT ![p] = IdleTx] /\ ReleaseAll(p)
  BY <1>1 DEF Commit
<1>4. IsSession(IdleTx)
  BY DEF IsSession, IdleTx
<1>5. Shaped' /\ tx'[p] = IdleTx /\ \A q \in Proc : q # p => tx'[q] = tx[q]
  BY <1>2, <1>3, <1>4, Given
<1>6. t.op \in {"sale", "move"} \cup OnOrder \cup OnFlag
  BY <1>1, <1>2, <1>3 DEF SessionSound, Course, TxOK, Ops, OrderOps, OnOrder, OnFlag
<1>7. t.op \in OrderOps => d \in Order
  BY <1>1, <1>2 DEF SessionSound, Selling, Holds, OrderOps, OnOrder, Committed
<1>8. /\ t.op \in OrderOps => orders' = [orders EXCEPT ![d] = OrderAfter(t)] /\ orders'[d] = OrderAfter(t)
      /\ t.op \notin OrderOps => orders' = orders
      /\ \A b \in Order : b # d => orders'[b] = orders[b]
  BY <1>1, <1>2, <1>3, <1>7 DEF TypeOK
<1>9. /\ \A i \in Item : itemLock[i] \notin {NONE, p} => itemLock'[i] = itemLock[i]
      /\ \A b \in Order : orderLock[b] \notin {NONE, p} => orderLock'[b] = orderLock[b]
  BY <1>2, <1>3, Release
<1>10. \A i \in Item : item'[i] = RowOf(p, i)
  BY <1>3
<1> QED BY <1>1, <1>3, <1>5, <1>6, <1>7, <1>8, <1>9, <1>10

\* A commit writes no row and no order another handler has locked, and no order
\* another handler is about to create.
LEMMA CommitSpares ==
  ASSUME CounterInv, NEW p \in Proc, Commit(p), NEW q \in Proc, q # p
  PROVE  Spared(p, q)
<1>1. PICK t, d, x : t = tx[p] /\ d = t.order /\ x = tx[q]
  OBVIOUS
<1>2. /\ TypeOK /\ SessionSound(p) /\ SessionSound(q) /\ TxOK(t) /\ TxOK(x)
      /\ p # NONE /\ q # NONE
  BY <1>1, NoneAssumption DEF CounterInv, TypeOK
<1>3. /\ t.pc = "commit" /\ t.op \in {"sale", "move"} \cup OnOrder \cup OnFlag
      /\ tx'[p] = IdleTx /\ (\A r \in Proc : r # p => tx'[r] = tx[r])
      /\ (\A i \in Item : item'[i] = RowOf(p, i))
      /\ (\A i \in Item : itemLock[i] \notin {NONE, p} => itemLock'[i] = itemLock[i])
      /\ (\A b \in Order : orderLock[b] \notin {NONE, p} => orderLock'[b] = orderLock[b])
      /\ (t.op \in OrderOps => d \in Order /\ orders'[d] = OrderAfter(t))
      /\ (t.op \notin OrderOps => orders' = orders)
      /\ \A b \in Order : b # d => orders'[b] = orders[b]
  BY <1>1, Written
<1>4. \A i \in DOMAIN x.rows : itemLock'[i] = q /\ item'[i] = item[i]
  <2> SUFFICES ASSUME NEW i \in DOMAIN x.rows PROVE itemLock'[i] = q /\ item'[i] = item[i]
    OBVIOUS
  <2>1. i \in Item /\ itemLock[i] = q
    BY <1>1, <1>2 DEF TxOK, SessionSound, Holds
  <2>2. i \notin DOMAIN t.rows
    BY <1>1, <1>2, <2>1 DEF SessionSound, Holds
  <2> QED BY <1>1, <1>2, <1>3, <2>1, <2>2 DEF RowOf
<1>5. ASSUME x.op \in OnOrder
      PROVE  /\ x.order \in Committed'
             /\ DOMAIN LinesOf(q)' = DOMAIN LinesOf(q)
             /\ \A k \in DOMAIN LinesOf(q) : LinesOf(q)[k].item' = LinesOf(q)[k].item
             /\ x.pc # "order" => orderLock'[x.order] = q /\ orders'[x.order] = orders[x.order]
  <2>1. PICK c : c = x.order
    OBVIOUS
  <2>2. c \in Committed /\ c \in Order /\ orders[c].status # "NEW"
        /\ (x.pc # "order" => orderLock[c] = q)
    BY <1>1, <1>2, <1>5, <2>1 DEF SessionSound, Holds, Committed
  <2>3. LinesOf(q) = orders[c].lines /\ LinesOf(q)' = orders'[c].lines
    BY <1>1, <1>3, <2>1 DEF LinesOf
  <2>4. CASE orders'[c] = orders[c]
    BY <1>2, <1>3, <2>1, <2>2, <2>3, <2>4 DEF Committed
  <2>5. CASE orders'[c] # orders[c]
    <3>1. c = d /\ t.op \in OrderOps
      BY <1>3, <2>2, <2>5
    <3>2. t.op # "sale"
      BY <1>1, <1>2, <2>2, <3>1 DEF SessionSound, Selling
    <3>3. t.op \in OnOrder
      BY <3>1, <3>2 DEF OrderOps, OnOrder
    <3>4. orderLock[c] = p /\ LinesOf(p) = orders[c].lines
      BY <1>1, <1>2, <1>3, <3>1, <3>3 DEF SessionSound, Holds, LinesOf
    <3>5. x.pc = "order"
      BY <1>1, <2>2, <3>4
    <3>6. orders'[c].status # "NEW"
      BY <1>1, <1>3, <3>1, <3>3, ReturnSound
    <3>7. orders'[c].lines = LinesAfter(t)
      BY <1>3, <3>1 DEF OrderAfter
    <3>8. /\ DOMAIN orders'[c].lines = DOMAIN orders[c].lines
          /\ \A k \in DOMAIN orders[c].lines : orders'[c].lines[k].item = orders[c].lines[k].item
      BY <1>1, <1>3, <3>3, <3>4, <3>7, LinesLeft
    <3> QED BY <2>1, <2>2, <2>3, <3>5, <3>6, <3>8 DEF Committed
  <2> QED BY <2>4, <2>5
<1>6. ASSUME x.op = "sale"
      PROVE  /\ orders'[x.order] = orders[x.order]
             /\ \A r \in Proc : r # q => tx'[r].order # x.order
  <2>1. x.order \in Order /\ d # x.order /\ \A r \in Proc : r # q => tx[r].order # x.order
    BY <1>1, <1>2, <1>6 DEF SessionSound, Selling
  <2>2. IdleTx.order = NONE
    BY DEF IdleTx
  <2> QED BY <1>3, <2>1, <2>2, NoneAssumption
<1> QED BY <1>1, <1>3, <1>4, <1>5, <1>6 DEF Spared

\* Stock stays accounted for.
LEMMA CommitConserves ==
  ASSUME CounterInv, NEW p \in Proc, Commit(p)
  PROVE  StockConserved' /\ IsFiniteSet(Committed)'
<1>1. PICK t, d : t = tx[p] /\ d = t.order
  OBVIOUS
<1>2. TypeOK /\ StockConserved /\ IsFiniteSet(Committed)
  BY DEF CounterInv
<1>3. /\ t.pc = "commit" /\ t.op \in {"sale", "move"} \cup OnOrder \cup OnFlag
      /\ (\A i \in Item : item'[i] = RowOf(p, i))
      /\ (t.op \in OrderOps => orders' = [orders EXCEPT ![d] = OrderAfter(t)])
      /\ (t.op \notin OrderOps => orders' = orders)
  BY <1>1, Written
<1>4. \A i \in Item :
        net'[i] = IF t.op \in OrderOps THEN net[i] ELSE net[i] + RowOf(p, i).qty - item[i].qty
  BY <1>1 DEF Commit
<1>5. ASSUME NEW i \in Item
      PROVE  /\ item[i].qty \in Int /\ net[i] \in Int /\ Outside(i) \in Int /\ RowOf(p, i).qty \in Int
             /\ item[i].qty = InitQty + net[i] - Outside(i) /\ InitQty \in Int
  <2>1. item[i] \in StockRow /\ RowOf(p, i) \in StockRow
    BY <1>1, <1>2, <1>3, RowsKept DEF TypeOK
  <2>2. Outside(i) \in Int
    BY <1>2, OutsideTypes
  <2> QED BY <1>2, <2>1, <2>2, BoundAssumption DEF TypeOK, StockRow, StockConserved
<1>9. IsFiniteSet(Committed)'
  <2>1. \A b \in Order : b # d => orders'[b] = orders[b]
    BY <1>1, Written
  <2>2. Committed' \subseteq Committed \cup {d}
    BY <2>1 DEF Committed
  <2>3. IsFiniteSet(Committed \cup {d})
    BY <1>2, FS_AddElement
  <2> QED BY <2>2, <2>3, FS_Subset
<1>6. CASE t.op = "sale"
  <2>1. \A i \in Item : Outside(i)' = Outside(i) + Taken(p, i) /\ RowOf(p, i).qty = item[i].qty - Taken(p, i)
    BY <1>1, <1>3, <1>6, OutSale, SaleRows DEF OrderOps
  <2>3. ASSUME NEW i \in Item PROVE (item[i].qty = InitQty + net[i] - Outside(i))'
    <3>1. item'[i] = RowOf(p, i) /\ net'[i] = net[i]
      BY <1>3, <1>4, <1>6 DEF OrderOps
    <3>2. PICK a, b, c, n, m, r : /\ a = item[i].qty /\ b = Taken(p, i) /\ c = Outside(i) /\ n = net[i]
                                  /\ m = InitQty /\ r = RowOf(p, i).qty
      OBVIOUS
    <3>3. a \in Int /\ c \in Int /\ n \in Int /\ m \in Int /\ r \in Int /\ a = m + n - c /\ r = a - b
      BY <1>5, <2>1, <3>2
    <3>4. b \in Int
      BY <1>1, <1>3, <1>6, <3>2, TakenInt
    <3>5. r = m + n - (c + b)
      BY <3>3, <3>4
    <3> QED BY <2>1, <3>1, <3>2, <3>5
  <2> QED BY <1>9, <2>3 DEF StockConserved
<1>7. CASE t.op \in OnOrder
  <2>1. \A i \in Item : /\ Committed' = Committed /\ Outside(i)' = Outside(i) - Brought(p, i)
                        /\ RowOf(p, i).qty = item[i].qty + Brought(p, i) /\ Brought(p, i) \in Nat
    BY <1>1, <1>3, <1>7, OutReturn, ReturnRows, OrderHeld DEF OrderOps, OnOrder
  <2>3. ASSUME NEW i \in Item PROVE (item[i].qty = InitQty + net[i] - Outside(i))'
    <3>1. item'[i] = RowOf(p, i) /\ net'[i] = net[i]
      BY <1>3, <1>4, <1>7 DEF OrderOps, OnOrder
    <3> QED BY <1>5, <2>1, <3>1
  <2> QED BY <1>9, <2>3 DEF StockConserved
<1>8. CASE t.op \in {"move"} \cup OnFlag
  <2>1. orders' = orders /\ t.op \notin OrderOps
    BY <1>3, <1>8 DEF OrderOps, OnFlag
  <2>2. Committed' = Committed /\ \A i : Outside(i)' = Outside(i)
    BY <2>1 DEF Committed, Outside, OutOf
  <2>3. ASSUME NEW i \in Item PROVE (item[i].qty = InitQty + net[i] - Outside(i))'
    <3>1. item'[i] = RowOf(p, i) /\ net'[i] = net[i] + RowOf(p, i).qty - item[i].qty
      BY <1>3, <1>4, <2>1
    <3> QED BY <1>5, <2>2, <3>1
  <2> QED BY <1>9, <2>3 DEF StockConserved
<1> QED BY <1>3, <1>6, <1>7, <1>8

\* The types, the order written and its number.
LEMMA CommitKeeps ==
  ASSUME CounterInv, NEW p \in Proc, Commit(p)
  PROVE  /\ TypeOK' /\ CoinsPlain' /\ NumbersUnique'
         /\ \A b \in Committed' : OrderSound(b)'
         /\ \A n : NumberTaken(n)' => NumberTaken(n) \/ (tx[p].op = "sale" /\ n = tx[p].number)
<1>1. PICK t, d : t = tx[p] /\ d = t.order
  OBVIOUS
<1>2. /\ TypeOK /\ CoinsPlain /\ NumbersUnique /\ SessionSound(p) /\ Numbered(p)
      /\ \A b \in Committed : OrderSound(b)
  BY DEF CounterInv
<1>3. /\ t.pc = "commit" /\ t.op \in {"sale", "move"} \cup OnOrder \cup OnFlag
      /\ tx'[p] = IdleTx /\ (\A r \in Proc : r # p => tx'[r] = tx[r])
      /\ (\A i \in Item : item'[i] = RowOf(p, i))
      /\ (t.op \in OrderOps => d \in Order /\ orders' = [orders EXCEPT ![d] = OrderAfter(t)]
                               /\ orders'[d] = OrderAfter(t))
      /\ (t.op \notin OrderOps => orders' = orders)
      /\ \A b \in Order : b # d => orders'[b] = orders[b]
  BY <1>1, Written
<1>4. \A i \in Item : RowOf(p, i) \in StockRow /\ RowOf(p, i).qty >= 0
                      /\ (i \notin Product => RowOf(p, i).status = "AVAILABLE")
  BY <1>1, <1>3, RowsKept
<1>5. t.op = "sale" =>
        /\ OrderAfter(t) \in OrderRow /\ OrderSound(d)' /\ OrderAfter(t).status = "COMPLETED"
        /\ OrderAfter(t).number = t.number /\ ~NumberTaken(t.number) /\ orders[d].status = "NEW"
  BY <1>1, <1>2, <1>3, SaleSound DEF OrderOps, Numbered, SessionSound, Selling
<1>6. t.op \in OnOrder =>
        /\ OrderAfter(t) \in OrderRow /\ OrderSound(d)' /\ OrderAfter(t).status # "NEW"
        /\ OrderAfter(t).number = orders[d].number /\ d \in Committed
  BY <1>1, <1>2, <1>3, ReturnSound, OrderHeld DEF OrderOps, OnOrder
<1>7. orders' \in [Order -> OrderRow]
  <2>1. CASE t.op \in OrderOps
    <3>1. OrderAfter(t) \in OrderRow
      BY <1>5, <1>6, <2>1 DEF OrderOps, OnOrder
    <3> QED BY <1>2, <1>3, <2>1, <3>1 DEF TypeOK
  <2>2. CASE t.op \notin OrderOps
    BY <1>2, <1>3, <2>2 DEF TypeOK
  <2> QED BY <2>1, <2>2
<1>8. item' \in [Item -> StockRow] /\ \A i \in Item : item'[i].qty >= 0
  <2>1. item' = [i \in Item |-> RowOf(p, i)]
    BY <1>1 DEF Commit
  <2> QED BY <1>4, <2>1
<1>9. net' \in [Item -> Int]
  <2>1. net' = [i \in Item |-> IF t.op \in OrderOps THEN net[i]
                               ELSE net[i] + RowOf(p, i).qty - item[i].qty]
    BY <1>1 DEF Commit
  <2>2. \A i \in Item : net[i] \in Int /\ RowOf(p, i).qty \in Int /\ item[i].qty \in Int
    BY <1>2, <1>4 DEF TypeOK, StockRow
  <2> QED BY <2>1, <2>2
<1>10. TypeOK'
  <2>1. itemLock' \in [Item -> Proc \cup {NONE}] /\ orderLock' \in [Order -> Proc \cup {NONE}]
        /\ auditLock' \in Proc \cup {NONE}
    BY <1>2, Release DEF Commit
  <2>2. ASSUME NEW q \in Proc PROVE TxOK(tx[q])'
    <3>1. CASE q = p
      BY <1>3, <3>1, IdleSound
    <3>2. CASE q # p
      BY <1>2, <1>3, <3>2 DEF TypeOK, TxOK
    <3> QED BY <3>1, <3>2
  <2> QED BY <1>7, <1>8, <1>9, <2>1, <2>2 DEF TypeOK
<1>11. CoinsPlain'
  BY <1>3, <1>4 DEF CoinsPlain
<1>12. ASSUME NEW b \in Committed' PROVE OrderSound(b)'
  <2>0. b \in Order
    BY DEF Committed
  <2>1. CASE b = d /\ t.op \in OrderOps
    BY <1>5, <1>6, <2>1 DEF OrderOps, OnOrder
  <2>2. CASE ~(b = d /\ t.op \in OrderOps)
    <3>1. orders'[b] = orders[b]
      BY <1>3, <2>0, <2>2
    <3>2. b \in Committed
      BY <2>0, <3>1 DEF Committed
    <3> QED BY <1>2, <3>1, <3>2 DEF OrderSound, LineSound
  <2> QED BY <2>1, <2>2
<1>13. ASSUME NEW b \in Committed', ~(b = d /\ t.op = "sale")
       PROVE  b \in Committed /\ orders'[b].number = orders[b].number
  <2>0. b \in Order
    BY DEF Committed
  <2>1. CASE b = d /\ t.op \in OnOrder
    BY <1>3, <1>6, <2>1 DEF OrderOps, OnOrder
  <2>2. CASE ~(b = d /\ t.op \in OnOrder)
    <3>1. orders'[b] = orders[b]
      BY <1>3, <1>13, <2>0, <2>2 DEF OrderOps, OnOrder
    <3> QED BY <2>0, <3>1 DEF Committed
  <2> QED BY <2>1, <2>2
<1>14. ASSUME NEW n, NumberTaken(n)'
       PROVE  NumberTaken(n) \/ (t.op = "sale" /\ n = t.number)
  <2>1. PICK b \in Committed' : orders'[b].number = n
    BY <1>14 DEF NumberTaken
  <2>2. CASE b = d /\ t.op = "sale"
    BY <1>3, <1>5, <2>1, <2>2 DEF OrderOps
  <2>3. CASE ~(b = d /\ t.op = "sale")
    BY <1>13, <2>1, <2>3 DEF NumberTaken
  <2> QED BY <2>2, <2>3
<1>15. NumbersUnique'
  <2> SUFFICES ASSUME NEW b \in Committed', NEW c \in Committed', orders'[b].number = orders'[c].number
               PROVE  b = c
    BY DEF NumbersUnique
  <2>1. t.op = "sale" => orders'[d].number = t.number
    BY <1>3, <1>5 DEF OrderOps
  <2>2. \A a \in Committed : t.op = "sale" => orders[a].number # t.number
    BY <1>5 DEF NumberTaken
  <2>3. CASE b = d /\ t.op = "sale"
    BY <1>13, <2>1, <2>2, <2>3
  <2>4. CASE c = d /\ t.op = "sale"
    BY <1>13, <2>1, <2>2, <2>4
  <2>5. CASE ~(b = d /\ t.op = "sale") /\ ~(c = d /\ t.op = "sale")
    BY <1>2, <1>13, <2>5 DEF NumbersUnique
  <2> QED BY <2>3, <2>4, <2>5
<1> QED BY <1>1, <1>10, <1>11, <1>12, <1>14, <1>15

\* Committing keeps the invariant.
LEMMA CommitCounter == ASSUME CounterInv, NEW p \in Proc, Commit(p) PROVE CounterInv'
<1>1. tx'[p] = IdleTx /\ (\A q \in Proc : q # p => tx'[q] = tx[q]) /\ Shaped' /\ tx[p].pc = "commit"
  BY Written
<1>2. \A q \in Proc : SessionSound(q) /\ Numbered(q) /\ TxOK(tx[q])
  BY DEF CounterInv, TypeOK
<1>3. ASSUME NEW q \in Proc PROVE SessionSound(q)'
  <2>1. CASE q = p
    BY <1>1, <2>1, IdleSound
  <2>2. CASE q # p
    BY <1>2, <2>2, CommitSpares, OthersSound
  <2> QED BY <2>1, <2>2
<1>4. ASSUME NEW q \in Proc PROVE Numbered(q)'
  <2> SUFFICES ASSUME tx'[q].op = "sale", tx'[q].pc \in {"event", "commit"}
               PROVE  ~NumberTaken(tx[q].number)' /\ SameNumber(q)' = {}
    BY DEF Numbered
  <2>1. q # p /\ tx'[q] = tx[q]
    BY <1>1 DEF IdleTx
  <2>2. ~NumberTaken(tx[q].number) /\ SameNumber(q) = {}
    BY <1>2, <2>1 DEF Numbered
  <2>3. ~(tx[p].op = "sale" /\ tx[p].number = tx[q].number)
    BY <1>1, <2>1, <2>2 DEF SameNumber
  <2>4. PICK n : n = tx[q].number
    OBVIOUS
  <2>5. ~NumberTaken(n)'
    BY <2>2, <2>3, <2>4, CommitKeeps
  <2>6. ~NumberTaken(tx[q].number)'
    BY <2>1, <2>4, <2>5 DEF NumberTaken
  <2>7. ASSUME NEW r \in Proc PROVE r \notin SameNumber(q)'
    <3>1. CASE r = p
      BY <1>1, <3>1 DEF SameNumber, IdleTx
    <3>2. CASE r # p
      BY <1>1, <2>1, <2>2, <3>2 DEF SameNumber
    <3> QED BY <3>1, <3>2
  <2>8. SameNumber(q)' = {}
    BY <2>7 DEF SameNumber
  <2> QED BY <2>6, <2>8
<1> QED BY <1>1, <1>3, <1>4, CommitKeeps, CommitConserves DEF CounterInv

-----------------------------------------------------------------------------
(* The invariant holds always.                                              *)

\* It holds of a shop with its first stock and no order.
LEMMA InitCounter == Init => CounterInv
<1> SUFFICES ASSUME Init PROVE CounterInv
  OBVIOUS
<1>1. /\ item = [i \in Item |-> [qty |-> InitQty, status |-> "AVAILABLE"]]
      /\ orders = [d \in Order |-> [status |-> "NEW", number |-> 0, lines |-> <<>>]]
      /\ net = [i \in Item |-> 0] /\ itemLock = [i \in Item |-> NONE]
      /\ orderLock = [d \in Order |-> NONE] /\ auditLock = NONE
      /\ tx = [p \in Proc |-> IdleTx]
  BY DEF Init
<1>2. /\ IdleTx.pc = "idle" /\ IdleTx.op = "none" /\ IdleTx.order = NONE /\ IdleTx.number = 0
      /\ IdleTx.todo = <<>> /\ IdleTx.cart = <<>> /\ IdleTx.rows = <<>> /\ IdleTx.back = <<>>
  BY DEF IdleTx
<1>3. \A p \in Proc : tx[p] = IdleTx
  BY <1>1
<1>4. Shaped
  BY <1>1, <1>3 DEF Shaped, IsSession, IdleTx
<1>5. TxOK(IdleTx)
  BY <1>2 DEF TxOK, Ops
<1>6. TypeOK
  <2>1. [qty |-> InitQty, status |-> "AVAILABLE"] \in StockRow /\ InitQty >= 0
    BY BoundAssumption DEF StockRow
  <2>2. [status |-> "NEW", number |-> 0, lines |-> <<>>] \in OrderRow
    BY DEF OrderRow
  <2>3. item \in [Item -> StockRow] /\ \A i \in Item : item[i].qty >= 0
    BY <1>1, <2>1
  <2>4. orders \in [Order -> OrderRow]
    BY <1>1, <2>2
  <2> QED BY <1>1, <1>3, <1>5, <2>3, <2>4 DEF TypeOK
<1>7. \A p \in Proc : SessionSound(p) /\ Numbered(p)
  BY <1>2, <1>3 DEF SessionSound, Course, Holds, Selling, Returning, Moving, Flagging, Numbered, OnOrder, OnFlag
<1>8. Committed = {} /\ IsFiniteSet(Committed)
  BY <1>1, FS_EmptySet DEF Committed
<1>9. CoinsPlain
  BY <1>1 DEF CoinsPlain
<1>10. StockConserved
  <2>1. \A i \in Item : Outside(i) = 0
    BY <1>8, NoSum DEF Outside
  <2> QED BY <1>1, <2>1, BoundAssumption DEF StockConserved
<1> QED BY <1>4, <1>6, <1>7, <1>8, <1>9, <1>10 DEF CounterInv, NumbersUnique

\* Every step keeps it.
LEMMA NextCounter == CounterInv /\ [Next]_vars => CounterInv'
<1>1. ASSUME CounterInv, UNCHANGED vars PROVE CounterInv'
  <2>1. tx' = tx /\ item' = item /\ orders' = orders /\ net' = net /\ itemLock' = itemLock
        /\ orderLock' = orderLock /\ auditLock' = auditLock /\ Committed' = Committed
    BY <1>1 DEF vars, Committed
  <2>2. ASSUME NEW q \in Proc PROVE SessionSound(q)' /\ Numbered(q)'
    <3>1. SessionSound(q) /\ Numbered(q) /\ TxOK(tx[q])
      BY <1>1 DEF CounterInv, TypeOK
    <3>2. Spared(q, q)
      BY <2>1, <3>1 DEF Spared, SessionSound, Holds, Selling, LinesOf
    <3>3. SessionSound(q)'
      BY <3>1, <3>2, OthersSound
    <3>4. Numbered(q)'
      BY <2>1, <3>1 DEF Numbered, NumberTaken, SameNumber
    <3> QED BY <3>3, <3>4
  <2>3. TypeOK' /\ Shaped'
    BY <1>1, <2>1 DEF CounterInv, TypeOK, TxOK, Shaped, IsSession
  <2>4. (\A d \in Committed' : OrderSound(d)') /\ CoinsPlain' /\ NumbersUnique'
    BY <1>1, <2>1 DEF CounterInv, OrderSound, LineSound, CoinsPlain, NumbersUnique
  <2>5. StockConserved' /\ IsFiniteSet(Committed)'
    <3>1. StockConserved /\ IsFiniteSet(Committed)
      BY <1>1 DEF CounterInv
    <3>2. \A d, i : OutOf(d, i)' = OutOf(d, i)
      BY <2>1 DEF OutOf
    <3>3. \A i : Outside(i)' = Outside(i)
      BY <2>1, <3>2 DEF Outside
    <3> QED BY <2>1, <3>1, <3>3 DEF StockConserved
  <2> QED BY <2>2, <2>3, <2>4, <2>5 DEF CounterInv
<1>2. ASSUME CounterInv, NEW p \in Proc, Step(p) PROVE CounterInv'
  BY <1>2, LockCounter, TakeCounter, LotCounter, InsertCounter, EventCounter, CommitCounter DEF Step
<1>3. ASSUME CounterInv, NEW p \in Proc, Abort(p) \/ DeadlockAbort(p) PROVE CounterInv'
  BY <1>3, RefuseCounter DEF Abort, DeadlockAbort
<1> QED BY <1>1, <1>2, <1>3, RequestCounter DEF Next, ShopIdle

\* It holds in every reachable state.
LEMMA CounterHolds == Spec => []CounterInv
BY InitCounter, NextCounter, PTL DEF Spec

\* Two checkouts that counted the same orders never both get the number
\* (generate_order_number and the unique order_number).
THEOREM OrdersNumbered == Spec => []NumbersUnique
<1>1. CounterInv => NumbersUnique
  BY DEF CounterInv
<1> QED BY <1>1, CounterHolds, PTL

\* No unit of stock is lost, sold twice or put back twice, whatever checkouts, voids,
\* refunds, purchases and adjustments interleave (the row locks of create_order,
\* void_order and refund_order_item).
THEOREM StockKept == Spec => []StockAccounted
<1>1. CounterInv => RestoredOnce
  <2> SUFFICES ASSUME CounterInv, NEW d \in Committed, NEW k \in DOMAIN orders[d].lines
               PROVE  LET l == orders[d].lines[k] IN
                      /\ l.refunded <= l.qty /\ l.restored <= l.qty
                      /\ orders[d].status = "VOIDED" => l.refunded = 0
                      /\ l.item \notin Product =>
                           l.restored = IF orders[d].status = "VOIDED" THEN l.qty ELSE l.refunded
    BY DEF RestoredOnce
  <2>1. LineSound(d, k) /\ d \in Order /\ TypeOK
    BY DEF CounterInv, OrderSound, Committed
  <2>2. PICK l : l = orders[d].lines[k]
    OBVIOUS
  <2>3. l.qty \in Nat /\ l.refunded \in Nat /\ l.restored \in Nat
    BY <2>1, <2>2, OrderTypes
  <2> QED BY <2>1, <2>2, <2>3 DEF LineSound
<1>2. CounterInv => StockAccounted
  BY <1>1 DEF CounterInv, StockAccounted
<1> QED BY <1>2, CounterHolds, PTL

-----------------------------------------------------------------------------
(* What is gone stays gone.                                                 *)

\* Only a commit changes a table.
LEMMA OnlyCommits ==
  ASSUME [Next]_vars
  PROVE  UNCHANGED tables \/ \E p \in Proc : Commit(p)
<1>1. ASSUME NEW p \in Proc, Request(p) PROVE UNCHANGED tables
  BY <1>1 DEF Request, BeginSale, BeginOnOrder, BeginItemRefund, BeginBuyback, BeginPurchase, BeginAdjust,
     BeginEdit, BeginFlag, Begin
<1>2. ASSUME NEW p \in Proc, Step(p), ~Commit(p) PROVE UNCHANGED tables
  BY <1>2 DEF Step, LockOrder, TakeItem, TakeLot, InsertOrder, RecordEvent, Refuse
<1>3. ASSUME NEW p \in Proc, Abort(p) \/ DeadlockAbort(p) PROVE UNCHANGED tables
  BY <1>3 DEF Abort, DeadlockAbort, Refuse
<1> QED BY <1>1, <1>2, <1>3 DEF Next, ShopIdle, vars, tables

\* A commit leaves a melted product as it is, unless the product form wrote its stock.
LEMMA CommitMelted ==
  ASSUME CounterInv, NEW p \in Proc, Commit(p), NEW i \in Item, item[i].status = "MELTED"
  PROVE  item'[i].status = "MELTED" /\ (EditsStock \/ item'[i] = item[i])
<1>1. PICK t : t = tx[p]
  OBVIOUS
<1>2. /\ t.pc = "commit" /\ t.op \in {"sale", "move"} \cup OnOrder \cup OnFlag /\ item'[i] = RowOf(p, i)
  BY <1>1, Written
<1>3. SessionSound(p) /\ CoinsPlain
  BY DEF CounterInv
<1>4. CASE i \notin DOMAIN t.rows
  BY <1>1, <1>2, <1>4 DEF RowOf
<1>5. CASE i \in DOMAIN t.rows
  <2>0. item'[i] = t.rows[i] /\ item[i].status \in Withdrawn
    BY <1>1, <1>2, <1>5 DEF RowOf, Withdrawn
  <2>1. t.op # "sale"
    BY <1>1, <1>3, <1>5, <2>0 DEF SessionSound, Selling
  <2>2. t.op # "refund"
    BY <1>1, <1>3, <1>5 DEF SessionSound, Course
  <2>3. CASE t.op \in {"void", "itemRefund"}
    BY <1>1, <1>2, <1>3, <1>5, <2>0, <2>3 DEF SessionSound, Returning
  <2>4. CASE t.op = "move"
    BY <1>1, <1>3, <1>5, <2>4 DEF SessionSound, Moving, CoinsPlain
  <2>5. CASE t.op \in OnFlag
    <3>1. /\ t.op = "edit" => EditsStock /\ t.rows[i].status = item[i].status
          /\ t.op \notin {"remove", "restore", "melt"}
      BY <1>1, <1>3, <1>5, <2>5 DEF SessionSound, Flagging
    <3> QED BY <2>0, <2>5, <3>1 DEF OnFlag
  <2> QED BY <1>2, <2>1, <2>2, <2>3, <2>4, <2>5 DEF OnOrder
<1> QED BY <1>4, <1>5

\* A commit moves orders forward only.
LEMMA CommitForward ==
  ASSUME CounterInv, NEW p \in Proc, Commit(p), NEW d \in Committed
  PROVE  /\ orders[d].status \in {"VOIDED", "REFUNDED"} => orders'[d] = orders[d]
         /\ orders[d].status = "PARTIALLY_REFUNDED" =>
              orders'[d].status \in {"PARTIALLY_REFUNDED", "REFUNDED"}
         /\ \A k \in DOMAIN orders[d].lines :
              orders'[d].lines[k].refunded >= orders[d].lines[k].refunded
<1>1. PICK t : t = tx[p]
  OBVIOUS
<1>2. TypeOK /\ SessionSound(p) /\ d \in Order /\ orders[d].status # "NEW"
  BY DEF CounterInv, Committed
<1>3. \A k \in DOMAIN orders[d].lines : orders[d].lines[k].refunded \in Nat
  BY <1>2, OrderTypes
<1>4. t.pc = "commit" /\ t.op \in {"sale", "move"} \cup OnOrder \cup OnFlag
  BY <1>1, Written
<1>5. CASE orders'[d] = orders[d]
  BY <1>3, <1>5
<1>6. CASE orders'[d] # orders[d]
  <2>1. d = t.order /\ t.op \in OrderOps /\ orders'[d] = OrderAfter(t)
    BY <1>1, <1>2, <1>6, Written
  <2>2. t.op # "sale"
    BY <1>1, <1>2, <2>1 DEF SessionSound, Selling
  <2>3. t.op \in OnOrder
    BY <2>1, <2>2 DEF OrderOps, OnOrder
  <2>4. /\ t.op # "itemRefund" => orders[d].status = "COMPLETED"
        /\ t.op = "itemRefund" => orders[d].status \in {"COMPLETED", "PARTIALLY_REFUNDED"}
    BY <1>1, <1>2, <1>4, <2>1, <2>3 DEF SessionSound, Holds
  <2>5. t.op = "itemRefund" => orders'[d].status \in {"PARTIALLY_REFUNDED", "REFUNDED"}
    BY <2>1 DEF OrderAfter, StatusAfter
  <2>6. orders'[d].lines = LinesAfter(t) /\ LinesOf(p) = orders[d].lines
    BY <1>1, <2>1 DEF OrderAfter, LinesOf
  <2>7. \A k \in DOMAIN orders[d].lines :
          /\ orders'[d].lines[k].refunded = orders[d].lines[k].refunded + RefundedBy(t, k)
          /\ RefundedBy(t, k) \in Nat
    BY <1>1, <1>4, <2>3, <2>6, LinesLeft
  <2> QED BY <1>3, <2>4, <2>5, <2>7
<1> QED BY <1>5, <1>6

\* A melted product never returns to the shelf and its stock never moves again, and no
\* order comes back from a void or a full refund (create_melt, void_order,
\* refund_order_item), whatever handler was waiting for the row.
THEOREM GoneForGood == Spec => GoneStaysGone
<1>1. ASSUME CounterInv, [Next]_vars
      PROVE  \A i \in Item : item[i].status = "MELTED" =>
               item'[i].status = "MELTED" /\ (EditsStock \/ item'[i] = item[i])
  BY <1>1, OnlyCommits, CommitMelted DEF tables
<1>2. ASSUME CounterInv, [Next]_vars
      PROVE  \A d \in Committed :
               /\ orders[d].status \in {"VOIDED", "REFUNDED"} => orders'[d] = orders[d]
               /\ orders[d].status = "PARTIALLY_REFUNDED" =>
                    orders'[d].status \in {"PARTIALLY_REFUNDED", "REFUNDED"}
               /\ \A k \in DOMAIN orders[d].lines :
                    orders'[d].lines[k].refunded >= orders[d].lines[k].refunded
  <2>1. CASE \E p \in Proc : Commit(p)
    BY <1>2, <2>1, CommitForward
  <2>2. CASE UNCHANGED tables
    <3>1. \A d \in Committed : \A k \in DOMAIN orders[d].lines : orders[d].lines[k].refunded \in Nat
      BY <1>2, OrderTypes DEF CounterInv, Committed
    <3> QED BY <2>2, <3>1 DEF tables
  <2> QED BY <1>2, <2>1, <2>2, OnlyCommits
<1> QED BY <1>1, <1>2, CounterHolds, PTL DEF Spec, GoneStaysGone, MeltedStays, OrderMovesForward

-----------------------------------------------------------------------------
(* The reconciliation.                                                      *)

\* Where no line was refunded by item, an order holds outside what it sold, unless it
\* was voided and holds nothing.
LEMMA SoldOrBack ==
  ASSUME CounterInv, NEW i \in Item \ Product, NEW d \in Committed,
         \A k \in DOMAIN orders[d].lines :
           orders[d].status # "PARTIALLY_REFUNDED" /\ orders[d].lines[k].refunded = 0
  PROVE  OutOf(d, i) = IF orders[d].status \in {"COMPLETED", "REFUNDED"} THEN SoldOn(d, i) ELSE 0
<1>1. PICK s, f, g, S : /\ s = orders[d].lines /\ f = Out(d) /\ S = LinesWith(d, i)
                        /\ g = [k \in DOMAIN s |-> s[k].qty]
  OBVIOUS
<1>2. TypeOK /\ d \in Order /\ OrderSound(d) /\ orders[d].status # "NEW"
  BY DEF CounterInv, Committed
<1>3. /\ IsFiniteSet(S) /\ OutOf(d, i) = SumFunctionOnSet(f, S) /\ (\A k \in S : f[k] \in Int)
      /\ SoldOn(d, i) = SumFunctionOnSet(g, S)
  BY <1>1, <1>2, OutsideTypes DEF SoldOn, LinesWith
<1>4. ASSUME NEW k \in S
      PROVE  /\ f[k] = s[k].qty - s[k].restored /\ g[k] = s[k].qty /\ s[k].qty \in Nat
             /\ s[k].restored = IF orders[d].status = "VOIDED" THEN s[k].qty ELSE 0
  <2>1. k \in DOMAIN s /\ s[k].item = i
    BY <1>1 DEF LinesWith
  <2>2. f[k] = s[k].qty - s[k].restored /\ g[k] = s[k].qty /\ s[k].qty \in Nat
    BY <1>1, <1>2, <2>1, OrderTypes DEF Out
  <2>3. LineSound(d, k) /\ s[k].refunded = 0
    BY <1>1, <1>2, <2>1 DEF OrderSound
  <2> QED BY <1>1, <2>1, <2>2, <2>3 DEF LineSound
<1>5. orders[d].status \in {"COMPLETED", "REFUNDED", "VOIDED"}
  <2>1. DOMAIN s # {}
    <3>1. s # <<>> /\ s \in Seq(OrderLine)
      BY <1>1, <1>2, OrderTypes DEF OrderSound
    <3> QED BY <3>1
  <2>2. orders[d].status # "PARTIALLY_REFUNDED"
    BY <1>1, <2>1
  <2>3. orders[d] \in OrderRow
    BY <1>2 DEF TypeOK
  <2> QED BY <1>2, <2>2, <2>3 DEF OrderRow
<1>6. CASE orders[d].status = "VOIDED"
  <2>1. \A k \in S : f[k] = 0
    BY <1>4, <1>6
  <2>2. {} \subseteq S /\ \A k \in S \ {} : f[k] = 0
    BY <2>1
  <2>3. SumFunctionOnSet(f, S) = SumFunctionOnSet(f, {})
    BY <1>3, <2>2, SumSupport
  <2> QED BY <1>3, <1>6, <2>3, NoSum
<1>7. CASE orders[d].status # "VOIDED"
  <2>1. \A k \in S : f[k] = g[k]
    BY <1>4, <1>7
  <2>2. SumFunctionOnSet(f, S) = SumFunctionOnSet(g, S)
    BY <1>3, <2>1, SumSame
  <2> QED BY <1>3, <1>5, <1>7, <2>2
<1> QED BY <1>6, <1>7

\* The reconciliation of units agrees with the stock of a coin or an ounce as long as
\* nothing was refunded by line (inventory._expected_unit_qty, which counts the
\* completed and the refunded orders in full).
THEOREM ReconciliationRight == Spec => []ReconcilesUnrefunded
<1>1. ASSUME CounterInv, NEW i \in Item \ Product,
             \A d \in Committed : \A k \in DOMAIN orders[d].lines :
               orders[d].status # "PARTIALLY_REFUNDED" /\ orders[d].lines[k].refunded = 0
      PROVE  ExpectedQty(i) = item[i].qty
  <2>1. PICK f, g, C, D : /\ f = [d \in Committed |-> OutOf(d, i)] /\ C = Committed
                          /\ g = [d \in Committed |-> SoldOn(d, i)]
                          /\ D = {d \in Committed : orders[d].status \in {"COMPLETED", "REFUNDED"}}
    OBVIOUS
  <2>2. Outside(i) = SumFunctionOnSet(f, C) /\ SoldBy(i) = SumFunctionOnSet(g, D)
    BY <2>1 DEF Outside, SoldBy
  <2>3. IsFiniteSet(C) /\ D \subseteq C /\ \A d \in C : d \in Order
    BY <1>1, <2>1 DEF CounterInv, Committed
  <2>4. \A d \in C : f[d] \in Int
    BY <1>1, <2>1, <2>3, OutsideTypes DEF CounterInv
  <2>5. \A d \in C \ D : f[d] = 0
    BY <1>1, <2>1, SoldOrBack
  <2>6. \A d \in D : f[d] = g[d]
    BY <1>1, <2>1, SoldOrBack
  <2>7. SumFunctionOnSet(f, C) = SumFunctionOnSet(f, D)
    BY <2>3, <2>4, <2>5, SumSupport
  <2>8. IsFiniteSet(D)
    BY <2>3, FS_Subset
  <2>9. SumFunctionOnSet(f, D) = SumFunctionOnSet(g, D)
    BY <2>6, <2>8, SumSame
  <2> QED BY <1>1, <2>2, <2>7, <2>9 DEF CounterInv, StockConserved, ExpectedQty
<1>2. CounterInv => ReconcilesUnrefunded
  BY <1>1 DEF ReconcilesUnrefunded
<1> QED BY <1>2, CounterHolds, PTL

-----------------------------------------------------------------------------
(* The flag of a product, while nobody edits stock in the product form.     *)

\* A void or a refund that writes the row of a product still on the shelf brings at
\* least one unit back to it.
LEMMA BringsSome ==
  ASSUME CounterInv, NEW p \in Proc, tx[p].op \in {"void", "itemRefund"}, tx[p].pc = "commit",
         NEW i \in DOMAIN tx[p].rows, item[i].status \notin Withdrawn
  PROVE  Brought(p, i) >= 1
<1>1. PICK t, d, s, B : /\ t = tx[p] /\ d = t.order /\ s = LinesOf(p)
                        /\ B = {k \in DOMAIN t.back : s[k].item = i}
  OBVIOUS
<1>2. /\ TypeOK /\ Holds(p) /\ Returning(p) /\ Course(p) /\ t.op \in OnOrder
  BY <1>1 DEF CounterInv, SessionSound, OnOrder
<1>3. /\ d \in Order /\ s = orders[d].lines /\ DOMAIN t.back \subseteq DOMAIN s
      /\ \A k \in DOMAIN t.back : t.back[k] \in Nat
  BY <1>1, <1>2, OrderHeld DEF LinesOf
<1>4. Waiting(p) = {}
  BY <1>1, <1>2 DEF Course, Waiting
<1>5. PICK k \in Asked(p) : s[k].item = i
  BY <1>1, <1>2, <1>4 DEF Returning
<1>6. k \in DOMAIN t.back /\ t.back[k] = UnitsAsked(p, k)
  BY <1>1, <1>2, <1>4, <1>5 DEF Returning
<1>7. UnitsAsked(p, k) >= 1
  <2>1. CASE t.op = "void"
    <3>1. OrderSound(d) /\ k \in DOMAIN s
      BY <1>1, <1>2, <1>3, <1>6 DEF CounterInv, Holds
    <3>2. s[k].qty >= 1
      BY <1>3, <3>1 DEF OrderSound, LineSound
    <3> QED BY <1>1, <2>1, <3>2 DEF UnitsAsked
  <2>2. CASE t.op = "itemRefund"
    BY <1>1, <1>2, <2>2 DEF UnitsAsked, Holds
  <2> QED BY <1>1, <2>1, <2>2
<1>8. B \subseteq DOMAIN orders[d].lines
  BY <1>1, <1>3
<1>9. IsFiniteSet(B) /\ k \in B /\ \A j \in B : t.back[j] \in Nat
  BY <1>1, <1>2, <1>3, <1>5, <1>6, <1>8, FiniteLines
<1>10. t.back[k] <= SumFunctionOnSet(t.back, B) /\ SumFunctionOnSet(t.back, B) \in Nat
  <2>1. PICK f : f = t.back
    OBVIOUS
  <2>2. IsFiniteSet(B) /\ k \in B /\ \A j \in B : f[j] \in Nat
    BY <1>9, <2>1
  <2>3. f[k] <= SumFunctionOnSet(f, B)
    BY <2>2, SumAtLeast
  <2>4. SumFunctionOnSet(f, B) \in Nat
    BY <2>2, SumNat
  <2> QED BY <2>1, <2>3, <2>4
<1>11. Brought(p, i) = SumFunctionOnSet(t.back, B)
  BY <1>1 DEF Brought
<1>12. t.back[k] \in Nat /\ t.back[k] >= 1
  BY <1>6, <1>7, <1>9
<1> QED BY <1>10, <1>11, <1>12

\* What is committed leaves the flag right.
LEMMA CommitFlags ==
  ASSUME CounterInv, FlagInv, EditsStock = FALSE, NEW p \in Proc, Commit(p)
  PROVE  FlagInv'
<1>1. PICK t : t = tx[p]
  OBVIOUS
<1>2. t.pc = "commit" /\ t.op \in {"sale", "move"} \cup OnOrder \cup OnFlag
  BY <1>1, Written
<1>3. TypeOK /\ SessionSound(p)
  BY DEF CounterInv
<1> SUFFICES ASSUME NEW i \in Product, item'[i].status # "MELTED"
             PROVE  item'[i].status = "SOLD" <=> item'[i].qty = 0
  BY DEF FlagInv
<1>4. i \in Item /\ item'[i] = RowOf(p, i) /\ item[i] \in StockRow /\ item[i].qty \in Nat
  BY <1>1, <1>3, ItemAssumption, Written DEF TypeOK, StockRow
<1>5. item[i].status # "MELTED" => (item[i].status = "SOLD" <=> item[i].qty = 0)
  BY DEF FlagInv
<1>6. CASE i \notin DOMAIN t.rows
  BY <1>1, <1>4, <1>5, <1>6 DEF RowOf
<1>7. CASE i \in DOMAIN t.rows
  <2>0. item'[i] = t.rows[i]
    BY <1>1, <1>4, <1>7 DEF RowOf
  <2>1. CASE t.op = "sale"
    BY <1>1, <1>3, <1>7, <2>0, <2>1 DEF SessionSound, Selling, Flag
  <2>2. CASE t.op = "refund"
    BY <1>1, <1>3, <1>7, <2>2 DEF SessionSound, Course
  <2>3. CASE t.op \in {"void", "itemRefund"} /\ item[i].status \in Withdrawn
    <3>1. item'[i] = item[i]
      BY <1>1, <1>2, <1>3, <1>7, <2>0, <2>3 DEF SessionSound, Returning
    <3> QED BY <1>5, <3>1
  <2>4. CASE t.op \in {"void", "itemRefund"} /\ item[i].status \notin Withdrawn
    <3>1. t.rows[i].qty = item[i].qty + Brought(p, i) /\ t.rows[i].status = "AVAILABLE"
      BY <1>1, <1>2, <1>3, <1>7, <2>4 DEF SessionSound, Returning
    <3>2. Brought(p, i) >= 1 /\ Brought(p, i) \in Nat
      BY <1>1, <1>2, <1>7, <2>4, BringsSome, OrderHeld DEF OnOrder
    <3> QED BY <1>4, <2>0, <3>1, <3>2
  <2>5. CASE t.op = "move"
    BY <1>1, <1>3, <1>7, <2>5 DEF SessionSound, Moving
  <2>6. CASE t.op \in OnFlag
    <3>1. /\ t.op # "edit" /\ t.rows[i].qty = item[i].qty
          /\ t.op = "remove" => item[i].status \in {"AVAILABLE", "INACTIVE"} /\ t.rows[i].status = "INACTIVE"
          /\ t.op = "restore" => item[i].status = "INACTIVE" /\ t.rows[i].status = "AVAILABLE"
          /\ t.op = "melt" => t.rows[i].status = "MELTED"
      BY <1>1, <1>3, <1>7, <2>6 DEF SessionSound, Flagging
    <3> QED BY <1>5, <2>0, <2>6, <3>1 DEF OnFlag
  <2> QED BY <1>2, <2>1, <2>2, <2>3, <2>4, <2>5, <2>6 DEF OnOrder
<1> QED BY <1>6, <1>7

\* A product is SOLD exactly when nothing of it is left, through every sale, void, refund,
\* removal and restoration ("SOLD once nothing is left on hand", _checkout_product_line),
\* as long as the product form is not used to write its stock.
THEOREM FlagsFollow == ASSUME EditsStock = FALSE PROVE Spec => []FlagFollowsStock
<1>1. Init => FlagInv
  <2> SUFFICES ASSUME Init, NEW i \in Product PROVE item[i].status # "SOLD" /\ item[i].qty # 0
    BY DEF FlagInv
  <2> QED BY ItemAssumption, BoundAssumption DEF Init
<1>2. CounterInv /\ FlagInv /\ [Next]_vars => FlagInv'
  <2> SUFFICES ASSUME CounterInv, FlagInv, [Next]_vars PROVE FlagInv'
    OBVIOUS
  <2>1. CASE UNCHANGED tables
    BY <2>1 DEF tables, FlagInv
  <2>2. CASE \E p \in Proc : Commit(p)
    BY <2>2, CommitFlags
  <2> QED BY <2>1, <2>2, OnlyCommits
<1>3. FlagInv => FlagFollowsStock
  BY DEF FlagInv, FlagFollowsStock, Withdrawn
<1> QED BY <1>1, <1>2, <1>3, CounterHolds, PTL DEF Spec

-----------------------------------------------------------------------------
(* The counter implements Shelf.                                            *)

\* The sums of Shelf are the sums here.
LEMMA ShelfSums == \A f, S : OnShelf!SumFunctionOnSet(f, S) = SumFunctionOnSet(f, S)
BY DEF SumFunctionOnSet, FoldFunctionOnSet, MapThenFoldSet,
       OnShelf!SumFunctionOnSet, OnShelf!FoldFunctionOnSet, OnShelf!MapThenFoldSet

\* A sale is a checkout on the shelf.
LEMMA SaleOnShelf ==
  ASSUME CounterInv, NEW p \in Proc, Commit(p), tx[p].op = "sale", NEW d, d = tx[p].order
  PROVE  d \in Order /\ OnShelf!Checkout(d)
<1>1. PICK t, w, c : t = tx[p] /\ w = LinesAfter(tx[p]) /\ c = t.cart
  OBVIOUS
<1>2. /\ t.pc = "commit" /\ t.op \in OrderOps /\ d \in Order /\ orders'[d] = OrderAfter(t)
      /\ orders' = [orders EXCEPT ![d] = OrderAfter(t)]
      /\ \A i \in Item : item'[i] = RowOf(p, i)
  BY <1>1, Written DEF OrderOps
<1>3. /\ TypeOK /\ Selling(p) /\ Course(p) /\ Numbered(p) /\ TxOK(t)
  BY <1>1 DEF CounterInv, SessionSound, TypeOK
<1>4. /\ OrderAfter(t).status = "COMPLETED" /\ OrderAfter(t).number = t.number
      /\ OrderAfter(t).lines = w /\ DOMAIN w = DOMAIN c
      /\ \A k \in DOMAIN w : /\ w[k].item = c[k].item /\ w[k].qty = c[k].qty
                             /\ w[k].qty \in Nat /\ w[k].restored = 0 /\ w[k].refunded = 0
  BY <1>1, <1>2, SaleSound
<1>5. orders'[d].lines = w
  BY <1>2, <1>4
<1>6. orders[d].status = "NEW" /\ orders'[d].status = "COMPLETED"
  BY <1>1, <1>2, <1>3, <1>4 DEF Selling
<1>7. \A b \in Order \ {d} : orders[b].status # "NEW" => orders[b].number # orders'[d].number
  BY <1>1, <1>2, <1>3, <1>4 DEF Numbered, NumberTaken, Committed
<1>8. ASSUME NEW i \in Item
      PROVE  LET n == OnShelf!UnitsOn(w, i) IN
             IF n = 0 THEN item'[i] = item[i]
             ELSE /\ n <= item[i].qty /\ item[i].status \notin OnShelf!Gone
                  /\ item'[i] = OnShelf!Stocked(i, item[i].qty - n)
  <2>1. PICK g, h, S : /\ g = [k \in DOMAIN w |-> w[k].qty] /\ h = Quantities(c)
                       /\ S = {k \in DOMAIN w : w[k].item = i}
    OBVIOUS
  <2>2. OnShelf!UnitsOn(w, i) = SumFunctionOnSet(g, S)
    BY <2>1, ShelfSums DEF OnShelf!UnitsOn, OnShelf!BackOn
  <2>3. Handled(p) = DOMAIN c /\ S = {k \in Handled(p) : c[k].item = i}
    <3>1. Handled(p) = DOMAIN c
      BY <1>1, <1>2, SaleRows
    <3> QED BY <1>4, <2>1, <3>1
  <2>4. g = h
    BY <1>4, <2>1 DEF Quantities
  <2>5. OnShelf!UnitsOn(w, i) = Taken(p, i)
    BY <1>1, <2>1, <2>2, <2>3, <2>4 DEF Taken
  <2>6. Taken(p, i) \in Int
    BY <1>1, <1>2, TakenInt
  <2>7. CASE i \notin DOMAIN t.rows
    <3>1. S = {}
      BY <1>1, <1>3, <2>3, <2>7 DEF Selling
    <3>2. Taken(p, i) = 0
      BY <2>2, <2>5, <3>1, NoSum
    <3>3. item'[i] = item[i]
      BY <1>1, <1>2, <2>7 DEF RowOf
    <3> QED BY <2>5, <3>2, <3>3
  <2>8. CASE i \in DOMAIN t.rows
    <3>1. /\ item[i].status \notin Withdrawn
          /\ t.rows[i].qty = item[i].qty - Taken(p, i) /\ t.rows[i].qty >= 0
          /\ t.rows[i].status = Flag(i, t.rows[i].qty)
      BY <1>1, <1>3, <2>8 DEF Selling
    <3>2. t.rows[i] \in StockRow /\ item[i] \in StockRow /\ item'[i] = t.rows[i]
      BY <1>1, <1>2, <1>3, <2>8 DEF RowOf, TxOK, TypeOK
    <3>3. item'[i] = OnShelf!Stocked(i, item[i].qty - Taken(p, i))
      BY <3>1, <3>2 DEF OnShelf!Stocked, StockRow, Flag
    <3>4. Taken(p, i) # 0
      <4>1. PICK k \in Handled(p) : c[k].item = i
        BY <1>1, <1>3, <2>8 DEF Selling
      <4>2. k \in S /\ k \in DOMAIN c
        BY <2>3, <4>1
      <4>3. h[k] >= 1 /\ \A j \in S : h[j] \in Nat
        <5>1. c[k].qty >= 1 /\ h[k] = c[k].qty
          BY <1>1, <1>3, <2>1, <4>2 DEF Selling, Quantities
        <5>2. \A j \in S : h[j] \in Nat
          BY <1>4, <2>1 DEF Quantities
        <5> QED BY <5>1, <5>2
      <4>4. IsFiniteSet(S)
        <5>1. PICK n : n = Len(c)
          OBVIOUS
        <5>2. n \in Nat /\ S \subseteq 1..n
          BY <1>1, <1>3, <1>4, <2>1, <5>1 DEF TxOK
        <5>3. IsFiniteSet(1..n)
          BY <5>2, FS_Interval
        <5> QED BY <5>2, <5>3, FS_Subset
      <4>5. h[k] <= SumFunctionOnSet(h, S)
        BY <4>2, <4>3, <4>4, SumAtLeast
      <4>6. Taken(p, i) = SumFunctionOnSet(h, S)
        BY <2>2, <2>4, <2>5
      <4> QED BY <2>6, <4>2, <4>3, <4>5, <4>6
    <3>5. Taken(p, i) <= item[i].qty
      BY <2>6, <3>1, <3>2 DEF StockRow
    <3> QED BY <2>5, <3>1, <3>3, <3>4, <3>5 DEF OnShelf!Gone, Withdrawn
  <2> QED BY <2>7, <2>8
<1>9. orders' = [orders EXCEPT ![d] = orders'[d]]
  BY <1>2
<1> QED BY <1>2, <1>4, <1>5, <1>6, <1>7, <1>8, <1>9 DEF OnShelf!Checkout

\* A void or a refund brings back what the shelf says it does.
LEMMA BackOnShelf ==
  ASSUME CounterInv, NEW p \in Proc, tx[p].op \in OnOrder, tx[p].pc = "commit",
         NEW back, DOMAIN back = DOMAIN LinesOf(p),
         \A k \in DOMAIN LinesOf(p) :
           /\ back[k] \in Nat
           /\ Restored(tx[p], k) = IF item[LinesOf(p)[k].item].status \notin Withdrawn THEN back[k] ELSE 0,
         NEW i \in Item
  PROVE  RowOf(p, i) = IF OnShelf!BackOn(back, LinesOf(p), i) = 0 \/ item[i].status \in Withdrawn THEN item[i]
                       ELSE [qty |-> item[i].qty + OnShelf!BackOn(back, LinesOf(p), i), status |-> "AVAILABLE"]
<1>1. PICK t, d, s, S, B : /\ t = tx[p] /\ d = t.order /\ s = LinesOf(p)
                           /\ S = {k \in DOMAIN s : s[k].item = i}
                           /\ B = {k \in DOMAIN t.back : s[k].item = i}
  OBVIOUS
<1>2. /\ TypeOK /\ Returning(p) /\ Course(p) /\ TxOK(t) /\ t.op \in OnOrder /\ t.pc = "commit"
      /\ item[i] \in StockRow
  BY <1>1 DEF CounterInv, SessionSound, TypeOK
<1>3. d \in Order /\ s = orders[d].lines /\ DOMAIN t.back \subseteq DOMAIN s
  BY <1>1, <1>2, OrderHeld DEF LinesOf
<1>4. OnShelf!BackOn(back, s, i) = SumFunctionOnSet(back, S) /\ Brought(p, i) = SumFunctionOnSet(t.back, B)
  BY <1>1, ShelfSums DEF OnShelf!BackOn, Brought
<1>5. CASE item[i].status \in Withdrawn
  <2>1. RowOf(p, i) = item[i]
    <3>1. CASE t.op = "refund"
      BY <1>1, <1>2, <3>1 DEF Course, RowOf
    <3>2. CASE t.op \in {"void", "itemRefund"}
      BY <1>1, <1>2, <1>5, <3>2 DEF Returning, RowOf
    <3> QED BY <1>2, <3>1, <3>2 DEF OnOrder
  <2> QED BY <1>5, <2>1
<1>6. CASE item[i].status \notin Withdrawn
  <2>1. \A k \in S : back[k] \in Nat /\ k \in DOMAIN s /\ back[k] = Restored(t, k)
    BY <1>1, <1>6
  <2>2. B \subseteq S /\ (\A k \in S \ B : back[k] = 0) /\ \A k \in B : back[k] = t.back[k]
    BY <1>1, <1>3, <2>1 DEF Restored
  <2>3. S \subseteq DOMAIN orders[d].lines /\ B \subseteq DOMAIN orders[d].lines
    BY <1>1, <1>3
  <2>4. IsFiniteSet(S) /\ IsFiniteSet(B)
    BY <1>2, <1>3, <2>3, FiniteLines
  <2>5. SumFunctionOnSet(back, S) = SumFunctionOnSet(back, B)
    BY <2>1, <2>2, <2>4, SumSupport
  <2>6. SumFunctionOnSet(back, B) = SumFunctionOnSet(t.back, B)
    BY <2>2, <2>4, SumSame
  <2>7. OnShelf!BackOn(back, s, i) = Brought(p, i) /\ Brought(p, i) \in Nat
    BY <1>1, <1>2, <1>4, <2>5, <2>6, OrderHeld
  <2>8. CASE i \in DOMAIN t.rows
    <3>1. t.op # "refund"
      BY <1>1, <1>2, <2>8 DEF Course
    <3>2. t.op \in {"void", "itemRefund"}
      BY <1>2, <3>1 DEF OnOrder
    <3>3. t.rows[i].qty = item[i].qty + Brought(p, i) /\ t.rows[i].status = "AVAILABLE"
      BY <1>1, <1>2, <1>6, <2>8, <3>2 DEF Returning
    <3>4. Brought(p, i) >= 1
      BY <1>1, <1>2, <1>6, <2>8, <3>2, BringsSome
    <3>5. t.rows[i] \in StockRow /\ RowOf(p, i) = t.rows[i]
      BY <1>1, <1>2, <2>8 DEF TxOK, RowOf
    <3>6. RowOf(p, i) = [qty |-> item[i].qty + Brought(p, i), status |-> "AVAILABLE"]
      BY <3>3, <3>5 DEF StockRow
    <3> QED BY <1>1, <1>6, <2>7, <3>4, <3>6
  <2>9. CASE i \notin DOMAIN t.rows
    <3>1. B = {}
      <4>1. t.op = "refund" => B = {}
        BY <1>1, <1>2 DEF Course
      <4>2. t.op # "refund" => \A k \in DOMAIN t.back : s[k].item \in DOMAIN t.rows
        BY <1>1, <1>2 DEF Returning, OnOrder
      <4> QED BY <1>1, <2>9, <4>1, <4>2
    <3>2. Brought(p, i) = 0
      BY <1>4, <3>1, NoSum
    <3>3. RowOf(p, i) = item[i]
      BY <1>1, <2>9 DEF RowOf
    <3> QED BY <1>1, <2>7, <3>2, <3>3
  <2> QED BY <2>8, <2>9
<1> QED BY <1>5, <1>6

\* A void or a refund is one bringing back on the shelf.
LEMMA ReturnOnShelf ==
  ASSUME CounterInv, NEW p \in Proc, Commit(p), tx[p].op \in OnOrder, NEW d, d = tx[p].order,
         NEW back, DOMAIN back = DOMAIN LinesOf(p), NEW refunded,
         \A k \in DOMAIN LinesOf(p) :
           /\ back[k] \in Nat /\ refunded[k] = RefundedBy(tx[p], k)
           /\ Restored(tx[p], k) = IF item[LinesOf(p)[k].item].status \notin Withdrawn THEN back[k] ELSE 0
  PROVE  OnShelf!BringBack(d, back, StatusAfter(tx[p]), refunded)
<1>1. PICK t, s : t = tx[p] /\ s = LinesOf(p)
  OBVIOUS
<1>2. /\ t.pc = "commit" /\ t.op \in OrderOps /\ d \in Order
      /\ orders' = [orders EXCEPT ![d] = OrderAfter(t)]
  BY <1>1, Written DEF OrderOps, OnOrder
<1>3. TypeOK /\ s = orders[d].lines /\ orders[d] \in OrderRow
  BY <1>1, <1>2 DEF CounterInv, TypeOK, LinesOf
<1>4. item' = [i \in Item |-> IF OnShelf!BackOn(back, s, i) = 0 \/ item[i].status \in OnShelf!Gone
                              THEN item[i]
                              ELSE [qty |-> item[i].qty + OnShelf!BackOn(back, s, i), status |-> "AVAILABLE"]]
  <2>1. item' = [i \in Item |-> RowOf(p, i)]
    BY DEF Commit
  <2>2. \A i \in Item :
          RowOf(p, i) = IF OnShelf!BackOn(back, s, i) = 0 \/ item[i].status \in Withdrawn THEN item[i]
                        ELSE [qty |-> item[i].qty + OnShelf!BackOn(back, s, i), status |-> "AVAILABLE"]
    BY <1>1, <1>2, BackOnShelf
  <2> QED BY <2>1, <2>2 DEF OnShelf!Gone, Withdrawn
<1>5. t.op # "sale"
  BY <1>1 DEF OnOrder
<1>6. PICK w : w = [k \in DOMAIN s |-> [s[k] EXCEPT !.refunded = @ + refunded[k],
                       !.restored = @ + IF item[s[k].item].status \notin OnShelf!Gone THEN back[k] ELSE 0]]
  OBVIOUS
<1>7. LinesAfter(t) = w
  <2>1. LinesAfter(t) = [k \in DOMAIN s |-> [s[k] EXCEPT !.refunded = @ + RefundedBy(t, k),
                                                         !.restored = @ + Restored(t, k)]]
    BY <1>1, <1>3, <1>5 DEF LinesAfter
  <2>2. \A k \in DOMAIN s :
          /\ refunded[k] = RefundedBy(t, k)
          /\ Restored(t, k) = IF item[s[k].item].status \notin OnShelf!Gone THEN back[k] ELSE 0
    BY <1>1 DEF OnShelf!Gone, Withdrawn
  <2> QED BY <1>6, <2>1, <2>2
<1>8. OrderAfter(t) = [orders[d] EXCEPT !.status = StatusAfter(t), !.lines = w]
  <2>1. PICK o, a : o = orders[d] /\ a = StatusAfter(t)
    OBVIOUS
  <2>2. o = [status |-> o.status, number |-> o.number, lines |-> o.lines]
    BY <1>3, <2>1 DEF OrderRow
  <2>3. [o EXCEPT !.status = a, !.lines = w] = [status |-> a, lines |-> w, number |-> o.number]
    <3>1. PICK u, n, l : o = [status |-> u, number |-> n, lines |-> l]
      BY <2>2
    <3>2. PICK r : r = [o EXCEPT !.status = a, !.lines = w]
      OBVIOUS
    <3>3. r = [status |-> a, lines |-> w, number |-> n]
      BY <3>1, <3>2, Zenon
    <3> QED BY <3>1, <3>2, <3>3
  <2>4. OrderAfter(t) = [status |-> a, lines |-> w, number |-> o.number]
    BY <1>1, <1>5, <1>7, <2>1 DEF OrderAfter
  <2> QED BY <2>1, <2>3, <2>4
<1>9. orders' = [orders EXCEPT ![d].status = StatusAfter(t), ![d].lines = w]
  BY <1>2, <1>3, <1>8 DEF TypeOK
<1> QED BY <1>1, <1>3, <1>4, <1>6, <1>9 DEF OnShelf!BringBack

\* A void brings back every line of its order, /refund none, and a line refund one.
LEMMA VoidOnShelf ==
  ASSUME CounterInv, NEW p \in Proc, Commit(p), tx[p].op \in OnOrder, NEW d, d = tx[p].order
  PROVE  d \in Order /\ (OnShelf!Void(d) \/ OnShelf!Refund(d) \/ OnShelf!RefundLine(d))
<1>1. PICK t, s : t = tx[p] /\ s = LinesOf(p)
  OBVIOUS
<1>2. /\ t.pc = "commit" /\ t.op \in OnOrder /\ TypeOK /\ Holds(p)
      /\ d \in Order /\ s = orders[d].lines /\ d \in Committed
  BY <1>1, Written, OrderHeld DEF CounterInv, SessionSound, LinesOf
<1>3. \A k \in DOMAIN s :
        LET n == IF t.op = "void" THEN s[k].qty
                 ELSE IF t.op = "itemRefund" /\ k = t.cart[1].line THEN t.cart[1].qty ELSE 0
        IN  /\ Restored(t, k) = IF item[s[k].item].status \notin Withdrawn THEN n ELSE 0
            /\ RefundedBy(t, k) = IF t.op = "itemRefund" THEN n ELSE 0
            /\ n \in Nat /\ n <= s[k].qty - s[k].refunded
  BY <1>1, <1>2, UnitsLeft
<1>4. PICK z : z = [k \in DOMAIN s |-> 0]
  OBVIOUS
<1>5. OnShelf!Nothing(d) = z
  BY <1>2, <1>4 DEF OnShelf!Nothing
<1>6. CASE t.op = "void"
  <2>1. PICK b : b = [k \in DOMAIN s |-> s[k].qty]
    OBVIOUS
  <2>2. DOMAIN b = DOMAIN s /\ \A k \in DOMAIN s :
          /\ b[k] \in Nat /\ z[k] = RefundedBy(t, k)
          /\ Restored(t, k) = IF item[s[k].item].status \notin Withdrawn THEN b[k] ELSE 0
    BY <1>3, <1>4, <1>6, <2>1
  <2>3. OnShelf!BringBack(d, b, StatusAfter(t), z)
    BY <1>1, <1>2, <2>2, ReturnOnShelf
  <2>4. StatusAfter(t) = "VOIDED" /\ orders[d].status = "COMPLETED"
    BY <1>1, <1>2, <1>6 DEF StatusAfter, Holds
  <2> QED BY <1>2, <1>5, <2>1, <2>3, <2>4 DEF OnShelf!Void, OnShelf!Open
<1>7. CASE t.op = "refund"
  <2>2. DOMAIN z = DOMAIN s /\ \A k \in DOMAIN s :
          /\ z[k] \in Nat /\ z[k] = RefundedBy(t, k)
          /\ Restored(t, k) = IF item[s[k].item].status \notin Withdrawn THEN z[k] ELSE 0
    BY <1>3, <1>4, <1>7
  <2>3. OnShelf!BringBack(d, z, StatusAfter(t), z)
    BY <1>1, <1>2, <2>2, ReturnOnShelf
  <2>4. StatusAfter(t) = "REFUNDED" /\ orders[d].status = "COMPLETED"
    BY <1>1, <1>2, <1>7 DEF StatusAfter, Holds
  <2> QED BY <1>2, <1>5, <2>3, <2>4 DEF OnShelf!Refund, OnShelf!Open
<1>8. CASE t.op = "itemRefund"
  <2>1. PICK k, q : k = t.cart[1].line /\ q = t.cart[1].qty
    OBVIOUS
  <2>2. k \in DOMAIN s /\ q >= 1 /\ orders[d].status \in {"COMPLETED", "PARTIALLY_REFUNDED"}
    BY <1>1, <1>2, <1>8, <2>1 DEF Holds
  <2>3. q \in Nat /\ q <= s[k].qty - s[k].refunded /\ s[k].qty - s[k].refunded \in Int
    <3>1. q \in Nat /\ q <= s[k].qty - s[k].refunded
      BY <1>3, <1>8, <2>1, <2>2
    <3> QED BY <1>2, <2>2, <3>1, OrderTypes
  <2>4. PICK b : b = [z EXCEPT ![k] = q]
    OBVIOUS
  <2>5. DOMAIN b = DOMAIN s /\ \A j \in DOMAIN s : b[j] = IF j = k THEN q ELSE 0
    BY <1>4, <2>2, <2>4
  <2>6. DOMAIN b = DOMAIN s /\ \A j \in DOMAIN s :
          /\ b[j] \in Nat /\ b[j] = RefundedBy(t, j)
          /\ Restored(t, j) = IF item[s[j].item].status \notin Withdrawn THEN b[j] ELSE 0
    BY <1>3, <1>8, <2>1, <2>3, <2>5
  <2>7. OnShelf!BringBack(d, b, StatusAfter(t), b)
    BY <1>1, <1>2, <2>6, ReturnOnShelf
  <2>8. PICK done : done = \A j \in DOMAIN s : s[j].refunded + (IF j = k THEN q ELSE 0) >= s[j].qty
    OBVIOUS
  <2>9. StatusAfter(t) = IF done THEN "REFUNDED" ELSE "PARTIALLY_REFUNDED"
    <3>1. PICK w : w = LinesAfter(t)
      OBVIOUS
    <3>2. DOMAIN w = DOMAIN s /\ \A j \in DOMAIN s :
            w[j].qty = s[j].qty /\ w[j].refunded = s[j].refunded + RefundedBy(t, j)
      <4>1. /\ tx[p].op \in OnOrder /\ tx[p].pc = "commit" /\ s = LinesOf(p) /\ w = LinesAfter(tx[p])
        BY <1>1, <1>2, <3>1
      <4>2. DOMAIN w = DOMAIN s
        BY <4>1, LinesLeft
      <4>3. ASSUME NEW j \in DOMAIN s
            PROVE  w[j].qty = s[j].qty /\ w[j].refunded = s[j].refunded + RefundedBy(tx[p], j)
        BY <4>1, LinesLeft
      <4> QED BY <1>1, <4>2, <4>3
    <3>3. \A j \in DOMAIN s : RefundedBy(t, j) = IF j = k THEN q ELSE 0
      BY <2>5, <2>6
    <3>4. \A j \in DOMAIN s : w[j].qty = s[j].qty /\ w[j].refunded = s[j].refunded + IF j = k THEN q ELSE 0
      BY <3>2, <3>3
    <3>5. FullyRefunded(w) <=> done
      BY <2>8, <3>2, <3>4 DEF FullyRefunded
    <3> QED BY <1>8, <3>1, <3>5 DEF StatusAfter
  <2>10. d \in OnShelf!Refundable
    BY <1>2, <2>2 DEF OnShelf!Refundable
  <2>11. q \in 1..(orders[d].lines[k].qty - orders[d].lines[k].refunded) /\ k \in DOMAIN orders[d].lines
    BY <1>2, <2>2, <2>3
  <2>12. OnShelf!BringBack(d, [OnShelf!Nothing(d) EXCEPT ![k] = q],
           IF \A j \in DOMAIN orders[d].lines :
                orders[d].lines[j].refunded + (IF j = k THEN q ELSE 0) >= orders[d].lines[j].qty
           THEN "REFUNDED" ELSE "PARTIALLY_REFUNDED", [OnShelf!Nothing(d) EXCEPT ![k] = q])
    BY <1>2, <1>5, <2>4, <2>7, <2>8, <2>9
  <2>13. OnShelf!RefundLine(d)
    BY <2>10, <2>11, <2>12 DEF OnShelf!RefundLine
  <2> QED BY <1>2, <2>13
<1> QED BY <1>2, <1>6, <1>7, <1>8 DEF OnOrder

\* Purchases, buybacks and adjustments move coins and ounces.
LEMMA MoveOnShelf ==
  ASSUME CounterInv, NEW p \in Proc, Commit(p), tx[p].op = "move"
  PROVE  OnShelf!Move
<1>1. PICK t : t = tx[p]
  OBVIOUS
<1>2. /\ t.pc = "commit" /\ t.op = "move" /\ Moving(p) /\ orders' = orders
      /\ \A i \in Item : item'[i] = RowOf(p, i)
  BY <1>1, Written DEF CounterInv, SessionSound, OrderOps
<1>3. \A i \in Item : RowOf(p, i).qty >= 0
  BY <1>1, <1>2, RowsKept
<1>4. \A i \in DOMAIN t.rows : i \notin Product /\ t.rows[i].status = item[i].status
  BY <1>1, <1>2 DEF Moving
<1>5. \A i \in Item : item'[i].qty >= 0 /\ item'[i].status = item[i].status
  BY <1>1, <1>2, <1>3, <1>4 DEF RowOf
<1>6. \A i \in Product : item'[i] = item[i]
  BY <1>1, <1>2, <1>4, ItemAssumption DEF RowOf
<1> QED BY <1>2, <1>5, <1>6 DEF OnShelf!Move

\* Withdrawing, restoring and melting set the flag of one product, or nothing.
LEMMA FlagOnShelf ==
  ASSUME CounterInv, EditsStock = FALSE, NEW p \in Proc, Commit(p), tx[p].op \in OnFlag
  PROVE  UNCHANGED <<item, orders>> \/ \E i \in Product : OnShelf!Flagged(i)
<1>1. PICK t : t = tx[p]
  OBVIOUS
<1>2. /\ t.pc = "commit" /\ t.op \in OnFlag /\ Flagging(p) /\ orders' = orders /\ TypeOK
      /\ item' = [j \in Item |-> RowOf(p, j)]
  BY <1>1, Written DEF CounterInv, SessionSound, OrderOps, OnFlag, Commit
<1>3. item = [j \in Item |-> item[j]]
  BY <1>2 DEF TypeOK
<1>4. CASE DOMAIN t.rows = {}
  <2>1. item' = item
    BY <1>1, <1>2, <1>3, <1>4 DEF RowOf
  <2> QED BY <1>2, <2>1
<1>5. CASE DOMAIN t.rows # {}
  <2>1. PICK i : i \in DOMAIN t.rows
    BY <1>5
  <2>2. /\ DOMAIN t.rows = {i} /\ i \in Product /\ i \in Item /\ t.op # "edit"
        /\ t.rows[i].qty = item[i].qty
        /\ t.op = "remove" => item[i].status \in {"AVAILABLE", "INACTIVE"} /\ t.rows[i].status = "INACTIVE"
        /\ t.op = "restore" => item[i].status = "INACTIVE" /\ t.rows[i].status = "AVAILABLE"
        /\ t.op = "melt" => item[i].status \in {"AVAILABLE", "INACTIVE"} /\ t.rows[i].status = "MELTED"
    BY <1>1, <1>2, <2>1, ItemAssumption DEF Flagging
  <2>3. PICK r, now : r = item[i] /\ now = t.rows[i].status
    OBVIOUS
  <2>4. r \in StockRow /\ t.rows[i] \in StockRow
    BY <1>1, <1>2, <2>1, <2>2, <2>3 DEF TypeOK, CounterInv, TxOK
  <2>5. t.rows[i] = [r EXCEPT !.status = now]
    BY <2>2, <2>3, <2>4 DEF StockRow
  <2>6. item' = [item EXCEPT ![i] = t.rows[i]]
    BY <1>1, <1>2, <1>3, <2>2 DEF RowOf
  <2>7. item' = [item EXCEPT ![i].status = now]
    BY <1>3, <2>2, <2>3, <2>5, <2>6
  <2>8. CASE r.status = "INACTIVE" /\ now = "INACTIVE"
    <3>1. t.rows[i] = r
      BY <2>4, <2>5, <2>8 DEF StockRow
    <3>2. item' = item
      BY <1>3, <2>3, <2>6, <3>1
    <3> QED BY <1>2, <3>2
  <2>9. CASE ~(r.status = "INACTIVE" /\ now = "INACTIVE")
    <3>1. /\ now \in OnShelf!Gone \cup {"AVAILABLE"}
          /\ item[i].status = "AVAILABLE" \/ (item[i].status = "INACTIVE" /\ now # "INACTIVE")
      BY <1>2, <2>2, <2>3, <2>9 DEF OnFlag, OnShelf!Gone
    <3>2. OnShelf!Flagged(i)
      BY <1>2, <2>7, <3>1 DEF OnShelf!Flagged
    <3> QED BY <2>2, <3>2
  <2> QED BY <2>8, <2>9
<1> QED BY <1>4, <1>5

\* Each checkout, void, refund, purchase, adjustment, withdrawal and melt takes effect in
\* one step, on the stock and the order as they are at that moment, whatever its
\* transaction waited for (the locks of create_order, void_order, refund_order and
\* refund_order_item), as long as the product form does not write stock.
THEOREM CounterKeepsPromise == ASSUME EditsStock = FALSE PROVE Spec => KeepsPromise
<1>1. Init => OnShelf!Init
  <2> SUFFICES ASSUME Init PROVE OnShelf!Init
    OBVIOUS
  <2>1. \A i \in Item : item[i].qty >= 0 /\ item[i].status = "AVAILABLE"
    BY BoundAssumption DEF Init
  <2>2. \A d \in Order : orders[d].status = "NEW"
    BY DEF Init
  <2> QED BY <2>1, <2>2 DEF OnShelf!Init
<1>2. CounterInv /\ [Next]_vars => [OnShelf!Next]_<<item, orders>>
  <2> SUFFICES ASSUME CounterInv, [Next]_vars
               PROVE  OnShelf!Next \/ UNCHANGED <<item, orders>>
    OBVIOUS
  <2>1. CASE UNCHANGED tables
    BY <2>1 DEF tables
  <2>2. ASSUME NEW p \in Proc, Commit(p) PROVE OnShelf!Next \/ UNCHANGED <<item, orders>>
    <3>1. PICK d : d = tx[p].order
      OBVIOUS
    <3>2. tx[p].op \in {"sale", "move"} \cup OnOrder \cup OnFlag
      BY <2>2, Written
    <3>3. CASE tx[p].op = "sale"
      BY <2>2, <3>1, <3>3, SaleOnShelf DEF OnShelf!Next
    <3>4. CASE tx[p].op \in OnOrder
      BY <2>2, <3>1, <3>4, VoidOnShelf DEF OnShelf!Next
    <3>5. CASE tx[p].op = "move"
      BY <2>2, <3>5, MoveOnShelf DEF OnShelf!Next
    <3>6. CASE tx[p].op \in OnFlag
      BY <2>2, <3>6, FlagOnShelf DEF OnShelf!Next
    <3> QED BY <3>2, <3>3, <3>4, <3>5, <3>6
  <2> QED BY <2>1, <2>2, OnlyCommits
<1> QED BY <1>1, <1>2, CounterHolds, PTL DEF Spec, KeepsPromise, OnShelf!Spec

=============================================================================
