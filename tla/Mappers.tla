------------------------------ MODULE Mappers ------------------------------
(***************************************************************************)
(* What a document of the shop says in the journal: the mappers of         *)
(* core/gl_postings.py, as lines of a document, and the totals of an order *)
(* they read.  Postings calls them from the handlers that build the        *)
(* documents, and History once more for documents that are long built.     *)
(***************************************************************************)
EXTENDS Journal, SequencesExt

CONSTANT Catalogue   \* what is sold: [karat, grams, price, making, stone, cost, per] by unit

KaratSet == {"K18", "K21"}
ASSUME CatalogueAssumption ==
  /\ \A u \in DOMAIN Catalogue :
       Catalogue[u] \in [karat : KaratSet, grams : Nat, price : Nat, making : Nat, stone : Nat,
                         cost : Nat, per : Nat \ {0}]
  /\ NONE \notin KaratSet
Percent(amount, rate) == HalfEven(amount * rate, 100)
----------------------------------------------------------------------------
(* Sales and what undoes them. *)

Unit(it) == Catalogue[it.unit]
\* Mutant: the cost of the line instead of the units refunded.
LineCost(it, qty) == HalfEven(Unit(it).cost * it.qty, Unit(it).per)
\* The tracked cost of a product, or the gold in a coin or an ounce at the rate.
Cost(it, qty) == HalfEven(Unit(it).cost * qty, Unit(it).per)
Till(pay) ==
  CASE pay = "CREDIT" -> "AR" [] pay = "CARD" -> "CREDIT_CARD_CLEARING" [] pay = "CASH" -> "CASH"

\* VAT is charged before the discount.  `handed` is the cash the refunds gave
\* back; `retaxed` is history: one of them was taxed at another rate.
NewOrder(cart, pay, percent, rate) ==
  LET subtotal == Total(cart, LAMBDA it : Unit(it).price * it.qty)
      tax == Percent(subtotal, rate)
      discount == Percent(subtotal, percent)
  IN  [pay |-> pay, status |-> "COMPLETED", vatPercent |-> rate, percent |-> percent,
       items |-> [i \in DOMAIN cart |-> [unit |-> cart[i].unit, qty |-> cart[i].qty, refunded |-> 0]],
       subtotal |-> subtotal, vat |-> tax, discount |-> discount,
       total |-> subtotal + tax - discount, handed |-> 0, retaxed |-> FALSE]

SoldMetal(items, k) ==
  LET cost == Total(items, LAMBDA it : IF Unit(it).karat = k THEN Cost(it, it.qty) ELSE 0)
      grams == Total(items, LAMBDA it : IF Unit(it).karat = k THEN Unit(it).grams * it.qty ELSE 0)
  IN  IF \E i \in DOMAIN items : Unit(items[i]).karat = k
      THEN <<Metal("METAL_COGS", cost, grams, k), Metal("METAL_INVENTORY", -cost, -grams, k)>>
      ELSE <<>>
Stones(stone) ==
  When(stone # 0, Usd("STONE_COGS", stone)) \o When(stone # 0, Usd("STONE_INVENTORY", -stone))

\* Mutant: the discount is given to the customer and not to the books.
NotAllowed(o) == <<>>
Allowed(o) == When(o.discount > 0, Usd("SALES_DISCOUNTS", o.discount))

SaleLines(o) ==
  LET making == Total(o.items, LAMBDA it : Unit(it).making * it.qty)
  IN  <<Usd(Till(o.pay), o.total), Usd("SALES_REVENUE", making - o.subtotal)>>
      \o When(making > 0, Usd("MAKING_CHARGE_REVENUE", -making))
      \o When(o.vat > 0, Usd("VAT_PAYABLE", -o.vat))
      \o Allowed(o)
      \o FlattenSeq([i \in DOMAIN Karats |-> SoldMetal(o.items, Karats[i])])
      \o Stones(Total(o.items, LAMBDA it : Unit(it).stone * it.qty))

Remaining(items) == Total(items, LAMBDA it : Unit(it).price * (it.qty - it.refunded))

\* The totals are computed again from what is left, under the order's own
\* percentages, before the entry is written.
Refunded(o, i, qty, rate) ==
  LET items == [o.items EXCEPT ![i].refunded = @ + qty]
      subtotal == Remaining(items)
      tax == Percent(subtotal, o.vatPercent)
      discount == Percent(subtotal, o.percent)
      total == subtotal + tax - discount
  IN  [o EXCEPT !.items = items, !.subtotal = subtotal, !.vat = tax, !.discount = discount,
                !.total = total, !.handed = @ + o.total - total,
                !.retaxed = @ \/ rate # o.vatPercent,
                !.status = IF \A j \in DOMAIN items : items[j].refunded >= items[j].qty
                           THEN "REFUNDED" ELSE "PARTIALLY_REFUNDED"]

\* The part of the discount that goes with `value`, by what is left.
\* Mutant: the discount stays with the customer.
NoSlice(o, value) == 0
Slice(o, value) == IF o.subtotal > 0 THEN HalfEven(o.discount * value, o.subtotal) ELSE 0

\* One entry for the units refunded now.  The tax follows `rate`, the
\* discount the totals of the order as it is given, and the money leaves the cash account
\* however the sale was paid.
RefundLines(o, i, qty, rate) ==
  LET it == o.items[i]
      value == Unit(it).price * qty
      tax == Percent(value, rate)
      making == Unit(it).making * qty
      slice == Slice(o, value)
  IN  <<Usd("SALES_REVENUE", value - making), Usd("VAT_PAYABLE", tax)>>
      \o When(making > 0, Usd("MAKING_CHARGE_REVENUE", making))
      \o <<Usd("CASH", slice - value - tax),
           Metal("METAL_INVENTORY", Cost(it, qty), Unit(it).grams * qty, Unit(it).karat),
           Metal("METAL_COGS", -Cost(it, qty), -(Unit(it).grams * qty), Unit(it).karat)>>
      \o When(slice > 0, Usd("SALES_DISCOUNTS", -slice))
      \o Stones(-(Unit(it).stone * qty))

----------------------------------------------------------------------------
(* Suppliers and gold. *)

\* Of what the goods cost, the stones' part goes to its own account, and the
\* gold is worth what its items cost, in proportion to what is still owed.
DeliveryLines(p) ==
  LET stone == IF p.stone > p.due THEN 0 ELSE p.stone
      Gold(k) == p.gold[k] - p.drawn[k]
      worth(k) == HalfEven(p.worth[k] * Gold(k), p.gold[k])
  IN  When(p.due - stone > 0, Usd("PRODUCT_INVENTORY", p.due - stone))
      \o When(p.due > 0 /\ stone > 0, Usd("STONE_INVENTORY", stone))
      \o When(p.due - p.paid > 0, Usd("AP", p.paid - p.due))
      \o When(p.paid > 0, Usd("CASH", -p.paid))
      \o FlattenSeq([i \in DOMAIN Karats |->
           LET k == Karats[i] IN
           IF Gold(k) <= 0 THEN <<>>
           ELSE <<Metal("METAL_INVENTORY", worth(k), Gold(k), k),
                  Metal("METAL_AP", -worth(k), -Gold(k), k)>>])

\* Gold for money needs a counterpart for the grams: the clearing account.
BuyBackLines(s) ==
  <<Metal("METAL_INVENTORY", s.cost, s.grams, s.karat), Usd("CASH", -s.cost),
    Metal("METAL_CLEARING", 0, -s.grams, s.karat)>>
\* Gold of `s` becomes the karat and weight of `t`, or stays as it was.
MeltLines(s, t, cost) ==
  IF <<s.karat, s.grams>> = <<t.karat, t.grams>> THEN <<>>
  ELSE <<Metal("METAL_INVENTORY", -cost, -s.grams, s.karat), Metal("METAL_CLEARING", 0, s.grams, s.karat),
         Metal("METAL_INVENTORY", cost, t.grams, t.karat), Metal("METAL_CLEARING", 0, -t.grams, t.karat)>>
WriteOffLines(s) ==
  <<Usd("ADJUSTMENT_EXPENSE", s.cost), Metal("METAL_INVENTORY", -s.cost, -s.grams, s.karat),
    Metal("METAL_CLEARING", 0, s.grams, s.karat)>>
=============================================================================
