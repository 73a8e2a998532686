------------------------------ MODULE History ------------------------------
(***************************************************************************)
(* Books that start late: the shop trades with auto-posting off, and the   *)
(* past enters the journal either document by document, when the operator  *)
(* replays it (core/gl_replay.py, scripts/replay_gl_history.py), or as one *)
(* snapshot of the stock and the debts (coa_seed.post_opening_balances),   *)
(* while months and years are closed and opened again (core/period_close)  *)
(* and the rows the past is read from go on being edited.                  *)
(*                                                                         *)
(* `docs` is what the tables and the inventory ledger keep of the past, in *)
(* the order it was written down; its field `lines` is history: what the   *)
(* document posts if auto-posting is on that day.  Of a date only the year *)
(* is kept, and of the months of a year whether one of them is open.       *)
(***************************************************************************)
EXTENDS Mappers, FiniteSets, FiniteSetsExt

CONSTANTS
  Stock,       \* units of the catalogue on the shelf at the start
  Workshop,    \* pieces, by name: [karat, grams, cost]
  Casts,       \* what an admin may say a molten one weighs: [karat, grams]
  Edits,       \* what their rows may be edited to: [karat, grams, stone]
  Carts, Discounts, VatRates,
  Deliveries,  \* what is due, in dollars and grams, and the goods: lots, units and pieces
  Scraps,
  Expenditures, \* amounts of manual entries
  Years,       \* the years of the run are 1..Years
  Sizes,       \* bounds, of which a run keeps to one: documents, documents where
               \* one is not a sale or its return, entries of the office, manual ones
  MaxOpenings, \* bound on the opening entries
  MaxSwitches  \* bound on the changes of settings and catalogue rows and the months opened by hand

ByKarat == [KaratSet -> Nat]
LotSet == [karat : KaratSet, grams : Nat, cost : Nat]
Items == Seq([unit : DOMAIN Stock, qty : Nat])
ASSUME StartAssumption ==
  /\ Years \in Nat \ {0}
  /\ Stock \in [DOMAIN Stock -> Nat] /\ DOMAIN Stock \subseteq DOMAIN Catalogue /\ IsFiniteSet(DOMAIN Stock)
  /\ IsFiniteSet(DOMAIN Workshop)
  /\ \A p \in DOMAIN Workshop : Workshop[p] \in [karat : KaratSet, grams : Nat, cost : Nat]
ASSUME RateAssumption ==
  /\ VatRates \cup Discounts \subseteq 0..100
  /\ \E high \in VatRates : \A rate \in VatRates : rate <= high
ASSUME SaleAssumption == Carts \subseteq Items
\* Something is due for a delivery, and nothing of it is paid in gold on the day.
ASSUME GoldAssumption ==
  /\ Casts \subseteq [karat : KaratSet, grams : Nat]
  /\ Edits \subseteq [karat : KaratSet, grams : Nat, stone : Nat]
  /\ Deliveries \subseteq [due : Nat, paid : Nat, gold : ByKarat,
                          lots : Seq(LotSet), units : Items, pieces : SUBSET DOMAIN Workshop]
  /\ \A p \in Deliveries : p.paid <= p.due /\ (p.due > 0 \/ \E k \in KaratSet : p.gold[k] > 0)
  /\ Scraps \subseteq LotSet
  /\ Expenditures \subseteq Nat

VARIABLES year, vat, autoPost,
          orders, docs, units, pieces, lots, owed,
          journal,
          closings,   \* the years of the YEAR_CLOSE entries, in order of writing
          period,     \* of a year: no month has a row, one is open, or all that there are are closed
          reopened,   \* history: closed years that have had an open month since
          fresh,      \* history: nothing happened since the last replay
          edited,     \* history: pieces whose row was edited
          switches

settings == <<vat, autoPost>>
shop == <<orders, docs, units, pieces, lots, owed>>
calendar == <<period, reopened>>
vars == <<year, settings, shop, journal, closings, calendar, fresh, edited, switches>>

Posted(j, source) == \E e \in Range(j) : e.source = source
EntryOf(j, source) == CHOOSE e \in Range(j) : e.source = source
Closed == Range(closings)
----------------------------------------------------------------------------
(* Writing a document in the journal. *)

\* `by` says who writes: the handler, or the replay, and then whether it lists
\* the document as posted from today's master data.  `sale` is the sale that
\* the document undoes, if it undoes one.
Step(by, when, source, sale, lines) ==
  [by |-> by, year |-> when, source |-> source, sale |-> sale, lines |-> lines]

\* A mapper writes nothing for a document it wrote before, for what undoes a
\* sale that is not in the journal or is reversed there, or for no lines.  The
\* reversal of a sale is made of the sale's own entry.
Book(j, step) ==
  LET lines == IF step.source[1] = "VOID" THEN Negated(EntryOf(j, step.sale).lines) ELSE step.lines
      entry == [year |-> step.year, source |-> step.source, lines |-> lines,
                by |-> step.by, upto |-> Len(docs)]
  IN  IF \/ Posted(j, step.source)
         \/ step.sale # <<>> /\ (~Posted(j, step.sale) \/ Posted(j, <<"VOID", step.sale[2]>>))
         \/ step.source[1] # "VOID" /\ step.lines = <<>>
      THEN j ELSE Append(j, entry)

\* A year has an open month, or one that has no row yet: the close of a year
\* makes all twelve rows of the next.
HasMonth(y) == period[y] = "OPEN" \/ y - 1 \notin Closed

\* The journal goes on to `new`.  An entry needs an open month; one that has no
\* row is opened for it, whatever became of its year.
Enter(new) ==
  LET years == {new[i].year : i \in (Len(journal) + 1)..Len(new)} IN
  /\ \A y \in years : HasMonth(y)
  /\ journal' = new
  /\ period' = [y \in DOMAIN period |-> IF y \in years THEN "OPEN" ELSE period[y]]

Watched(closed) == reopened' = reopened \cup {y \in closed : period'[y] = "OPEN"}
Live(step) == Enter(IF autoPost THEN Book(journal, step) ELSE journal) /\ Watched(Closed)

\* A sale can come back twice; gold documents meet in the sums only, and fewer
\* are enough for that.
Returns == {"ORDER", "ORDER_REFUND", "VOID"}
Mixed == \E d \in Range(docs) : d.source[1] \notin Returns
OfficeKinds == {"OPENING", "MANUAL", "YEAR_CLOSE"}
Entered(kinds) == Cardinality({i \in DOMAIN journal : journal[i].source[1] \in kinds})
Room(n, mixed, office, manual) ==
  \E z \in Sizes : /\ n <= z.docs /\ (mixed => n <= z.mixed)
                  /\ Entered(OfficeKinds) + office <= z.office
                  /\ Entered({"MANUAL"}) + manual <= z.manual

\* The end of a handler: the document is kept whatever the flag says.
Record(when, doc, source, sale, lines) ==
  /\ Room(Len(docs) + 1, Mixed \/ source[1] \notin Returns, 0, 0)
  /\ docs' = Append(docs, [year |-> when, source |-> source, lines |-> lines, of |-> doc])
  /\ Live(Step("LIVE", when, source, sale, lines))
  /\ fresh' = FALSE
  /\ UNCHANGED <<year, settings, closings, edited, switches>>
----------------------------------------------------------------------------
(* The shop. *)

Shelved(items, sign) ==
  [u \in DOMAIN units |-> units[u] + sign * Total(items, LAMBDA it : IF it.unit = u THEN it.qty ELSE 0)]
Lot(karat, grams, cost) == [karat |-> karat, grams |-> grams, cost |-> cost]

\* POST /orders.
Sell(cart, percent) ==
  LET n == Len(orders) + 1
      o == NewOrder(cart, "CASH", percent, vat)
  IN  /\ \A i \in DOMAIN cart : cart[i].qty <= units[cart[i].unit]
      /\ orders' = Append(orders, o)
      /\ units' = Shelved(cart, -1)
      /\ Record(year, [n |-> n], <<"ORDER", n>>, <<>>, SaleLines(o))
      /\ UNCHANGED <<pieces, lots, owed>>

\* POST /orders/{id}/items/{id}/refund: the event on the inventory ledger holds
\* the units of this refund and of all of them.
RefundItem(n, i, qty) ==
  LET o == orders[n]
      left == Refunded(o, i, qty, vat)
  IN  /\ o.status \in {"COMPLETED", "PARTIALLY_REFUNDED"}
      /\ qty \in 1..(o.items[i].qty - o.items[i].refunded)
      /\ orders' = [orders EXCEPT ![n] = left]
      /\ units' = [units EXCEPT ![o.items[i].unit] = @ + qty]
      /\ Record(year, [n |-> n, i |-> i, qty |-> qty, handed |-> o.total - left.total],
                <<"ORDER_REFUND", n, i, left.items[i].refunded>>, <<"ORDER", n>>,
                RefundLines(left, i, qty, vat))
      /\ UNCHANGED <<pieces, lots, owed>>

\* POST /orders/{id}/void puts the stock back and is dated; /orders/{id}/refund
\* changes the status and nothing else.
Void(n) ==
  /\ orders[n].status = "COMPLETED"
  /\ orders' = [orders EXCEPT ![n].status = "VOIDED"]
  /\ units' = Shelved(orders[n].items, 1)
  /\ Record(year, [n |-> n], <<"VOID", n>>, <<"ORDER", n>>, <<>>)
  /\ UNCHANGED <<pieces, lots, owed>>
RefundOrder(n) ==
  /\ orders[n].status = "COMPLETED"
  /\ orders' = [orders EXCEPT ![n].status = "REFUNDED"]
  /\ Live(Step("LIVE", year, <<"VOID", n>>, <<"ORDER", n>>, <<>>))
  /\ fresh' = FALSE
  /\ UNCHANGED <<year, settings, docs, units, pieces, lots, owed, closings, edited, switches>>

\* POST /melts: the event says what came out, and which of karat and weight the
\* admin overrode, not what went in.
Melt(p, cast, karatToo, weightToo) ==
  LET from == pieces[p]
      to == [karat |-> IF karatToo THEN cast.karat ELSE from.karat,
             grams |-> IF weightToo THEN cast.grams ELSE from.grams]
  IN  /\ from.status = "HERE"
      /\ pieces' = [pieces EXCEPT ![p].status = "MELTED"]
      /\ lots' = Append(lots, Lot(to.karat, to.grams, from.cost))
      /\ Record(year, [p |-> p, to |-> to, cost |-> from.cost, karatToo |-> karatToo, weightToo |-> weightToo],
                <<"MELT", p>>, <<>>, MeltLines(from, to, from.cost))
      /\ UNCHANGED <<orders, units, owed>>

\* Buybacks, and lots written off in whole.
BuyBack(s) ==
  /\ lots' = Append(lots, Lot(s.karat, s.grams, s.cost))
  /\ Record(year, s, <<"BUYBACK", Len(docs)>>, <<>>, BuyBackLines(s))
  /\ UNCHANGED <<orders, units, pieces, owed>>
WriteOff(i) ==
  /\ lots[i].grams > 0
  /\ lots' = RemoveAt(lots, i)
  /\ Record(year, lots[i], <<"ADJUSTMENT", Len(docs)>>, <<>>, WriteOffLines(lots[i]))
  /\ UNCHANGED <<orders, units, pieces, owed>>

\* What the mapper makes of a delivery: the stones by the rows of the pieces as
\* they are now, the gold by what its lots cost.
Billed(p) ==
  [due |-> p.due, paid |-> p.paid, stone |-> SumFunction([n \in p.pieces |-> pieces[n].stone]),
   gold |-> p.gold, drawn |-> [k \in KaratSet |-> 0],
   worth |-> [k \in KaratSet |-> Total(p.lots, LAMBDA l : IF l.karat = k THEN l.cost ELSE 0)]]

\* POST /suppliers/{id}/purchases, dated back or today: the goods are put on
\* the shelf for money, for gold owed or for both.
Deliver(p, when) ==
  /\ \A n \in p.pieces : pieces[n].status = "AWAY"
  /\ pieces' = [n \in DOMAIN pieces |-> IF n \in p.pieces THEN [pieces[n] EXCEPT !.status = "HERE"] ELSE pieces[n]]
  /\ units' = Shelved(p.units, 1)
  /\ lots' = lots \o p.lots
  /\ owed' = [u \in DOMAIN owed |-> owed[u] + IF u = "CASH" THEN p.due - p.paid ELSE p.gold[u]]
  /\ Record(when, p, <<"SUPPLIER_PURCHASE", Len(docs)>>, <<>>, DeliveryLines(Billed(p)))
  /\ UNCHANGED orders

\* PATCH /products/{id} has no guard: the row of a melted piece changes too.
EditPiece(p, row) ==
  /\ switches < MaxSwitches /\ switches' = switches + 1
  /\ pieces[p].status # "AWAY"
  /\ pieces' = [pieces EXCEPT ![p].karat = row.karat, ![p].grams = row.grams, ![p].stone = row.stone]
  /\ pieces' # pieces
  /\ edited' = edited \cup {p} /\ fresh' = FALSE
  /\ UNCHANGED <<year, settings, orders, docs, units, lots, owed, journal, closings, calendar>>

\* PATCH /settings: auto-posting is not switched on in a closed month.
ChangeSettings(flag, rate) ==
  /\ switches < MaxSwitches /\ switches' = switches + 1
  /\ <<flag, rate>> # <<autoPost, vat>>
  /\ flag /\ ~autoPost => HasMonth(year)
  /\ autoPost' = flag /\ vat' = rate
  /\ UNCHANGED <<year, shop, journal, closings, calendar, fresh, edited>>
----------------------------------------------------------------------------
(* The replay. *)

\* The order as it was sold: a line refund overwrites the header with what is
\* left, so it is computed again from the lines.
\* Mutant: the header as it stands.
AsItStands(o) == o
AsSold(o) ==
  IF \A i \in DOMAIN o.items : o.items[i].refunded = 0 THEN o
  ELSE LET subtotal == Total(o.items, LAMBDA it : Unit(it).price * it.qty)
           tax == Percent(subtotal, o.vatPercent)
           discount == Percent(subtotal, o.percent)
       IN  [o EXCEPT !.subtotal = subtotal, !.vat = tax, !.discount = discount,
                     !.total = subtotal + tax - discount]

\* A dimension that was not overridden went in as it came out; one that was is
\* read from the product as it is now.
MeltedFrom(d) ==
  [karat |-> IF d.of.karatToo THEN pieces[d.of.p].karat ELSE d.of.to.karat,
   grams |-> IF d.of.weightToo THEN pieces[d.of.p].grams ELSE d.of.to.grams]

\* A whole refund has no date: it is booked with its sale.
Undated(n) ==
  /\ orders[n].status = "REFUNDED"
  /\ \A i \in DOMAIN orders[n].items : orders[n].items[i].refunded = 0

SaleStep(d) == Step("REPLAY", d.year, d.source, <<>>, SaleLines(AsSold(orders[d.of.n])))
ReversalStep(d) == Step("REPLAY", d.year, <<"VOID", d.of.n>>, <<"ORDER", d.of.n>>, <<>>)
\* One step to an event, at the VAT rate of the order.
RefundStep(d) ==
  LET o == orders[d.of.n] IN
  Step("REPLAY", d.year, d.source, <<"ORDER", d.of.n>>, RefundLines(AsSold(o), d.of.i, d.of.qty, o.vatPercent))

\* Documents whose entry takes a value from the master data of today.
Overridden(d) == d.source[1] = "MELT" /\ (d.of.karatToo \/ d.of.weightToo)
Split(d) == d.source[1] = "SUPPLIER_PURCHASE" /\ d.of.due > 0 /\ \E n \in d.of.pieces : pieces[n].stone # 0
Listing(d) == IF Overridden(d) \/ Split(d) THEN "LISTED" ELSE "REPLAY"

\* Every other document is a row that nobody edits, handed to its mapper.
StepsOf(d) ==
  CASE d.source[1] = "ORDER" -> <<SaleStep(d)>> \o When(Undated(d.of.n), ReversalStep(d))
    [] d.source[1] = "ORDER_REFUND" -> <<RefundStep(d)>>
    [] d.source[1] = "VOID" -> <<ReversalStep(d)>>
    [] OTHER ->
         <<Step(Listing(d), d.year, d.source, <<>>,
                CASE d.source[1] = "MELT" -> MeltLines(MeltedFrom(d), d.of.to, d.of.cost)
                  [] d.source[1] = "SUPPLIER_PURCHASE" -> DeliveryLines(Billed(d.of))
                  [] d.source[1] = "BUYBACK" -> BuyBackLines(d.of)
                  [] d.source[1] = "ADJUSTMENT" -> WriteOffLines(d.of))>>

\* In order of date: year by year, and as written down within a year.
StepsOfYear(y, from) ==
  FlattenSeq([i \in 1..(Len(docs) - from) |->
                IF docs[from + i].year = y THEN StepsOf(docs[from + i]) ELSE <<>>])
Replayed(from) ==
  LET steps == FlattenSeq([y \in 1..Years |-> StepsOfYear(y, from)])
      books[i \in 0..Len(steps)] == IF i = 0 THEN journal ELSE Book(books[i - 1], steps[i])
  IN  books[Len(steps)]

\* The two refusals.  Mutants: they were left out.
AnyYear(entries) == TRUE
ClosedYearsLeftAlone(entries) == \A i \in DOMAIN entries : entries[i].year \notin Closed
OnAnyBooks == TRUE
NoOpening == ~Posted(journal, <<"OPENING">>)

\* scripts/replay_gl_history --execute: one transaction, all of it or nothing.
ReplayHistory ==
  /\ NoOpening
  /\ \E new \in {Replayed(0)} :
      LET entries == SubSeq(new, Len(journal) + 1, Len(new)) IN
      /\ ClosedYearsLeftAlone(entries)
      /\ \A i \in DOMAIN entries : Valid(entries[i].lines)
      /\ Enter(new)
      /\ fresh' = TRUE
      /\ UNCHANGED <<year, settings, shop, closings, reopened, edited, switches>>
----------------------------------------------------------------------------
(* The opening entry, manual entries, and the closing entries. *)

Openings == Cardinality({i \in DOMAIN journal : journal[i].source = <<"OPENING">>})
OfficeEntry(when, source, lines) ==
  [year |-> when, source |-> source, lines |-> lines, by |-> "LIVE", upto |-> Len(docs)]

\* Gold on the shelf: lots, pieces and units.
InLots(k, f(_)) == Total(lots, LAMBDA l : IF l.karat = k THEN f(l) ELSE 0)
Whole(k) == {p \in DOMAIN pieces : pieces[p].status = "HERE" /\ pieces[p].karat = k}
InUnits(k, n) ==
  SumFunction([u \in DOMAIN n |-> IF Catalogue[u].karat = k THEN n[u] * Catalogue[u].grams ELSE 0])
OnShelf(k) ==
  InLots(k, LAMBDA l : l.grams) + SumFunction([p \in Whole(k) |-> pieces[p].grams]) + InUnits(k, units)
\* A coin or an ounce has no cost of its own and is taken in at none.
Worth(k) ==
  InLots(k, LAMBDA l : l.cost) + SumFunction([p \in Whole(k) |-> pieces[p].cost])

\* POST /accounting/opening-balances: a snapshot against the owner's equity,
\* whatever is in the journal already, and in whichever month is open.
PostOpening(when) ==
  LET money == Total(Karats, Worth) - owed["CASH"]
      lines == FlattenSeq([i \in DOMAIN Karats |->
                 LET k == Karats[i] IN
                   When(OnShelf(k) # 0, Metal("METAL_INVENTORY", Worth(k), OnShelf(k), k))
                   \o When(owed[k] # 0, Metal("METAL_AP", 0, -owed[k], k))
                   \o When(OnShelf(k) # owed[k], Metal("OPENING_BALANCE_EQUITY", 0, owed[k] - OnShelf(k), k))])
               \o When(owed["CASH"] # 0, Usd("AP", -owed["CASH"]))
               \o When(money # 0, Usd("OPENING_BALANCE_EQUITY", -money))
  IN  /\ Openings < MaxOpenings /\ Room(Len(docs), Mixed, 1, 0)
      /\ period[when] = "OPEN" /\ Valid(lines)
      /\ journal' = Append(journal, OfficeEntry(when, <<"OPENING">>, lines))
      /\ fresh' = FALSE
      /\ UNCHANGED <<year, settings, shop, closings, calendar, edited, switches>>

\* POST /accounting/journal-entries, with any date in an open month: rent.
PostManual(when, amount) ==
  /\ Room(Len(docs), Mixed, 1, 1)
  /\ period[when] = "OPEN"
  /\ journal' = Append(journal, OfficeEntry(when, <<"MANUAL", Len(journal)>>,
                                            <<Usd("RENT_EXPENSE", amount), Usd("CASH", -amount)>>))
  /\ UNCHANGED <<year, settings, shop, closings, calendar, fresh, edited, switches>>

\* POST /periods for a month that has no row, or /periods/{id}/reopen: neither
\* asks whether the year is closed.
OpenMonth(y) ==
  /\ switches < MaxSwitches /\ switches' = switches + 1
  /\ period[y] # "OPEN"
  /\ period' = [period EXCEPT ![y] = "OPEN"] /\ Watched(Closed)
  /\ UNCHANGED <<year, settings, shop, journal, closings, fresh, edited>>

\* POST /periods/{id}/close, for each open month of a year, the oldest first.
CloseMonths(y) ==
  /\ period[y] = "OPEN" /\ \A z \in 1..(y - 1) : period[z] # "OPEN"
  /\ period' = [period EXCEPT ![y] = "CLOSED"]
  /\ UNCHANGED <<year, settings, shop, journal, closings, reopened, fresh, edited, switches>>

\* The accounts that are closed, in the order of their codes.
Nominal == <<"METAL_COGS", "STONE_COGS", "RENT_EXPENSE", "ADJUSTMENT_EXPENSE", "FX_LOSS",
             "SALES_REVENUE", "SALES_DISCOUNTS", "MAKING_CHARGE_REVENUE", "FX_GAIN">>
Dated(j) == [i \in DOMAIN j |-> [day |-> j[i].year, lines |-> j[i].lines]]

\* POST /periods/close-year: the result up to the end of the year goes to
\* retained earnings, in a month that is closed, and the months that the next
\* year lacks are opened, whether or not it is closed.
CloseYear(y) ==
  LET past == Dated(journal)
      due == [acct \in Income \cup Expenses |-> Net(past, 1..y, {acct})]
      result == Net(past, 1..y, Income \cup Expenses)
      closing == FlattenSeq([i \in DOMAIN Nominal |->
                   When(due[Nominal[i]] # 0, Usd(Nominal[i], -due[Nominal[i]]))])
                 \o When(result # 0, Usd("RETAINED_EARNINGS", result))
  IN  /\ Room(Len(docs), Mixed, 1, 0)
      /\ period[y] = "CLOSED" /\ y \notin Closed
      /\ \E lines \in {closing} \ {<<>>} :
           journal' = Append(journal, OfficeEntry(y, <<"YEAR_CLOSE", y>>, lines))
      /\ closings' = Append(closings, y)
      /\ \E next \in {"OPEN", "CLOSED"} :
           /\ y < Years => next \in {"OPEN", period[y + 1]}
           /\ period' = [z \in DOMAIN period |-> IF z = y + 1 THEN next ELSE period[z]]
      /\ Watched(Closed \cup {y})
      /\ UNCHANGED <<year, settings, shop, fresh, edited, switches>>

NextYear ==
  /\ year < Years /\ year' = year + 1
  /\ UNCHANGED <<settings, shop, journal, closings, calendar, fresh, edited, switches>>
----------------------------------------------------------------------------
\* Pieces that a supplier brings; the others are there at the start.
Bought == UNION {p.pieces : p \in Deliveries}
Init ==
  /\ year = 1 /\ vat = Max(VatRates) /\ autoPost \in BOOLEAN
  /\ orders = <<>> /\ docs = <<>> /\ units = Stock /\ lots = <<>>
  /\ pieces = [p \in DOMAIN Workshop |->
                 [karat |-> Workshop[p].karat, grams |-> Workshop[p].grams, cost |-> Workshop[p].cost, stone |-> 0,
                  status |-> IF p \in Bought THEN "AWAY" ELSE "HERE"]]
  /\ owed = [u \in {"CASH"} \cup KaratSet |-> 0]
  /\ journal = <<>> /\ closings = <<>>
  /\ period = [y \in 1..Years |-> "NONE"] /\ reopened = {}
  /\ fresh = FALSE /\ edited = {} /\ switches = 0

Trade ==
  \/ \E cart \in Carts, percent \in Discounts : Sell(cart, percent)
  \/ \E n \in DOMAIN orders : \E i \in DOMAIN orders[n].items :
       \E qty \in 1..orders[n].items[i].qty : RefundItem(n, i, qty)
  \/ \E n \in DOMAIN orders : Void(n) \/ RefundOrder(n)
Gold ==
  \/ \E p \in DOMAIN pieces, cast \in Casts, karatToo, weightToo \in BOOLEAN :
       Melt(p, cast, karatToo, weightToo)
  \/ \E s \in Scraps : BuyBack(s)
  \/ \E p \in Deliveries, when \in 1..year : Deliver(p, when)
  \/ \E i \in DOMAIN lots : WriteOff(i)
Office ==
  \/ \E p \in DOMAIN pieces, row \in Edits : EditPiece(p, row)
  \/ \E flag \in BOOLEAN, rate \in VatRates : ChangeSettings(flag, rate)
  \/ \E when \in 1..year : PostOpening(when)
  \/ \E when \in 1..year, amount \in Expenditures : PostManual(when, amount)
  \/ \E y \in 1..year : OpenMonth(y) \/ CloseMonths(y) \/ CloseYear(y)
  \/ ReplayHistory
\* The last year is there to close the others in, and to replay them: no
\* document is dated in it.
Next ==
  \/ year < Years /\ Trade
  \/ year < Years /\ Gold
  \/ Office
  \/ NextYear

Spec == Init /\ [][Next]_vars
----------------------------------------------------------------------------
(* Properties. *)

Within(amount, cents) == -cents <= amount /\ amount <= cents
Cash(lines) == Total(lines, LAMBDA l : IF l.acct = "CASH" THEN l.base ELSE 0)
Grams(lines) == SelectSeq(lines, LAMBDA l : l.grams # 0)
Goods == {"PRODUCT_INVENTORY", "STONE_INVENTORY"}
OfGoods(lines) == Total(lines, LAMBDA l : IF l.acct \in Goods THEN l.base ELSE 0)
Others(lines) == SelectSeq(lines, LAMBDA l : l.acct \notin Goods)
Resulting(lines) == SubSeq(lines, 3, 4)

\* What the replay writes for a document, months later, from rows that went on
\* changing, is what the document posts on its own day: the same entry in the
\* same year, and for a line refund the same gold and the cash the customer
\* got, whatever the VAT rate, the header of the order and the refunds that
\* followed have become.  A document that the replay lists as posted from
\* today's master data may differ from its day, and no other: a delivery in
\* what of its price is put down to stones, and a melt with an override, once
\* the row of the piece was edited, in what went into the pot.  After a replay
\* nothing is missing but, for such a row, a melt; and a second one finds
\* nothing to post.
SameAsOnTheDay(e, d) ==
  CASE d.source[1] = "ORDER_REFUND" -> Grams(e.lines) = Grams(d.lines) /\ Within(Cash(e.lines) + d.of.handed, 3)
    [] d.source[1] = "VOID" -> e.lines = Negated(EntryOf(journal, <<"ORDER", d.of.n>>).lines)
    [] OTHER -> e.lines = d.lines
SameButForToday(e, d) ==
  IF d.source[1] = "MELT"
  THEN /\ d.of.p \notin edited => e.lines = d.lines
       /\ d.lines # <<>> => Resulting(e.lines) = Resulting(d.lines)
  ELSE Others(e.lines) = Others(d.lines) /\ OfGoods(e.lines) = OfGoods(d.lines)
ReplayFaithful ==
  /\ \A e \in Range(journal), d \in Range(docs) :
       e.by # "LIVE" /\ e.source = d.source
         => /\ e.year = d.year
            /\ IF e.by = "LISTED" THEN SameButForToday(e, d) ELSE SameAsOnTheDay(e, d)
  /\ fresh => /\ \A d \in Range(docs) : (d.lines # <<>> \/ d.source[1] = "VOID")
                   => Posted(journal, d.source) \/ (Overridden(d) /\ d.of.p \in edited)
              /\ Replayed(0) = journal

\* Years closed in their order stay settled, as long as no month of theirs is
\* opened again: their result is in retained earnings, and no later document,
\* manual entry, opening entry, close or replay changes it.  Exceptions, which
\* nothing refuses: a year closed before an earlier one, and a year one of
\* whose months was opened again, by hand, by a document dated in a month that
\* had no row, or by the close of the year before.
SettledBooksKept ==
  \A i \in DOMAIN closings :
    (\A j \in 1..i : closings[j] = j /\ j \notin reopened)
      => \A acct \in Income \cup Expenses : Net(Dated(journal), 1..i, {acct}) = 0

Opened == Posted(journal, <<"OPENING">>)
OpenedAt == CHOOSE i \in DOMAIN journal : journal[i].source = <<"OPENING">>
\* Documents the opening stands for.
Before == IF Opened THEN journal[OpenedAt].upto ELSE 0
\* The opening was written onto entries of documents, or next to another
\* opening, which nothing refuses.
Overlapping ==
  Opened /\ (Openings > 1 \/ \E i \in 1..(OpenedAt - 1) : journal[i].source[1] \notin OfficeKinds)
\* A sale from before the opening came back: the goods are on the shelf, and
\* there is no entry to reverse.
CameBack ==
  \E d \in Range(docs) : d.source[1] \in {"ORDER_REFUND", "VOID"}
    /\ \E j \in 1..Before : docs[j].source = <<"ORDER", d.of.n>>

Ware(names, k) == SumFunction([p \in {q \in names : Workshop[q].karat = k} |-> Workshop[p].grams])
\* Gold on the shelf at the start, which no document and no opening brought.
Unopened(k) == IF Opened THEN 0 ELSE InUnits(k, Stock) + Ware(DOMAIN Workshop \ Bought, k)
\* Gold delivered and not owed: goods for money have a price in the books and no grams.
Unweighed(k) ==
  Total([i \in 1..(Len(docs) - Before) |-> docs[Before + i]],
        LAMBDA d : IF d.source[1] # "SUPPLIER_PURCHASE" THEN 0
                   ELSE Total(d.of.lots, LAMBDA l : IF l.karat = k THEN l.grams ELSE 0)
                        + Total(d.of.units, LAMBDA it : IF Unit(it).karat = k THEN it.qty * Unit(it).grams ELSE 0)
                        + Ware(d.of.pieces, k) - d.of.gold[k])

\* The gold in the books is the gold on the shelf, but for what was there
\* before the first document and what was delivered and is not owed in gold;
\* and the gold owed is the suppliers' balance: whenever the past is in the
\* books once, by its documents or by an opening entry and the documents since.
\* Exceptions: an opening onto books that are not empty, a sale from before it
\* that came back, a whole refund, which reverses the entry and leaves the
\* stock, and pieces edited by hand.
BooksMatchShelf ==
  (Overlapping \/ CameBack \/ edited # {} \/ (\E n \in DOMAIN orders : Undated(n))
     \/ Replayed(Before) # journal)
  \/ \A k \in KaratSet :
       /\ NetGrams(Dated(journal), 1..Years, "METAL_INVENTORY", k) = OnShelf(k) - Unopened(k) - Unweighed(k)
       /\ NetGrams(Dated(journal), 1..Years, "METAL_AP", k) = -owed[k]
=============================================================================
