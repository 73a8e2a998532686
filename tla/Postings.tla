------------------------------ MODULE Postings ------------------------------
(***************************************************************************)
(* What each document of the shop writes in the books: the mappers of      *)
(* core/gl_postings.py (module Mappers), core/ar.py, core/expenses.py,     *)
(* core/gl_fx.py and core/bank.py, called at the end of the handlers that  *)
(* build the documents.  Auto-posting is on, every month is open, and the documents  *)
(* come one after the other: what concurrent requests do to one another is *)
(* the subject of the other modules, the amounts are the subject here.     *)
(*                                                                         *)
(* `orders`, `owed`, `bills` and `credits` are the subledgers the books    *)
(* are held against: orders with their lines, the suppliers' balances, the *)
(* invoices (side AR) and vendor bills (side VENDOR_AP), and what was      *)
(* received or paid beyond them.  There is one supplier, and one customer  *)
(* and one vendor for each currency.                                       *)
(***************************************************************************)
EXTENDS Mappers, FiniteSets, FiniteSetsExt

CONSTANTS
  Carts,       \* carts a customer brings: sequences of [unit, qty]
  Tills,       \* payment methods of sales
  Discounts,   \* percentages
  VatRates,    \* values of Settings.vat_percent
  FxRates,     \* LBP cents to the USD cent
  FxUnit,      \* a common multiple of the rates
  Deliveries,  \* from suppliers: [due, paid, stone] and, by karat, [gold, drawn, worth]
  Scraps,      \* gold bought back, melted or written off: [karat, grams, cost]
  Sums,        \* amounts invoiced, billed and transferred
  Amounts,     \* amounts paid and received
  Days,        \* the days of the run are 1..Days
  MaxEntries,  \* bound on the journal
  MaxMixed     \* bound on a journal of documents of several kinds

Tendered == {"CASH", "CASH_LBP"}
ByKarat == [KaratSet -> Nat]
ASSUME FxAssumption == FxUnit \in Nat \ {0} /\ \A r \in FxRates : r \in Nat \ {0} /\ FxUnit % r = 0
ASSUME RateAssumption == VatRates # {} /\ VatRates \cup Discounts \subseteq 0..100
ASSUME SaleAssumption ==
  /\ Carts \subseteq Seq([unit : DOMAIN Catalogue, qty : Nat])
  /\ Tills \subseteq {"CASH", "CARD", "CREDIT"}
ASSUME SupplyAssumption ==
  /\ Deliveries \subseteq [due : Nat, paid : Nat, stone : Nat, gold : ByKarat, drawn : ByKarat, worth : ByKarat]
  /\ Scraps \subseteq [karat : KaratSet, grams : Nat, cost : Nat]
ASSUME DaysAssumption == Days \in Nat \ {0}
ASSUME AmountAssumption == Sums \cup Amounts \subseteq Nat /\ NONE \notin Tendered

VARIABLES today, vat, journal, orders, owed, bills, credits,
          refused    \* history: kinds of documents post_entry answered 422 to

vars == <<today, vat, journal, orders, owed, bills, credits, refused>>

\* The lines of a document go through validate_balanced; a document whose
\* lines do not pass leaves nothing behind.
Post(source, lines, newOrders, newOwed, newBills, newCredits) ==
  /\ Len(journal) < MaxEntries
  /\ IF Valid(lines)
     THEN /\ journal' = Append(journal, [day |-> today, source |-> source, lines |-> lines])
          /\ orders' = newOrders /\ owed' = newOwed /\ bills' = newBills /\ credits' = newCredits
          /\ UNCHANGED refused
     ELSE /\ refused' = refused \cup {source[1]}
          /\ UNCHANGED <<journal, orders, owed, bills, credits>>
  /\ UNCHANGED <<today, vat>>
----------------------------------------------------------------------------
(* Sales, refunds and voids. *)

Bill(side, currency, rate, total, paid) ==
  [side |-> side, currency |-> currency, rate |-> rate, total |-> total, paid |-> paid]

\* POST /orders.  A sale on credit leaves an invoice too.
Sell(cart, pay, percent) ==
  LET o == NewOrder(cart, pay, percent, vat)
  IN  Post(<<"ORDER", Len(orders) + 1>>, SaleLines(o), Append(orders, o), owed,
           IF pay = "CREDIT" THEN Append(bills, Bill("AR", "USD", 1, o.total, 0)) ELSE bills, credits)

\* POST /orders/{id}/items/{id}/refund.
RefundItem(n, i, qty) ==
  LET o == orders[n]
      left == Refunded(o, i, qty, vat)
  IN  /\ o.status \in {"COMPLETED", "PARTIALLY_REFUNDED"}
      /\ qty \in 1..(o.items[i].qty - o.items[i].refunded)
      /\ Post(<<"ORDER_REFUND", n>>, RefundLines(left, i, qty, vat), [orders EXCEPT ![n] = left],
              owed, bills, credits)

\* POST /orders/{id}/void and /orders/{id}/refund: the sale's entry is reversed
\* today, and an invoice of the sale is left as it is.
Undo(n, status) ==
  LET sale == CHOOSE e \in Range(journal) : e.source = <<"ORDER", n>>
  IN  /\ orders[n].status = "COMPLETED"
      /\ Post(<<"VOID", n>>, Negated(sale.lines), [orders EXCEPT ![n].status = status],
              owed, bills, credits)
----------------------------------------------------------------------------
(* Suppliers and gold. *)

\* Mutant: what was paid on delivery is still owed.
OwedGross(p) == [owed EXCEPT !["CASH"] = @ + p.due]
Owing(p) ==
  [u \in DOMAIN owed |-> owed[u] + IF u = "CASH" THEN p.due - p.paid ELSE p.gold[u] - p.drawn[u]]

\* POST /suppliers/{id}/purchases.  A delivery wholly paid in gold posts nothing.
Deliver(p) ==
  /\ p.paid <= p.due /\ \A k \in KaratSet : p.drawn[k] <= p.gold[k]
  /\ DeliveryLines(p) # <<>>
  /\ Post(<<"SUPPLIER_PURCHASE">>, DeliveryLines(p), orders, Owing(p), bills, credits)

\* POST /suppliers/{id}/payments, in cash or in grams of a karat.
PaySupplier(unit, amount) ==
  LET lines == IF unit = "CASH" THEN <<Usd("AP", amount), Usd("CASH", -amount)>>
               ELSE <<Metal("METAL_AP", 0, amount, unit), Metal("METAL_INVENTORY", 0, -amount, unit)>>
  IN  /\ amount <= owed[unit]
      /\ Post(<<"SUPPLIER_PAYMENT">>, lines, orders, [owed EXCEPT ![unit] = @ - amount], bills, credits)

\* A document with no subledger here.
Plain(source, lines) == Post(source, lines, orders, owed, bills, credits)

\* POST /buybacks, /melts and /adjustments of a lot; gold that melted as it
\* was posts nothing.
BuyBack(s) == Plain(<<"BUYBACK">>, BuyBackLines(s))
Melt(s, t) == MeltLines(s, t, s.cost) # <<>> /\ Plain(<<"MELT">>, MeltLines(s, t, s.cost))
WriteOff(s) == Plain(<<"ADJUSTMENT">>, WriteOffLines(s))
----------------------------------------------------------------------------
(* Invoices, bills and settlements, in dollars or pounds. *)

Rates(currency) == IF currency = "USD" THEN {1} ELSE FxRates
Base(amount, rate) == HalfEven(amount, rate)
Foreign(acct, sign, amount, currency, rate) ==
  Line(acct, sign * Base(amount, rate), sign * amount, currency, 0, NONE)

\* POST /ar/invoices: the dollars are those of the parts.
Invoice(currency, amount, rate) ==
  LET tax == Percent(amount, vat)
      lines == <<Line("AR", Base(amount, rate) + Base(tax, rate), amount + tax, currency, 0, NONE),
                 Foreign("SALES_REVENUE", -1, amount, currency, rate)>>
               \o When(tax > 0, Foreign("VAT_PAYABLE", -1, tax, currency, rate))
  IN  Post(<<"AR_INVOICE">>, lines, orders, owed,
           Append(bills, Bill("AR", currency, rate, amount + tax, 0)), credits)

\* POST /expenses/bills, on credit or paid from the cash account `from`: the
\* dollars credited are those of the total, those debited those of the lines.
EnterBill(currency, amounts, rate, from) ==
  LET subtotal == Total(amounts, LAMBDA a : a)
      tax == Percent(subtotal, vat)
      source == IF currency = "USD" THEN <<"VENDOR_BILL">> ELSE <<"VENDOR_BILL_LBP">>
      lines == [i \in DOMAIN amounts |-> Foreign("RENT_EXPENSE", 1, amounts[i], currency, rate)]
               \o When(tax > 0, Foreign("VAT_RECEIVABLE", 1, tax, currency, rate))
               \o <<Foreign(IF from = NONE THEN "VENDOR_AP" ELSE from, -1, subtotal + tax, currency, rate)>>
  IN  Post(source, lines, orders, owed,
           Append(bills, Bill("VENDOR_AP", currency, rate, subtotal + tax,
                              IF from = NONE THEN 0 ELSE subtotal + tax)), credits)

Due(b) == b.total - b.paid
\* Oldest first among the documents of the customer or vendor.
Reached(side, currency, amount) ==
  [i \in DOMAIN bills |->
     LET Theirs(b) == IF b.side = side /\ b.currency = currency THEN Due(b) ELSE 0
         before == Total(SubSeq(bills, 1, i - 1), Theirs)
     IN  Max({0, Min({Theirs(bills[i]), amount - before})})]

\* The account is relieved at the rate each document was booked at, the money
\* counted at today's, and the difference is a gain or a loss.
SettlementLines(side, currency, amount, tender, rate) ==
  LET sign == IF side = "AR" THEN 1 ELSE -1
      applied == Reached(side, currency, amount)
      over == amount - Total(applied, LAMBDA a : a)
      control == FlattenSeq([i \in DOMAIN bills |->
                   When(applied[i] > 0, Foreign(side, -sign, applied[i], currency, bills[i].rate))])
                 \o When(over > 0, Foreign(side, -sign, over, currency, IF currency = "USD" THEN 1 ELSE rate))
      cash == IF tender = "CASH_LBP" THEN Foreign("CASH_LBP", sign, IF currency = "USD" THEN amount * rate ELSE amount,
                                                  "LBP", rate)
              ELSE Usd(tender, sign * amount)
      gap == Total(Append(control, cash), LAMBDA l : l.base)
  IN  Append(control, cash) \o When(gap < 0, Usd("FX_LOSS", -gap)) \o When(gap > 0, Usd("FX_GAIN", -gap))

\* POST /ar/receipts and /expenses/payments.  Pounds are not settled in
\* dollars, and what is left over is kept with the rate of the money.
Settle(side, currency, amount, tender, rate) ==
  LET lines == SettlementLines(side, currency, amount, tender, rate)
      applied == Reached(side, currency, amount)
      over == amount - Total(applied, LAMBDA a : a)
  IN  /\ currency = "LBP" => tender = "CASH_LBP"
      /\ Post(<<"SETTLEMENT">>, lines, orders, owed,
              [i \in DOMAIN bills |-> [bills[i] EXCEPT !.paid = @ + applied[i]]],
              IF over > 0 THEN Append(credits, [side |-> side, currency |-> currency,
                                                rate |-> rate, amount |-> over]) ELSE credits)

\* POST /bank/transfers, at the rate of the settings.
Transfer(from, to, amount, arrives, rate) ==
  LET Leg(acct, sign, a) == IF acct = "CASH_LBP" THEN Foreign(acct, sign, a, "LBP", rate)
                            ELSE Usd(acct, sign * a)
      lines == <<Leg(to, 1, arrives), Leg(from, -1, amount)>>
      gap == lines[1].base + lines[2].base
  IN  /\ from # to
      /\ Plain(<<"TRANSFER">>, lines \o When(gap < 0, Usd("FX_LOSS", -gap))
                                     \o When(gap > 0, Usd("FX_GAIN", -gap)))

\* Settings.vat_percent is the owner's to change: raised here, to bound the run.
SetVat(rate) ==
  /\ rate > vat /\ vat' = rate
  /\ UNCHANGED <<today, journal, orders, owed, bills, credits, refused>>
NextDay ==
  /\ today < Days /\ today' = today + 1
  /\ UNCHANGED <<vat, journal, orders, owed, bills, credits, refused>>
----------------------------------------------------------------------------
Init ==
  /\ today = 1 /\ vat \in VatRates /\ journal = <<>> /\ orders = <<>>
  /\ owed = [u \in {"CASH"} \cup KaratSet |-> 0]
  /\ bills = <<>> /\ credits = <<>> /\ refused = {}

CurrencyOf(acct) == IF acct = "CASH_LBP" THEN "LBP" ELSE "USD"
Currencies == {"USD", "LBP"}

\* Documents of one kind meet in the subledger they share; of several kinds,
\* only in the sums of the reports, and two are enough.
TradeSources == {"ORDER", "ORDER_REFUND", "VOID"}
SupplySources == {"SUPPLIER_PURCHASE", "SUPPLIER_PAYMENT", "BUYBACK", "MELT", "ADJUSTMENT"}
AccountSources == {"AR_INVOICE", "VENDOR_BILL", "VENDOR_BILL_LBP", "SETTLEMENT", "TRANSFER"}
Room(sources) == Len(journal) < MaxMixed \/ \A e \in Range(journal) : e.source[1] \in sources

Trade ==
  \/ \E cart \in Carts, pay \in Tills, percent \in Discounts : Sell(cart, pay, percent)
  \/ \E n \in DOMAIN orders : \E i \in DOMAIN orders[n].items :
       \E qty \in 1..orders[n].items[i].qty : RefundItem(n, i, qty)
  \/ \E n \in DOMAIN orders, status \in {"VOIDED", "REFUNDED"} : Undo(n, status)
Supply ==
  \/ \E p \in Deliveries : Deliver(p)
  \/ \E unit \in DOMAIN owed, amount \in Amounts : PaySupplier(unit, amount)
  \/ \E s \in Scraps : BuyBack(s) \/ WriteOff(s)
  \/ \E s, t \in Scraps : Melt(s, t)
Account ==
  \/ \E currency \in Currencies, sum \in Sums : \E rate \in Rates(currency) :
       Invoice(currency, sum, rate) \/ EnterBill(currency, <<sum, sum>>, rate, NONE)
  \/ \E from \in Tendered, sum \in Sums : \E rate \in Rates(CurrencyOf(from)) :
       EnterBill(CurrencyOf(from), <<sum>>, rate, from)
  \/ \E side \in {"AR", "VENDOR_AP"}, currency \in Currencies, amount \in Amounts, tender \in Tendered :
       \E rate \in Rates(CurrencyOf(tender)) : Settle(side, currency, amount, tender, rate)
  \/ \E from, to \in Tendered, sum, arrives \in Sums, rate \in FxRates :
       Transfer(from, to, sum, arrives, rate)
Next ==
  \/ Room(TradeSources) /\ Trade
  \/ Room(SupplySources) /\ Supply
  \/ Room(AccountSources) /\ Account
  \/ NextDay
  \/ \E rate \in VatRates : SetVat(rate)

Spec == Init /\ [][Next]_vars
----------------------------------------------------------------------------
(* Properties. *)

\* Whatever is sold, bought, settled or moved, in whatever order, its entry
\* balances and is let in: post_entry's check never turns a document of the
\* shop away.  The exception is a vendor bill in pounds, whose lines are
\* rounded one by one and whose total is rounded once.
NothingRefused == refused \subseteq {"VENDOR_BILL_LBP"}

SubledgerOf(side) ==
  LET InUnits(amount, rate) == amount * (FxUnit \div rate) IN
  HalfEven(Total(bills, LAMBDA b : IF b.side = side THEN InUnits(Due(b), b.rate) ELSE 0)
           - Total(credits, LAMBDA c : IF c.side = side THEN InUnits(c.amount, c.rate) ELSE 0), FxUnit)
ControlOf(side) == (IF side = "AR" THEN 1 ELSE -1) * Net(journal, 1..Days, {side})
\* A line may be rounded by a cent.
Tolerance(side) == Replay(journal, 1..Days, LAMBDA l : IF l.acct = side THEN 1 ELSE 0)
\* Dollars received or paid in pounds beyond what was due.
OverpaidInPounds(side) ==
  \E i \in DOMAIN credits : credits[i].side = side /\ credits[i].currency = "USD" /\ credits[i].rate # 1
\* A refund or a void leaves the invoice of a sale on credit as it was.
CreditSaleUndone == \E n \in DOMAIN orders : orders[n].pay = "CREDIT" /\ orders[n].status # "COMPLETED"
Ties(side) == Tolerance(side) >= ControlOf(side) - SubledgerOf(side)
              /\ Tolerance(side) >= SubledgerOf(side) - ControlOf(side)

\* The control accounts are their subledgers: the suppliers' account and the
\* gold owed to them exactly (verify_ap_control), customers and vendors to a
\* cent a line (verify_ar_control, verify_vendor_ap) until dollars are overpaid
\* in pounds or a sale on credit is undone.
SubledgersTie ==
  /\ owed["CASH"] = -Net(journal, 1..Days, {"AP"})
  /\ \A k \in KaratSet : owed[k] = -NetGrams(journal, 1..Days, "METAL_AP", k)
  /\ OverpaidInPounds("AR") \/ CreditSaleUndone \/ Ties("AR")
  /\ OverpaidInPounds("VENDOR_AP") \/ Ties("VENDOR_AP")

PoundsMoved(days) == NetMoney(journal, days, {"CASH_LBP"}) # Net(journal, days, {"CASH_LBP"})
\* Whenever they are drawn up the trial balance and the balance sheet balance;
\* the income statements and the VAT returns of the days before any day and
\* since add up to it; and the cash flow reconciles unless pounds were moved,
\* which it counts as dollars.
StatementsAgree ==
  /\ TrialBalanced(journal, 1..today) /\ SheetBalanced(journal, 1..today)
  /\ \A from \in 1..today :
    LET before == 1..(from - 1)
        days == from..today
    IN  /\ NetProfit(journal, before) + NetProfit(journal, days) = CurrentEarnings(journal, 1..today)
        /\ VatDue(journal, before) + VatDue(journal, days) = VatDue(journal, 1..today)
        /\ PoundsMoved(days) \/ CashFlowReconciles(journal, before, days)

About(n) == {<<"ORDER", n>>, <<"ORDER_REFUND", n>>, <<"VOID", n>>}
\* The journal without the lines of other documents.
WrittenBy(sources) ==
  [i \in DOMAIN journal |->
     [journal[i] EXCEPT !.lines = IF journal[i].source \in sources THEN @ ELSE <<>>]]
Refunds(n) == Total(journal, LAMBDA e : IF e.source = <<"ORDER_REFUND", n>> THEN 1 ELSE 0)
Undone(n) == \E e \in Range(journal) : e.source = <<"VOID", n>>
Within(amount, cents) == -cents <= amount /\ amount <= cents

UndoneWhole(n) ==
  LET entries == WrittenBy(About(n)) IN
  /\ \A a \in Accounts : Net(entries, 1..Days, {a}) = 0
  /\ \A k \in KaratSet : NetGrams(entries, 1..Days, "METAL_INVENTORY", k) = 0
\* What a refunded line took out comes back, whole, when its last unit does.
UndoneByLine(n) ==
  LET entries == WrittenBy(About(n))
      left == orders[n].items
  IN  /\ -Net(entries, 1..Days, {"SALES_REVENUE", "MAKING_CHARGE_REVENUE"}) = orders[n].subtotal
      /\ \A k \in KaratSet :
           -NetGrams(entries, 1..Days, "METAL_INVENTORY", k)
             = Total(left, LAMBDA it : IF Unit(it).karat = k THEN Unit(it).grams * (it.qty - it.refunded) ELSE 0)
      /\ Net(entries, 1..Days, {"STONE_COGS"}) = Total(left, LAMBDA it : Unit(it).stone * (it.qty - it.refunded))
      /\ Within(Net(entries, 1..Days, {"METAL_COGS"}) - Total(left, LAMBDA it : Cost(it, it.qty - it.refunded)),
                Refunds(n))
\* A sale that is undone leaves nothing in the books: nothing at all when it is
\* voided, and otherwise what the lines still sold would have written, the cost
\* of the metal to a cent each time.
RefundsUndoTheSale ==
  \A n \in DOMAIN orders : IF Undone(n) THEN UndoneWhole(n) ELSE UndoneByLine(n)

\* By how much the entries of its refunds differ from what the till gave.
TillGap(n) == orders[n].handed + Net(WrittenBy({<<"ORDER_REFUND", n>>}), 1..Days, {"CASH"})

\* What a refund takes from the cash account is what the customer is handed, to
\* a cent, and on a discounted order to two and a half cents and a half for each
\* time the value refunded holds what is left.  The exceptions: the tax was
\* changed since the sale, or the last of a discounted order was refunded; the
\* entry then takes another sum than the customer got.
CashIsHandedOut ==
  [][\A n \in DOMAIN orders :
       LET left == orders'[n].subtotal
           value == orders[n].subtotal - left
           gap == TillGap(n)' - TillGap(n)
       IN  \/ orders'[n] = orders[n] \/ orders'[n].retaxed
           \/ IF orders[n].percent = 0 THEN Within(gap, 1)
              ELSE left = 0 \/ Within(2 * left * gap, 5 * left + value)]_vars
=============================================================================
