------------------------------ MODULE Journal ------------------------------
(***************************************************************************)
(* The journal as the reports read it: the lines an entry is made of and   *)
(* the check that lets it in (core/gl.py), the chart the reports sort by   *)
(* (core/coa_seed.py), and the statements replayed from the lines          *)
(* (core/gl.py, core/statements.py, core/tax.py).                          *)
(*                                                                         *)
(* Amounts are whole cents and grams.  A line is debited or credited,      *)
(* never both, so one signed number stands for the pair: debits are        *)
(* positive.  The accounts are those some document below posts to.         *)
(***************************************************************************)
EXTENDS RowSums

CONSTANT NONE

Karats == <<"K18", "K21">>

CashKeys == {"CASH", "CASH_LBP", "BANK", "CREDIT_CARD_CLEARING"}
Assets == CashKeys \cup {"AR", "METAL_INVENTORY", "PRODUCT_INVENTORY", "STONE_INVENTORY",
                         "VAT_RECEIVABLE", "METAL_CLEARING"}
Liabilities == {"AP", "METAL_AP", "VAT_PAYABLE", "VENDOR_AP"}
Equity == {"OPENING_BALANCE_EQUITY", "RETAINED_EARNINGS"}
Income == {"SALES_REVENUE", "MAKING_CHARGE_REVENUE", "SALES_DISCOUNTS", "FX_GAIN"}
Expenses == {"METAL_COGS", "STONE_COGS", "ADJUSTMENT_EXPENSE", "RENT_EXPENSE", "FX_LOSS"}
Dual == {"METAL_INVENTORY", "METAL_AP", "METAL_COGS", "METAL_CLEARING", "OPENING_BALANCE_EQUITY"}
Accounts == Assets \cup Liabilities \cup Equity \cup Income \cup Expenses

CogsKeys == {"METAL_COGS", "MAKING_COGS"}
OtherKeys == {"FX_GAIN", "FX_LOSS"}

\* Decimal.quantize rounds to the nearest cent, and a half to the even one.
HalfEven(n, d) ==
  LET q == n \div d IN
  IF 2 * (n % d) > d \/ (2 * (n % d) = d /\ q % 2 = 1) THEN q + 1 ELSE q

Line(acct, base, money, currency, grams, karat) ==
  [acct |-> acct, base |-> base, money |-> money, currency |-> currency,
   grams |-> grams, karat |-> karat]
Usd(acct, amount) == Line(acct, amount, amount, "USD", 0, NONE)
Metal(acct, cost, grams, karat) == Line(acct, cost, 0, "USD", grams, karat)
When(cond, line) == IF cond THEN <<line>> ELSE <<>>

Negated(lines) ==
  [i \in DOMAIN lines |-> [lines[i] EXCEPT !.base = -@, !.money = -@, !.grams = -@]]

\* gl.validate_balanced.
Valid(lines) ==
  /\ lines # <<>>
  /\ Total(lines, LAMBDA l : l.base) = 0
  /\ \A i \in DOMAIN Karats :
       Total(lines, LAMBDA l : IF l.karat = Karats[i] THEN l.grams ELSE 0) = 0
  /\ \A i \in DOMAIN lines : lines[i].grams # 0 => lines[i].acct \in Dual /\ lines[i].karat # NONE
----------------------------------------------------------------------------
(* The reports: every one a sum over the lines of some days. *)

Replay(journal, days, F(_)) ==
  Total(journal, LAMBDA e : IF e.day \in days THEN Total(e.lines, F) ELSE 0)

\* Debits less credits, in dollars, of a set of accounts.
Net(journal, days, accts) ==
  Replay(journal, days, LAMBDA l : IF l.acct \in accts THEN l.base ELSE 0)
\* In the currency each line was written in.
NetMoney(journal, days, accts) ==
  Replay(journal, days, LAMBDA l : IF l.acct \in accts THEN l.money ELSE 0)
NetGrams(journal, days, acct, karat) ==
  Replay(journal, days, LAMBDA l : IF l.acct = acct /\ l.karat = karat THEN l.grams ELSE 0)

TrialBalanced(journal, days) ==
  /\ Net(journal, days, Accounts) = 0
  /\ \A i \in DOMAIN Karats :
       Replay(journal, days, LAMBDA l : IF l.karat = Karats[i] THEN l.grams ELSE 0) = 0

\* Mutant: realized exchange differences stay below the line.
OperatingProfit(journal, days) ==
  LET revenue == -Net(journal, days, Income \ OtherKeys)
      cogs == Net(journal, days, Expenses \cap CogsKeys)
      opex == Net(journal, days, Expenses \ (CogsKeys \cup OtherKeys))
  IN  revenue - cogs - opex
NetProfit(journal, days) ==
  LET revenue == -Net(journal, days, Income \ OtherKeys)
      cogs == Net(journal, days, Expenses \cap CogsKeys)
      opex == Net(journal, days, Expenses \ (CogsKeys \cup OtherKeys))
      other == -Net(journal, days, OtherKeys)
  IN  revenue - cogs - opex + other

\* The synthetic equity line of the balance sheet.
CurrentEarnings(journal, days) == -Net(journal, days, Income \cup Expenses)
SheetBalanced(journal, days) ==
  Net(journal, days, Assets)
    = -Net(journal, days, Liabilities \cup Equity) + CurrentEarnings(journal, days)

\* The days' movements are summed in each line's own currency, the balances at
\* both ends in dollars.  What the movements are sorted under is left out.
CashFlowReconciles(journal, before, days) ==
  Net(journal, before, CashKeys) + NetMoney(journal, days, CashKeys)
    = Net(journal, before \cup days, CashKeys)

VatDue(journal, days) ==
  -Net(journal, days, {"VAT_PAYABLE"}) - Net(journal, days, {"VAT_RECEIVABLE"})
=============================================================================
