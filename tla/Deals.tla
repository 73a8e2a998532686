------------------------------- MODULE Deals -------------------------------
(***************************************************************************)
(* A deal over the counter: the cashier looks at the gold rate or a quote, *)
(* tells the customer a price, and sends a sale or a buyback while the     *)
(* rate goes on moving (core/pricing.py, core/gold_guard.py,               *)
(* api/buybacks.py, the head of api/orders.create_order).                  *)
(*                                                                         *)
(* A request reads the settings and the rate once, is refused or goes on   *)
(* with that reading, and writes everything in one transaction.  Money is  *)
(* whole cents, weights whole grams.                                       *)
(***************************************************************************)
EXTENDS Integers, Sequences, FiniteSets, Functions

CONSTANTS
  Cashier,
  Purity,      \* KARAT_PURITY in thousandths, by karat
  Feed,        \* rates of the feed: cents to the gram of 24K
  Overrides,   \* rates an admin may set
  Margins,     \* buyback margins: [mode, value]
  DriftMax,    \* Settings.buyback_rate_drift_pct_max
  Piece,       \* a piece bought by weight: [karat, grams]
  Coin,        \* a coin type: [karat, grams, markup, mode, margin]
  Ring,        \* a product: [karat, grams, markup, margin, making, stone]
  HandPrice,   \* a price entered by hand
  ClosedAge,   \* ticks after which the newest rate counts as closed
  MaxRows, MaxDeals, MaxStock,  \* bounds
  NoValue

ASSUME NoPriceAssumption == NoValue \notin Int \cup Margins
ASSUME RateAssumption == Feed \cup Overrides \subseteq Nat \ {0}
\* Neither the settings nor a request says that a margin, or the drift, is not negative.
ASSUME SettingsAssumption == DriftMax \in Int /\ \A m \in Margins : m.value \in Int
ASSUME GoldAssumption == \A what \in {Piece, Coin} : Purity[what.karat] \in Nat /\ what.grams \in Nat

VARIABLES
  row,       \* the newest row of gold_rate_history: [rate, at]
  twins,     \* history: seconds in which rows of two rates were written
  rowAge,    \* ticks since
  override,  \* the rate of the active override, or NoValue
  margin,    \* Settings.default_buyback_margin_*
  seen,      \* what each cashier has on the screen
  req,       \* the request of each cashier
  coins, lots, deals,
  acks       \* SALE_ON_STALE_RATE_ACK rows: [deal, at]

rateVars == <<row, twins, rowAge, override>>
shopVars == <<coins, lots, deals, acks>>
dealsVars == <<rateVars, margin, seen, req, shopVars>>
----------------------------------------------------------------------------
(* Prices. *)

\* ROUND_HALF_UP, of amounts that are not negative.
HalfUp(n, d) == (2 * n + d) \div (2 * d)

\* A product: margin on the metal, then making and stone.
ProductPrice(rate, ring) ==
  LET metal == (rate * Purity[ring.karat] + ring.markup * 1000) * ring.grams
  IN  HalfUp(metal * (100 + ring.margin) + (ring.making + ring.stone) * 100000, 100000)
\* A coin or an ounce: the purity is in the markup.
UnitPrice(rate, unit) ==
  LET metal == (rate + unit.markup) * unit.grams
  IN  IF unit.mode = "PERCENT" THEN HalfUp(metal * (100 + unit.margin), 100) ELSE metal + unit.margin
\* What the shop pays, or NoValue where the margin leaves nothing.
BuybackPrice(rate, karat, grams, m) ==
  LET effective == IF m.mode = "PERCENT" THEN rate * Purity[karat] * (100 - m.value)
                   ELSE (rate * Purity[karat] - m.value * 1000) * 100
  IN  IF effective <= 0 THEN NoValue ELSE HalfUp(effective * grams, 100000)
----------------------------------------------------------------------------
(* The rate. *)

\* The override, with a time of its own, which is never closed, or the newest row.
CurrentRate ==
  IF override # NoValue THEN [rate |-> override, at |-> 0, closed |-> FALSE]
  ELSE [rate |-> row.rate, at |-> row.at, closed |-> rowAge >= ClosedAge]

\* The job or an admin's refresh, or both within a second.
NewRate(rate, sameSecond) ==
  /\ row.at < MaxRows
  /\ row' = [rate |-> rate, at |-> IF sameSecond THEN row.at ELSE row.at + 1]
  /\ sameSecond => rowAge = 0
  /\ twins' = IF sameSecond /\ rate # row.rate THEN twins \cup {row.at} ELSE twins
  /\ rowAge' = 0
  /\ UNCHANGED <<override, margin, seen, req, shopVars>>
GrowOld ==
  /\ rowAge < ClosedAge /\ rowAge' = rowAge + 1
  /\ UNCHANGED <<row, twins, override, margin, seen, req, shopVars>>
SetOverride(rate) ==
  /\ override # rate /\ override' = rate
  /\ UNCHANGED <<row, twins, rowAge, margin, seen, req, shopVars>>
ChangeMargin(m) ==
  /\ margin # m /\ margin' = m
  /\ UNCHANGED <<rateVars, seen, req, shopVars>>
----------------------------------------------------------------------------
(* The requests. *)

NoDeal == [pc |-> "idle"]

\* GET /gold-price and GET /buybacks/quote, at the margin of the settings.
Look(p) ==
  /\ req[p] = NoDeal
  /\ seen' = [seen EXCEPT ![p] =
       [rate |-> CurrentRate.rate, at |-> CurrentRate.at, closed |-> CurrentRate.closed, margin |-> margin]]
  /\ UNCHANGED <<rateVars, margin, req, shopVars>>

\* Mutant: any acknowledgement will do.
AckGiven(reading, ack) == reading.closed => ack # NoValue
\* A closed rate is traded on with an acknowledgement of the row it came from,
\* by its time to the second.
Acceptable(reading, ack) == reading.closed => ack = reading.at

\* Mutant: the quoted rate is not looked at again.
AnyRate(current, expected) == TRUE
Apart(a, b) == IF a < b THEN b - a ELSE a - b
WithinDrift(current, expected) ==
  expected # NoValue => Apart(current, expected) * 100 <= DriftMax * expected

Price(kind, rate, m) ==
  CASE kind = "PURE_GOLD" -> BuybackPrice(rate, Piece.karat, Piece.grams, m)
    [] kind = "COIN" -> BuybackPrice(rate, Coin.karat, Coin.grams, m)
    [] kind = "SALE_COIN" -> UnitPrice(rate, Coin)
    [] kind = "SALE_PRODUCT" -> ProductPrice(rate, Ring)
Sales == {"SALE_COIN", "SALE_PRODUCT"}
Buybacks == {"PURE_GOLD", "COIN", "USED_PRODUCT"}

\* The reading, the gate before anything is built, and the price.  `own` is the
\* margin the request carries, if any.
BeginDeal(p, kind, ack, expected, own, byHand) ==
  LET reading == CurrentRate
      m == IF own = NoValue THEN margin ELSE own
      price == IF byHand THEN HandPrice ELSE Price(kind, reading.rate, m)
  IN  /\ req[p] = NoDeal /\ seen[p] # NoValue
      /\ kind \in Sales => expected = NoValue /\ own = NoValue /\ ~byHand
      /\ byHand => own = NoValue
      /\ kind = "USED_PRODUCT" => byHand
      /\ Acceptable(reading, ack) /\ WithinDrift(reading.rate, expected)
      /\ price # NoValue
      /\ req' = [req EXCEPT ![p] =
           [pc |-> "writing", kind |-> kind, reading |-> reading, ack |-> ack, expected |-> expected,
            margin |-> IF byHand THEN NoValue ELSE m, price |-> price, seen |-> seen[p]]]
      /\ UNCHANGED <<rateVars, margin, seen, shopVars>>

\* What an acknowledgement leaves: a row when it was asked for, and none when the
\* client sends one with every request.
AckRows(deal, t) == IF t.reading.closed /\ t.ack # NoValue THEN {[deal |-> deal, at |-> t.reading.at]} ELSE {}

\* One transaction: the document, the lot or the stock, and the acknowledgement.
CommitDeal(p) ==
  LET t == req[p]
      bought == IF t.kind = "COIN" THEN 1 ELSE IF t.kind = "SALE_COIN" THEN -1 ELSE 0
  IN  /\ t.pc = "writing"
      /\ coins + bought \in 0..MaxStock /\ coins' = coins + bought
      /\ lots' = IF t.kind = "PURE_GOLD" THEN Append(lots, [of |-> Piece, cost |-> t.price]) ELSE lots
      /\ deals' = Append(deals, t)
      /\ acks' = acks \cup AckRows(Len(deals) + 1, t)
      /\ req' = [req EXCEPT ![p] = NoDeal]
      /\ UNCHANGED <<rateVars, margin, seen>>
AbortDeal(p) ==
  /\ req[p] # NoDeal /\ req' = [req EXCEPT ![p] = NoDeal]
  /\ UNCHANGED <<rateVars, margin, seen, shopVars>>
----------------------------------------------------------------------------
DealsInit ==
  /\ row \in [rate : Feed, at : {1}] /\ twins = {} /\ rowAge = 0 /\ override = NoValue
  /\ margin \in Margins
  /\ seen = [p \in Cashier |-> NoValue] /\ req = [p \in Cashier |-> NoDeal]
  /\ coins = 1 /\ lots = <<>> /\ deals = <<>> /\ acks = {}

Counter(p) ==
  \/ Look(p) \/ CommitDeal(p) \/ AbortDeal(p)
  \/ /\ seen[p] # NoValue
     /\ \E kind \in Sales \cup Buybacks, ack \in {NoValue, seen[p].at}, expected \in {NoValue, seen[p].rate},
           own \in {NoValue, seen[p].margin}, byHand \in BOOLEAN : BeginDeal(p, kind, ack, expected, own, byHand)
\* The run ends with the last deal: nothing below speaks of what comes after it.
DealsNext ==
  /\ Len(deals) < MaxDeals
  /\ \/ \E rate \in Feed, sameSecond \in BOOLEAN : NewRate(rate, sameSecond)
     \/ GrowOld
     \/ \E rate \in Overrides \cup {NoValue} : SetOverride(rate)
     \/ \E m \in Margins : ChangeMargin(m)
     \/ \E p \in Cashier : Counter(p)

DealsSpec == DealsInit /\ [][DealsNext]_dealsVars
----------------------------------------------------------------------------
(* Properties. *)

\* A deal on a closed rate is committed with the row that says who accepted it,
\* and a deal on any other rate without one; the price is of the rate on the
\* cashier's screen when it was accepted, however often the feed, the override
\* and the other cashiers moved in between, unless rows of two rates were written
\* within the second the acknowledgement names.
DealsAnswerable ==
  \A n \in DOMAIN deals :
    LET d == deals[n] IN
    /\ (\E a \in acks : a.deal = n) <=> d.reading.closed
    /\ d.reading.closed /\ d.margin # NoValue =>
         d.reading.at \in twins \/ d.price = Price(d.kind, d.seen.rate, d.margin)

\* What is left of the gold's value by a margin in percent, of which there may be more than all.
Share(m) == IF m.mode = "PERCENT" THEN 100 - m.value ELSE 100

\* The seller is paid what was quoted, to the drift the settings allow of the
\* gold's value, less a margin in percent, and the cents of rounding: by a formula,
\* on a quoted rate, at the margin of the quote.  (An allowance on the price itself
\* would not hold: a margin in dollars to the gram leaves a small price that moves
\* by more; nor one on the gold alone: a negative margin in percent pays for more.)
PaidAsQuoted ==
  \A d \in Range(deals) :
    (d.kind \in {"PURE_GOLD", "COIN"} /\ d.expected # NoValue /\ d.margin = d.seen.margin) =>
      LET what == IF d.kind = "COIN" THEN Coin ELSE Piece
          quoted == BuybackPrice(d.seen.rate, what.karat, what.grams, d.margin)
      IN  quoted = NoValue \/
          Apart(d.price, quoted) * 100000
            <= ((DriftMax * d.seen.rate) \div 100) * Purity[what.karat] * what.grams * Share(d.margin) + 100000
=============================================================================
