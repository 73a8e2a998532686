# The books and the stock of the jewelry back end, in TLA+

A verification project for the FastAPI back end of a jewelry shop (`src/app`): what it
keeps in PostgreSQL, which request handlers change it, and what must hold when several
of them run at once. The modules model the handlers' transactions; TLC checks them on
small instances; TLAPS proves theorems about them for every instance.

## 1. Inventory

The program is one asynchronous Python process (or several) on one PostgreSQL database.
Every HTTP request gets a session: a transaction at READ COMMITTED that ends in the
handler's `db.commit()`, or in a rollback when anything raises. Handlers interact only
through the database: through rows they lock `FOR UPDATE`, unique keys, and values they
read without a lock and use later. Two rows are taken by almost every handler: the head
of the audit ledger and, when automatic posting is on, the head of the general ledger.

| Part | State | Operations | What is hard | What makes it correct |
|---|---|---|---|---|
| General ledger (`core/gl.py`, `core/gl_postings.py`) | journal entries and lines, chain head, day sequence | post an entry, reverse it, post each kind of document, undo a document | duplicate guards and the period are read before the head lock that serialises postings | one linear hash chain; a document booked once, reversed once; nothing dated into a closed month |
| Periods (`core/period_close.py`, `api/accounting.py`) | a row per month: open or closed | ensure, close, reopen a month; close a year | the gates read the journal while others post; two year closes | closed months stay as they were; a year is closed once |
| History replay (`core/gl_replay.py`) | none of its own | book every document that is not booked | runs for long, beside the handlers of the same documents | no document twice, no closed year touched |
| Audit ledger (`core/ledger.py`, `core/audit_chain.py`) | append-only rows, chain head | record an event; verify | every handler appends; the head is the hottest lock | one linear chain; every journal entry reported once, in order |
| Orders (`api/orders.py`) | orders, lines, order numbers | checkout, void, refund, refund of a line | two of them on one order; payload order of locks; the number is a count | units neither sold twice nor put back twice; orders only move forward |
| Stock (`api/adjustments.py`, `api/buybacks.py`, `api/suppliers.py`, `api/melts.py`, `api/products.py`) | `on_hand_qty`, product status | adjust, buy back, receive, withdraw, restore, melt, edit | every write is a read-modify-write of an absolute quantity | stock is what came in less what went out |
| Reconciliation of units (`api/inventory.py`) | none | replay history, compare with stock | which orders count | no drift when the stock is right |
| Stock-takes (`api/stock_takes.py`) | take, lines, frozen quantities | create, add / edit / remove a line, submit, approve, reject | lines are edited under a status read without a lock | each variance posted once; a take closes once, with every line resolved |
| Gold lots (`core/inventory.py`, `api/lots.py`, `api/melts.py`, `api/polish.py`) | weight left in each lot, consumptions | consume, adjust, melt, polish | the weight is read before the lock and kept by the session | no gram drawn twice; an item melted or polished, once |
| Suppliers (`core/supplier_balance.py`, `api/suppliers.py`) | running balances in cash and in gold | purchase, payment | first row of a balance; locks taken in different orders | balance is purchases less payments |
| Receivables (`core/ar.py`), bills (`core/expenses.py`) | invoices, receipts, allocations; bills, payments | invoice, bill, receipt, payment, allocation, credit limit | documents are read without a lock and written from that copy | what is allocated is what is marked paid; the control account is the subledger |
| Entries of the documents (`core/gl_postings.py`, `core/ar.py`, `core/expenses.py`, `core/gl_fx.py`, `core/bank.py`) | the lines of the journal: dollars, pounds, grams by karat | one mapper to a kind of document | rounding by line and by total; partial refunds of discounted orders; exchange differences | every entry balances; a refund undoes its sale and takes the cash the customer got |
| Statements (`core/statements.py`, `core/tax.py`) | none | trial balance, income statement, balance sheet, VAT, cash flow | each sums the journal in its own way | they agree over any days |
| Opening balances (`core/coa_seed.py`) | the opening entry | post it | it stands for documents that may be posted again | the gold in the books is the gold on the shelf |
| Bank (`core/bank.py`) | accounts, statement lines, reconciliations | import, match, auto-match, compute, complete | requests overlap without a lock; a later reconciliation claims the lines of an earlier one | a ledger line clears one statement line; the difference is what is in transit |
| Sign-in (`core/security.py`, `core/login_lockout.py`, `core/auth_audit.py`, `api/auth.py`, `api/staff.py`) | token version, authentication log | log in, change a password, reset, deactivate, revoke, unlock | state derived from timed log rows; rows that land late | an ended session stays out; the threshold locks once, and the lock ends |
| Gold rate (`core/gold_api.py`, `jobs/gold_rate_poller.py`, `core/notify.py`, `api/gold_price.py`) | rate history, overrides; failure count and alarm in the process | poll, alarm, call off, refresh, override | awaits between counting and alarming; restarts; overlapping overrides | the alarm is up while the rate counts as closed; the override served is the one logged |
| Deals (`core/pricing.py`, `core/gold_guard.py`, `api/buybacks.py`) | acknowledgements, the price on the document | quote, sale, buyback | the rate moves between the quote and the request | a deal on a closed rate is answered for; the seller gets the quote, to the drift allowed |
| Zakat, dashboard, receipts, catalogue, settings, start-up | mostly none | read, format, edit rows | little | arithmetic |

`PROJECT.json` lists the same parts with their status, and the hazards with the line
where each bites and the properties that cover it.

## 2. Modules

| Module | Models | Is |
|---|---|---|
| `GeneralLedger` | posting, reversal, documents, periods, year close, replay, both chain heads | detailed specification and its properties |
| `Books` | what a reader of the ledger may rely on | abstract specification, implemented by `GeneralLedger` |
| `Counter` | orders, and every handler that moves stock | detailed specification and its properties |
| `Shelf` | the counter with every request atomic | abstract specification, implemented by `Counter` |
| `StockTake` | stock-takes and the adjustments they post | detailed specification and its properties |
| `GoldLots` | lots of gold, purchases from and payments to a supplier, corrections, melting and polishing | detailed specification and its properties |
| `Receivables` | invoices and receipts, vendor bills and payments, credit sales | detailed specification and its properties |
| `SignIn` | one account: its lockout and its sessions | detailed specification and its properties |
| `RowSums`, `Journal` | sums over rows; lines of an entry, the check that admits it, the statements | operators |
| `Mappers` | totals of an order and the lines of each kind of document | operators, over `Journal` |
| `Postings` | documents of every kind in any order, with amounts | specification over `Mappers`, one document at a time |
| `History` | auto-posting off and on, replay, opening entry, year closes | specification over `Mappers`, one document at a time |
| `GoldFeed` | the poller, its alarm, the refresh and the overrides | specification and its properties |
| `Deals` | quotes, sales and buybacks on a moving rate | specification and its properties |
| `Bank` | one bank account against its statement | specification and its properties |
| `...Proofs`, `SumTheorems` | | theorems about the module of that name, in `CustomerProofs` about `GoldFeed`, `Deals` and `Receivables`, in `ReconciliationProofs` about `StockTake` and `Bank`, in `AccountsProofs` about `Postings` with the operators of `Journal` and `Mappers`, in `BackOfficeProofs` about `SignIn` and `History`; about sums |
| `MC...` | | what TLC needs of each: symmetry sets, catalogues, carts and statements |

The modules cut the program along its interactions. `GeneralLedger`, `Counter`, `GoldLots`,
`StockTake`, `Receivables`, `SignIn`, `GoldFeed` and `Bank` interleave handlers and keep
amounts to what their properties tell apart; `Postings` and `History` keep the amounts, the
currencies and the karats, and run one document at a time. They share what both need: the
mappers are written once, in `Mappers`, and are called by the handlers in `Postings` and a
second time, for documents long built, by the replay in `History`.

### How a handler becomes actions

A process is a handler in flight; `tx[p]` is its transaction: where it is (`pc`), what it
has read, and what it has written and not committed. A `Begin...` action is the request
with its unlocked reads and early refusals. Then each point at which the handler may wait
(a row lock, a unique key) or at which another commit could make a difference is a step,
in the order of the code, and holds everything the code does up to the next one. `Commit`
publishes the writes and releases the locks; `Refuse` is a rollback, taken where the code
raises; `Abort` is a rollback at any moment, which stands for a dying process and for every
check on data that is not modelled. `DeadlockAbort` is PostgreSQL's detector: it aborts one
transaction of a waiting cycle.

*General ledger.* An entry keeps its kind, document, month, the entry it reverses and
`prev`, the depth of the entry it was chained to; a hash chain is linear exactly when
`prev` counts up by one. Amounts are gone, except that every entry earns or gives back one
unit of profit, which the year close moves. `Check` is the part of `post_entry` and of its
callers that reads without a lock (period, duplicate, reversal); `InsertPeriod`,
`LockLedger` and `Post` take the month's unique key, the audit head and the ledger head.
`EventFirst` names the handlers that record their own audit event before they post and so
hold the audit head while they read; which handlers do turns out to decide which races
they can lose. Consecutive unlocked reads of one statement group are one step, time moves
(`Tick`) only while no transaction is open, and the dry run of the replay and opening
balances are left out.

*Counter.* A stock row is a quantity and, for a product, its status. `TakeItem` is one line
of any of the handlers: lock the row, check it, write the new quantity. A sale then inserts
its order (`InsertOrder` waits on the unique order number) and records its event; the
general ledger that may follow is the other module. Money and the credit limit are covered
by `Abort`. The order of the locks is the payload's for a sale and a purchase, and any order
for a void, which loads its lines unordered. Deactivating a row (`is_active`) only refuses
later sales, so it is an `Abort` here.

*Stock-takes.* Submit, approve and reject hold the take's row from their first statement;
adding, editing and removing a line read the take without a lock and write later, so each
is two actions. The unit's row and the audit head are the last locks taken and nothing is
waited for under them: taking them and committing is one step. Sales and the rest of the
counter are the action `Move`. Foreign keys are modelled where they matter: the INSERT of a
line waits for a submit that holds the take's row.

*Gold lots.* Purchases and payments are lists of statements that depend on the request alone,
so a handler is `tx[p].todo`, the statements it has left, and each kind of statement is an
action. `seen` is the copy of a lot the session keeps: `_consume_lots` reads the lot, then
`consume_from_lot` selects it `FOR UPDATE` without `populate_existing`, which waits for the row
and leaves the copy as it was; `stale` is a history variable that remembers which lots were
written from a copy the table no longer agreed with. `Record` takes the audit head once: the
later events of a handler that holds it are dropped from its list. The INSERT of a lot and its
event are one step, because nobody else can know the lot's id. There is one supplier and one
karat; other suppliers and karats are other rows.

*Receivables.* The two subledgers run the same steps and `of` tells them apart. A settlement takes
the day's number row, then loads the documents it settles without a lock (explicit allocations
one by one, the rest oldest first), and its UPDATEs wait for their rows; what it writes is
computed from the copies. `stale` is a history variable: pairs of dates of settlements of which
one was written from a copy that the other had made out of date.

*SignIn.* The log holds the rows younger than the window in the order of the chain, so time is
the action `Expire` that drops the first row. Rows of background tasks wait in `pending` and land
in any order, late or never. A handler that changes the user loads the row, waits for its lock
with the UPDATE and commits; `dead` is a history variable that marks a session whose row was
changed after it was read.

*Journal, Mappers, Postings.* Money is whole cents and a line is one signed number. `HalfEven` is
the rounding of `Decimal.quantize`; a share by VAT, a discount or a rate is an exact fraction
rounded once, where the code rounds. `Post` is the end of every handler: `validate_balanced` lets
the lines in or refuses the whole document, and `refused` remembers the kinds refused. Auto-posting
is on, months are open; there is one supplier, and one customer and one vendor to each currency.

*History.* `docs` is what the tables keep of the past and `orders`, `pieces`, `lots`, `owed` the rows
as they are now. A replay is one transaction and one step: it rebuilds each document from these
(`StepsOf`), books those that are not booked, and is refused as a whole when an opening entry
exists or one of them falls in a closed year. A delivery's stones and the karat and weight an
override has hidden are read from the pieces as they are now, and such an entry is `LISTED`, as the
report lists it. Of a date only the year is kept, and of a year's months whether one of them is
open: `HasMonth(y)` is `_resolve_open_period` after `ensure_period`, which makes a month that has
no row, so a closed year takes a document until the close of the year before it has made all twelve
of its rows. Deliveries may be dated back (`occurred_at` is the request's), manual and opening
entries carry any date, and a month of any year can be opened by hand (`OpenMonth`), closed year or
not. A delivery puts its lots, coins and pieces on the shelf whatever is paid for them, and the
books get grams only for what is owed in gold; no gold is paid at the delivery itself (that is in
`Postings`). Of the catalogue only coins and ounces are sold here, whose cost is the rate on the
order, so that no sale depends on a cost snapshot. `EditPiece` changes karat, weight and stones;
the product form has no field for the cost.

*GoldFeed and Deals.* A tick is one refresh interval. In `GoldFeed` the figures are gone and the age
of the newest row is left; in `Deals` there are rates in cents and the poller is the action
`NewRate`. A deal reads the rate once, is refused or goes on with it, and commits document,
stock and acknowledgement at once. `seen` is the cashier's screen: what was quoted and told to
the customer. `twins` is a history variable: seconds in which rows of two rates were written.

*Bank.* A request reads what it is going to match (`BeginRequest`), writes it and computes the figures of
the reconciliation (`Compute`), and commits; PostgreSQL locks a line from the write to the
commit. `Suggestions` is any set of pairs that fit and that no further pair can join, because
neither query of `suggest_matches` has an order. GET recomputes and stores the figures too, and
`complete` does the same and writes a status nothing reads; both are `Look`. `unmatch` is not
called by any endpoint and is left out. `Fits` is the comparison of `suggest_matches`: a line above
zero is looked for among the debits, any other among the credits, and since a debit has a credit
of zero, a line of 0.00 takes the first debit in the window. `by` and `made` are history
variables: the request that matched a line, and which others it was in flight with.

## 3. What is checked

Bounds are named in the CONSTANTS of each module and explained there. The hazards of the
concurrent modules are between two handlers of the same rows, so two handlers are enough to
meet them; symmetry is used only in runs without liveness, and no definition distinguishes
handlers (or orders).

| Run | Instance | Question |
|---|---|---|
| `gl_safety` | 2 handlers, 1 document, two one-month years, requests until 3 entries or 3 audit rows, fair | chains, locks, duplicate guards, the event-first handlers; `GeneralLedger` implements `Books`; every request ends unless a circle goes through a month's key |
| `co_safety` | 2 handlers, 2 orders of up to 2 units, a coin and a product, one of each, the product form in use | stock, orders, numbers |
| `co_promise` | 1 order of up to 2 units, stock moved by purchases, buybacks and adjustments, no product form, fair | `Counter` implements `Shelf`; product flags; every request ends unless lines name stock rows crosswise |
| `st_safety` | 1 take, 2 units, 3 lines | each variance posted once; a take runs one way |
| `lo_safety` | 1 lot of 2 grams, absent at first, 1 used piece, up to 2 draws in a request, 1 unit due, 2 when two purchases race, a correction | balances, draws, the books of a lot, the fate of a piece |
| `ar_safety` | 2 handlers, 2 documents of 2, 2 settlements of 1 or 3 on two dates, an explicit allocation each, credit limit 3 | settlements kept; subledgers tie to their control accounts |
| `si_safety` | 2 requests, 2 passwords, threshold 2, 4 log rows, 2 version changes, fair | ended sessions stay out; the lockout is exact and ends |
| `po_safety` | a ring with a stone and a coin worth half cents, two VAT rates, two exchange rates, 3 documents of one kind or 2 of different kinds, 2 days | entries balance, subledgers tie, statements agree, refunds undo sales and take the cash the till gives |
| `hi_safety` | 3 documents of sales and returns or 2 of any kind; 2 of any kind with 1 opening entry or close; 2 of sales and returns with 2 of these; 1 with 3, one of them manual perhaps; dated in the first two of 3 years, deliveries for money and for gold, 1 change of settings, edit or month opened | the replay writes what the day would have; years closed in order stay settled; gold in the books is gold on the shelf |
| `gf_safety` | threshold 2, ages up to 3, 2 override requests over 3 rows, fair | alarm, channel and closed rate agree; overrides as logged; a lasting outage is alarmed |
| `de_safety` | 1 cashier, 1 deal, 2 rows of the feed of three rates, an override, four margins (one of -20%), drift 5% | deals on a closed rate are answered for; sellers are paid the quote |
| `ba_safety` | 2 clerks, 2 entries and 2 statement lines over three days, window 1, 2 reconciliations, 2 requests | automatic matches are of equal amounts and one to one unless they overlap; the difference is what is in transit or taken by a line of 0.00 |

What the bounds leave room for. *Ledger:* requests begin while there are fewer than three entries
and three rows, so a posting races a close, a replay or another posting of the same document, and an
entry is reversed, and posted again, which is what makes `Books` worth implementing. *Counter:* an
order of two units is either two lines, the least for a lock cycle between two checkouts and for an
order that is partly refunded, or one line of two, the least for a line refunded in parts.
*Stock-takes:* one line added, one removed and one added again for the same unit is what the unique key of
a take's lines has to survive; the counts 0 and 2 against a stock of 1 give a shortage and a
surplus, and stock moving by one gives a line without variance. *Lots:* a lot of two grams is the
least that one request can draw from twice and two requests can draw from without depleting it.
*Receivables:* documents of 2 and amounts of 1 and 3 give partial, exact (two of 1) and excessive
settlements and one that reaches over two documents; two dates are the least for two settlements
that do not queue on one number row. *Sign-in:* with a threshold of 2, four rows hold two attempts,
a lock and an unlock; two version changes let a session outlive one and be read between them.
*Postings:* three documents are a sale refunded twice, or two invoices and a settlement over both;
prices were chosen so that VAT, discount and the cost of one coin of two fall on half cents, and
rates of 2 and 3 so that an amount of 7 does not divide. *History:* three years are two closed ones
and an open one, and no document is needed in the last: nothing there could still close it. The
replay needs three documents (a sale and its two refunds), an opening entry two (one before it and
one after), the years one document and three entries of the office: two closes, and what comes
between or after them. So the more the office enters, the fewer documents there are (`Sizes`). One
month opened by hand is enough, because documents and closes open months as well. *Gold feed:* ages
beyond the one that closes the rate plus one are not told apart. *Deals:* the feed's rates are
inside and outside the drift of each other, a margin in dollars leaves little of the lowest rate or
nothing; each deal is judged by itself, so the run ends with the first; two rows are the least for a
rate that moves. *Bank:* a deposit fits both lines of the statement, of which one is of 0.00, and a
withdrawal of the same day neither; the statements end on the day of the deposit or of either line,
so that pairs lie across the end of one both ways; two reconciliations are the least for one that
takes the lines of the other.

Every property has a mutant in `PROJECT.json`: a plausible slip in the code (a lock not
taken, a guard that looks at the wrong thing, an order of steps exchanged) under which the
property fails in that run. The mutants of `EveryRequestEnds` take two locks in the other order
(`LockHeadsSwapped`, `EventFirst`), and two requests then wait for each other. A property that
the code keeps only outside some case names the case in its own text; section 5 lists these
cases.

Deadlock is checked except in `po_safety`, the runs of `History`, `de_safety` and `ba_safety`, whose runs end
when the bounds on documents, rows and requests are used up.

### Fairness

`FairSpec` of `GeneralLedger` and `Counter` adds strong fairness of each handler's own step. It is
disabled and enabled again as locks change hands; PostgreSQL queues the waiters of a row, so one
that keeps becoming grantable is granted: that is strong fairness. Nothing is assumed of the
deadlock detector: it may break a circle of waiting transactions, and does in the code, but a
request that ends only because the database killed it or its neighbour has failed for its user.
`EveryRequestEnds` therefore says that the *order of the locks* lets everybody through: the two
heads in `GeneralLedger`; order row, stock rows, order number and audit head in `Counter`. It
names the one circle each module has. In the ledger it is a handler that waits for a month's
unique key with the audit head in hand (`MonthCircle`: a sale whose month is missing, against a
refund that is inserting it and wants the head). At the counter it is two handlers whose lines
name stock rows in different orders, or a purchase that booked a lot of pure gold, and so holds
the audit head, before its next coin (`CrossedRows`). Both circles are reached by TLC, and the
property fails without its exception. `SignIn` assumes that time passes (`WF_signInVars(Expire)`), which is
why every lock ends, and `GoldFeed` that time passes and a poll that has begun ends, because every
await in it has a timeout (`WF_vars(Tick)`, `WF_vars(Job)`). Nothing is assumed of requests
arriving or of processes dying; the feed and the process may come and go for ever, and
`OutageAlarmed` speaks of those that stay. `st_safety`, `lo_safety` and `ar_safety` have no
fairness: that a waiting handler goes on is the same argument as for the counter.

## 4. What is proved

Theorems hold for every value of the constants: any number of handlers, documents, units and
amounts, and every bound. They rest on the named assumptions of the modules, which say that `NONE`
is none of the other values, that bounds and amounts are natural numbers, and that sets of rows
that are summed over are finite. Of `Postings` they say that prices, weights, costs, percentages and
amounts are natural numbers (a percentage at most 100), that a cart is a sequence of units of the
catalogue, and that `FxUnit` is a common multiple of the rates, so that a pound's worth is a whole
number of units; there is no bound on any of them. Of `History` they say the same of what is sold,
delivered, bought, weighed and edited, that the VAT rates have a highest one, and that stock and
workshop are finite. Two more deserve a word: a gold feed's `Threshold` is at least
2 (with 1 the alarm comes a poll before the rate counts as closed), and
`RowAssumption` of `GoldLots` says that a row of a lot is not `NONE`.

| Module | Theorems | Statement |
|---|---|---|
| `GeneralLedgerProofs` | `TypeCorrect`, `ChainsLinear`, `HeadsSound` | neither chain forks or skips and both heads name the last link; what is pending was written under the heads' locks, and waiting for the heads alone never makes a cycle; every variable keeps its type |
| | `BookedOnceAlways`, `AuditMirrors`, `EventFirstWins`, `UndoneCompletely`, `LedgerKeepsPromise` | a document is booked and an entry reversed once; the audit ledger reports the journal; the handlers that record their event first lose no race; a void leaves nothing unreversed; `GeneralLedger` implements `Books` |
| `CounterProofs` | `StockKept`, `OrdersNumbered`, `ReconciliationRight`, `GoneForGood`, `FlagsFollow`, `CounterKeepsPromise` | stock is what came in less what went out; order numbers are unique; the reconciliation agrees; what is gone stays gone (an action property); product flags; `Counter` implements `Shelf` |
| `ReconciliationProofs` | `VarianceOnce`, `OneWay` | a variance is posted once; a take runs one way (an action property) |
| | `AutoClearsOnce`, `TransitExplained` | an automatic match clears one line by one entry of its amount, but for lines of 0.00 and overlapping matches; books and statement differ by what is in transit and what lines of 0.00 took |
| `GoldLotsProofs` | `SuppliersSettledRight`, `BooksKept`, `FateOnce` | balances, grams paid, types and non-negative weights; the books of a lot; the fate of a piece |
| `AccountsProofs` | `NoDocumentRefused`, `StatementsAgreed`, `SubledgersTied`, `BooksTyped` | what every mapper writes balances and is let in; the statements agree with one another on any days; the control accounts of `Postings` are their subledgers, to a cent a line; the journal is well typed |
| | `RefundsUndone`, `RefundsHandedOut` | a sale voided or refunded in any parts leaves in the books what its lines still sold are worth; a refund takes from the cash account what the till hands out, to the rounding of tax and discount (an action property) |
| `BackOfficeProofs` | `LiveSessions`, `LockoutRight` | ended sessions stay out; the lockout is exact |
| | `ClosedYearsSettled`, `HistoryTypes` | a year closed in order stays settled until one of its months is open again, whatever is sold, returned, entered by hand, opened, closed or replayed later; tables and journal of `History` are well typed |
| `CustomerProofs` | `SettlementsKeptRight`, `ControlsTie` | what is paid is what was allocated, and only settlements of different dates overwrite each other; each control account shows what its subledger owes |
| | `AlarmRight`, `OverrideRight` | alarm and rate agree; the override served is the one logged |
| | `DealsAnswered`, `QuotesPaid` | a deal on a closed rate is answered for; the seller gets the quote, to the drift and a cent |
| `SumTheorems` | `SumType`, `SumRemove`, `SumChange`, `SumPlus`, `SumUnion`, `RowConcat`, `OverAppend`, `OverFlatten`, ... | what the community modules' `SumFunctionOnSet` does when a value changes, an index is added, two functions are added, sets are joined or shifted; sums over rows, over sequences and over sequences strung together |

### The arguments

No property is inductive as it stands, because what a handler commits was computed many steps
before. Each proof therefore has an invariant that says, of every handler in flight, what its
uncommitted writes are worth *relative to the committed rows*, and which locks keep that true while
others commit. A step of one handler is shown to establish this for itself, and to leave the rows
the others hold as they are (`Quiet`, `Spared`, `LocksKept`); then a commit is an addition of two
things that are already known.

*Chains.* `ChainInv == TypeOK /\ LockDiscipline /\ ChainLinear /\ PendingChained`. `PendingChained` says
that the pending entries and rows of a handler continue the committed chain by themselves, and
`LockDiscipline` that whoever has any holds the head, so nobody else can have committed in
between. In `CommitChain` the batch of one handler is concatenated to the chain and every other
handler is shown to have none.

*Books.* `BooksInv` adds that the journal as each handler sees it, its own entries included, is sound,
and that whatever it is about to post passed the guard it looks at under the heads' locks.
`MirrorInv` counts the audit rows that speak of an entry. `CourseInv` follows an event-first handler
from its event, after which it holds the audit head: what it read of periods, entries and the
switch is still so when it posts. The refinement maps the journal and the entries that audit rows
name; only `Commit` extends them.

*Counter.* `CounterInv` says of each session that its copies of locked rows are the rows, of each
order that its lines add up, and of the stock that it is the opening quantity, what came in, and
less the lines of committed orders not put back: a sum over orders and lines, moved by one
summand in each commit (`SumChange`, `SumAdd`). `FlagsFollow` and `CounterKeepsPromise` assume
`EditsStock = FALSE`, as the run `co_promise` does: the product form writes a quantity it read
without a lock (`api/products.py:199`), and neither statement survives that.

*Stock-takes.* `TakeInv` says of every handler in `AtWork` what the take's lock and status promise at
each point of its course; `VarianceApplied` and `LineOnce` tie an adjustment to the one line that
made it, and `DraftUntouched` says that lines of a draft have none.

*Gold lots.* `LotsInv` gives each transaction five clauses (`Sound`): it holds the lots it wrote
(`Holds`); a lot it wrote is in its books once its own draws and corrections are added (`Booked`);
its piece is locked and undecided in the table, and a melt has one lot of it to make, or has made
it (`Fated`); of each balance it has still one statement that moves it by what is due less what is
paid, or has moved it so (`Owing`); and the grams drawn and still to be drawn are the grams paid
(`Weighed`). `OwnLots` and `Unborn` say that lots being created are told apart and unused.

*Receivables.* `ARInv` says of a settlement (`Settles`) that from the time it has its number until it
commits it holds the number row of its day, so whatever changed a document it has read was a
settlement of another date (`CopyOK`); of a document it has written, that it holds the row, and
that the row is what the table had and its own allocation (`WriteOK`), unless the pair of dates
is in `stale`. `Ledger` compares each control account with `Worth`, what every document is worth by
its *allocations*: that sum moves by one summand when a document is added (`SumChange`) and by
the sum of what is applied when a settlement commits (`SumPlus`). The theorem follows, because
on an undisturbed document what is allocated is what shows as paid. `ProcAssumption`, that the
handlers are finitely many, lets the documents being made be counted.

*Entries.* The proofs about `Postings` go up in four layers. `SumTo` is shown to be a sum
(`RowStep`, `RowConcat`), so that a measure of lines adds up over entries and an entry adds its own
to the measure of a journal (`ReplayedAppend`). For each mapper there is a lemma (`...Books`) that
says, for any amounts, what its lines come to: no dollars in all, no grams of any karat, which
accounts it touches (`Untouched` of the others) and by how much it moves the control account it is
for. `NoDocumentRefused` follows, because `validate_balanced` is the first two; and so does
`StatementsAgreed`, because every report is a measure of lines, the accounts of the chart are split
among the reports, and days apart are summed apart. For the ties, dollars in whole cents are
compared with the documents in units of `FxUnit` to the cent: `Close(c, t, s)` says that `c` cents
and `s` units differ by no more than `t` cents, is kept by sums (`CloseJoin`, `CloseRows`), and
holds of one rounding with half a cent to spare, so that two roundings in one line (an invoice and
its tax) still fit. The inductive invariant is
`PostingsInv == PostingsTyped /\ SalesKept /\ OwedKept /\ SidesKept`: the types with every entry
balanced; every order has its entry and the entry of a sale touches no supplier, which is what a
void relies on when it reverses it; what suppliers are owed is what the journal says, with the
sign turned; and the two sides are `Tied`. A settlement is the hardest step: what is taken off each
document oldest first, what is left over, the rate each part was booked at, and the exchange
difference that keeps the entry balanced (`TakenClose`, `TiedSettlement`).

*Refunds.* `RefundsInv == PostingsInv /\ RefundsKept`. `Moved(f, sources, journal)` is what a measure comes
to over the entries of some documents, and moves by the lines of one entry at a time
(`MovedAppend`). `OrderKept` says of an order that was not cancelled that its totals are those of its
lines (`OrderSums`), that its revenue, its stones and its grams of each karat in the books are
exactly what is left of its lines and the cost of its metal that to a cent a refund (`LeftOver`),
and, while it is `COMPLETED`, that the books hold nothing of it but its sale (`AsSold`), which is why
a void, that only reverses the entry of the sale, takes everything out (`UndoLeaves`). The cost is
the one inexact part because it is rounded for the units refunded (`CostJoin`); making charges and
stones are whole per unit. `RefundsHandedOut` compares, in one step, the entry with the totals: the
tax is rounded once on the value refunded and once in each total (`PercentJoin`, a cent apart), and
the discount's share is half a cent off twice, once multiplied by the subtotal before the refund
over the subtotal after it (`SliceClose`), since the entry divides by the subtotal that is left and
the discount there is itself rounded. That factor grows without bound as less is left, so the
allowance of the property names the order's subtotals; no fixed number of cents is right for all.

*History.* `HistoryInv == TablesTyped /\ BooksTyped /\ Noticed /\ SettledBooksKept` is inductive. The types
carry more than their name says: a line that a replay writes is computed from rows as they are
*now* (`AsSold`, `MeltedFrom`, `Billed`), so that it is a line over the chart with whole amounts needs
the types of orders, pieces and documents together, and that a document of an order names an order
and a line of it (`Grounded`) for as long as orders only change (`GroundedStays`). For the years:
whatever a step does, it only *adds* entries, each of its own year (`Adds`); `ReplayAdds` follows the
recursive function of the replay to show that of any number of documents. An entry of a closed
year needs an open month there, and `Noticed` says that a closed year which has one is in
`reopened`; so either no entry is added to a closed year, or that year leaves the property in the
same step (`EnterKeeps`), and what is due on any account up to a year still covered is what it was
(`SettledStays`), where "up to" is safe because the years before it are closed too
(`InOrderClosed`). The replay adds nothing to a closed year at all (`ClosedYearsLeftAlone`). A closing entry
is the one step that adds to a year it closes: it takes from each nominal account exactly what is
due on it and names each once (`NominalOnce`, `ClosingIs`), so nothing is left (`CloseYearKeeps`).

*Sign-in.* `SessInv` compares every session, and what every request has read, with the row and with
the versions that requests in flight are going to add. `LockInv` bounds the failures in the log by
the attempts in flight, by splitting the log at its last lock or unlock (`LockLog`, `Burst`).

*Gold feed.* `FeedInv` ties the failure count to the age of the newest row except while the two are
`apart` (after a restart or a row of somebody else). `OverrideInv` says which rows a request saw and
cleared unless another ran beside it.

*Deals.* `DealsInv` says of every screen that it shows the rate of the newest row if it shows that
row's time, unless the time is one of the `twins` (`ScreenOK`), and of every deal, in flight or
committed, that it was acknowledged, compared with the quote and priced by the reading it carries
(`DealOK`). `QuotesPaid` is arithmetic from there (`PriceMoves`): a formula is linear in the rate,
and rounding half up moves two amounts apart by a cent at most (`Rounding`). Rates are positive,
purities and weights are not negative; of margins and the drift nothing is assumed but that they
are integers, because neither the settings nor a request refuses a negative one. That is why the
allowance takes the share the margin leaves: at a margin of -20 percent a gram pays for 1.2.

*Bank.* `BankInv` says of a request that began alone and still is that what it chose is free
(`ChoiceFree`) and that what it computed is what the tables say (`Current`); of the last
reconciliation, that it has exactly the lines to its day unless some came late (`LastHasLines`);
and of the one just computed alone, that its figures are those of the tables (`SureRight`). When every
match is automatic and none shares its entry, the matches are a one-to-one map from lines to
entries, of equal amounts but on the lines of 0.00, and a sum does not change when its indices are
renamed (`SumRenamed`), so the cleared entries are worth what the cleared lines are, and what the
lines of 0.00 took.

Steps of a fold over a finite set are proved by well-founded induction on its subsets
(`SubsetInduction` in `SumTheorems`, from the library's theorem that strict inclusion is
well-founded); that is what the sums above rest on.

### Only model-checked

Liveness (`EveryRequestEnds`, `LockEnds`, `OutageAlarmed`) needs fairness and `ENABLED`, which the prover
does not cover.

`ReplayFaithful` and `BooksMatchShelf` of `History` compare folds over all documents, as they were
posted and as they are rebuilt from the rows; the first compares two such journals line by line,
the second sums the shelf over lots, pieces and units at once.

## 5. Where code and documents disagree

Each was met while modelling. Where a property is named, it is what does hold: it leaves the case
out by name, and TLC finds it violated without that exception.

- *A closed month receives an entry.* The docstring of `_resolve_open_period` (`core/gl.py:109`)
  requires an open period. It is read before the head locks; a close that commits while the
  posting waits is not seen. Sales, voids and line refunds are safe, because they hold the audit
  head first (`EventFirstSafe`); a manual entry, a reversal, `/refund` and the replay are not.
- *A year is closed twice* by two requests that both find it open: the entry has no `source_id`
  for a guard to find. The replay also posts into a year closed after it looked.
- *Closing years out of order, or before they end, is not refused*, nor is opening a month of a
  closed year again, by hand, by a document dated in it, or by the close of the year before;
  `SettledBooksKept` is about years closed in order, while no month of theirs is opened again.
- *Reconciliation reports a drift where there is none*: `_expected_unit_qty` counts an order's lines
  by the order's status, so one line refund takes all of them out of the sum or leaves them all
  in (`ReconcilesUnrefunded`).
- *A stock-take's lines change after it left DRAFT* (`docs/AUDIT_CONTROLS.md:109` says draft only):
  the handlers read the status without a lock. A late line can be neither approved nor counted
  (`VariancePostedOnce`, `TakeRunsOneWay`).
- *A gram of gold is drawn twice*: `consume_from_lot` validates the copy its session read before the
  lock (`BooksKeptUnlessStale`). Balances are not affected (`SuppliersSettled`).
- *Two settlements overwrite each other's* `amount_paid` when their dates differ, and only then
  (`SettlementsKept`).
- *A voided or refunded credit sale leaves its invoice open*, so the subledger and the control
  account part (`TiesOutUnlessDisturbed`, `SubledgersTie`). They also part when allocations exceed
  the receipt, and when dollars are overpaid in pounds.
- *A vendor bill in pounds can be refused for a cent*: its lines and its total are converted apart
  (`NothingRefused`).
- *The cash flow adds pounds to dollars*, and does not reconcile once pounds have moved
  (`StatementsAgree`).
- *A line refund after a change of VAT, and the last one of a discounted order, book another sum*
  than the customer got: the entry is made with the VAT rate of the day and the subtotal that is left
  (`CashIsHandedOut`).
- *The replay.* `/refund` leaves no date, so its reversal is booked with the sale; it reverses the
  entry and puts nothing back on the shelf. A melt with an override is rebuilt from the product as
  it is now, and the stones of a delivery from the products it brought (`ReplayFaithful`); the
  documents say so (`docs/GL_HISTORY_REPLAY.md:84-91`), and that each such document is listed. Not
  quite: a document that posts nothing is not listed, and a melt posts nothing if the product's
  row, edited since, equals what came out (`core/gl_replay.py:711`). `ReplayFaithful` names that
  melt as an exception. Wares bought for money bring no grams into the books (`BooksMatchShelf` counts
  them apart, as `docs/GL_HISTORY_REPLAY.md:111-123` warns). Sales from before an opening entry that come back have no entry to
  reverse, and the "one-time" opening (`core/coa_seed.py:181`) can be posted onto books that hold
  entries, another opening included (`BooksMatchShelf`).
- *Banner and alarm come apart* (`core/gold_api.py` says they appear together) after a manual refresh
  or a restart, and a message the webhook lost counts as sent (`AlarmMatchesRate`). Two override
  requests that overlap can leave an override active that the log says was replaced
  (`OverrideAsLogged`).
- *An acknowledgement may name two rates.* "A 1s window still pins the ack to exactly one rate"
  (`core/gold_guard.py:121`) unless an admin's refresh writes a second row within the second
  (`DealsAnswerable`).
- *The bank.* A match by hand asks for neither amount nor account nor whether the entry has cleared
  another line; two overlapping auto-matches clear two lines by one entry, and a line of 0.00 is
  matched to any debit in the window (`ClearedOnce`). A
  reconciliation takes the lines of completed ones, lines imported later belong to none, looking
  at a completed one computes it again, and completing one asks for no difference of zero
  (`DifferenceExplained`).
- *The credit limit* is checked against a balance read without a lock: two sales can each fit and
  exceed it together. Nothing promises otherwise; the model reaches it.

## 6. Plan

1. Done: `GeneralLedger` with `Books` and its first theorems; `Counter` with `Shelf`; `StockTake`;
   `GoldLots`; `Receivables`; `SignIn`; `GoldFeed`; `Deals`; `Journal`, `Mappers`, `Postings`,
   `History`; `Bank`.
2. Done: the theorems of section 4. Next: for `History`, that a replay that ran finds nothing more to
   post, which is the second half of `ReplayFaithful`.
3. More of the model where it is thin: verification of a chain ordered by time against one ordered
   by its links, with clocks that differ (`core/audit_chain.py`); the price arithmetic of `pricing.py`
   against a reference; manual journal entries in `Postings`.

### Not modelled, and why

Formatting, files and outside services (`receipt`, `pdf`, `xlsx`, `r2`, `cloudflare`) keep no state
of the system. Zakat, the dashboard, KPIs and the sales reports are sums over tables modelled
elsewhere, read at one moment. The catalogue's handlers edit rows that nothing here is decided from,
but for the stock of the product form, which is in `Counter`. Schema, seeds and start-up run before
any request. Cryptography and hashing are abstracted: a hash is its predecessor. The creation of
customers, vendors, suppliers and bank accounts inserts a row that nothing else refers to yet.
