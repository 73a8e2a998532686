------------------------------- MODULE GoldLots -------------------------------
(***************************************************************************)
(* Gold lots and what the shop owes a supplier: purchases and payments     *)
(* (app/api/suppliers.py) that draw gold from lots                         *)
(* (core/inventory.consume_from_lot) and move a running balance            *)
(* (core/supplier_balance.adjust_balance), corrections of a lot            *)
(* (app/api/adjustments.py), new lots (app/api/lots.py, buybacks.py), and  *)
(* the fate of used pieces bought at the counter (melts.py, polish.py).    *)
(* One supplier and one karat.                                             *)
(*                                                                         *)
(* A process is a request handler; tx[p].todo is the rest of its           *)
(* statements, each of which may wait for a row.  A transaction's writes   *)
(* stay in tx[p] until Commit.  Other refusals (unknown supplier, wrong    *)
(* karat, gold rate) are Abort.                                            *)
(***************************************************************************)
EXTENDS Integers, Sequences, FiniteSets, Functions

CONSTANTS
  Proc,        \* request handlers that may be in flight at once
  Lot,         \* gold lots that may exist
  Stocked,     \* the lots that exist when the model starts
  Piece,       \* used pieces bought at the counter
  Weight,      \* grams of every lot when it is created
  MaxAmount,   \* bound: grams or dollars of a line of a request
  MaxDraws,    \* bound: lots a request draws from
  MaxDue,      \* bound: grams and dollars due when a purchase is asked for
  MaxAdjusted, \* bound: grams corrections have added to a lot, net
  NONE         \* no process, no row, no piece

ASSUME NoneAssumption == NONE \notin Proc /\ NONE \notin Lot /\ NONE \notin Piece /\ NONE \notin Int
ASSUME StockedAssumption == Stocked \subseteq Lot /\ IsFiniteSet(Lot)
ASSUME BoundAssumption ==
  /\ Weight \in Nat \ {0} /\ MaxAmount \in Nat \ {0} /\ MaxDraws \in Nat
  /\ MaxDue \in Nat /\ MaxAdjusted \in Nat

VARIABLES
  lots,      \* gold_lots: weight_remaining_grams, is_depleted, source; NONE if absent
  drawn,     \* sum of the gold_lot_consumptions of each lot
  adjusted,  \* sum of the manual_adjustments of each lot
  balance,   \* supplier_balances of the supplier; NONE before its first row
  due,       \* what purchases made due, in each unit
  paid,      \* what purchases and payments paid, in each unit
  fate,      \* what became of each used piece
  lotLock, balLock, pieceLock, \* holders of rows
  auditLock, \* holder of the audit-ledger head
  stale,     \* history: lots written from a copy that was out of date
  tx         \* the transaction of each process

tables == <<lots, drawn, adjusted, balance, due, paid, fate, stale>>
locks == <<lotLock, balLock, pieceLock, auditLock>>
vars == <<tables, locks, tx>>

-----------------------------------------------------------------------------
(* Rows and statements. *)

Unit == {"CASH", "GOLD"}
Fates == {"bought", "melted", "polished"}
LotRow == [left : Int, depleted : BOOLEAN, from : Piece \cup {NONE}]
Copy == [of : Lot, row : LotRow]
ASSUME RowAssumption == NONE \notin LotRow \cup Copy

NewLot(x) == [left |-> Weight, depleted |-> FALSE, from |-> x]

\* A statement, the row it is about and the amount it moves.
Do(what, row, n) == <<[do |-> what, on |-> row, by |-> n]>>
Event == Do("event", NONE, 0)

IdleTx == [op |-> "none", todo |-> <<>>, seen |-> NONE, stale |-> {}, lots |-> <<>>, drawn |-> <<>>,
           bal |-> <<>>, adjusted |-> <<>>, fate |-> <<>>, due |-> <<>>, paid |-> <<>>]

Idle(p) == tx[p].op = "none"
Next1(p) == Head(tx[p].todo)
At(p, what) == tx[p].todo # <<>> /\ Next1(p).do = what
Rest(p) == Tail(tx[p].todo)

\* f with g put over it, and f with the amounts of g added.
Over(f, g) == [x \in DOMAIN f |-> IF x \in DOMAIN g THEN g[x] ELSE f[x]]
Plus(f, g) == [x \in DOMAIN f |-> IF x \in DOMAIN g THEN f[x] + g[x] ELSE f[x]]
Put(f, k, v) == [x \in DOMAIN f \cup {k} |-> IF x = k THEN v ELSE f[x]]
Add(f, k, n) == Put(f, k, n + IF k \in DOMAIN f THEN f[k] ELSE 0)

\* A lot as the transaction sees it.
RowOf(p, l) == IF l \in DOMAIN tx[p].lots THEN tx[p].lots[l] ELSE lots[l]
Exists(l) == lots[l] # NONE

-----------------------------------------------------------------------------
(* Begin, wait, roll back. *)

Begin(p, op, todo, d, c) ==
  /\ Idle(p)
  /\ tx' = [tx EXCEPT ![p] = [IdleTx EXCEPT !.op = op, !.todo = todo, !.due = d, !.paid = c]]
  /\ UNCHANGED <<tables, locks>>

Released(lock, p) == [x \in DOMAIN lock |-> IF lock[x] = p THEN NONE ELSE lock[x]]

ReleaseAll(p) ==
  /\ lotLock' = Released(lotLock, p)
  /\ balLock' = Released(balLock, p)
  /\ pieceLock' = Released(pieceLock, p)
  /\ auditLock' = IF auditLock = p THEN NONE ELSE auditLock

Refuse(p) ==
  /\ tx' = [tx EXCEPT ![p] = IdleTx]
  /\ ReleaseAll(p)
  /\ UNCHANGED tables

\* The process dies, a statement fails, or a check not modelled refuses.
Abort(p) == ~Idle(p) /\ Refuse(p)

Free(lock, p) == lock \in {NONE, p}

Blockers(p) ==
  (CASE At(p, "draw") \/ At(p, "adjust") -> {lotLock[Next1(p).on]}
     [] At(p, "balance") -> IF balance[Next1(p).on] = NONE THEN {} ELSE {balLock[Next1(p).on]}
     [] At(p, "insert") -> {balLock[Next1(p).on]}
     [] At(p, "decide") -> {pieceLock[Next1(p).on]}
     [] At(p, "event") \/ At(p, "create") -> {auditLock}
     [] OTHER -> {}) \ {NONE, p}

Deadlocked(p) ==
  \E S \in SUBSET Proc :
    /\ p \in S
    /\ \A q \in S : Blockers(q) \cap S # {} /\ \E r \in S : q \in Blockers(r)

\* PostgreSQL's deadlock detector aborts one transaction of a waiting cycle.
DeadlockAbort(p) == Deadlocked(p) /\ Refuse(p)

-----------------------------------------------------------------------------
(* Requests. *)

\* Payments in gold name the lots to draw from.
DrawLists == UNION {[1..n -> [on : {l \in Lot : Exists(l)}, by : 1..MaxAmount]] : n \in 0..MaxDraws}
Grams(s) == SumFunctionOnSet([k \in DOMAIN s |-> s[k].by], DOMAIN s)

\* _consume_lots: each lot is read without a lock for its karat, and then debited.
ConsumeLots(s) == [k \in DOMAIN s |-> [do |-> "read", on |-> s[k].on, by |-> s[k].by]]

\* What a purchase leaves owed of what it makes due.
Owed(d, n) == d - n
Owe(u, n) == IF n > 0 THEN Do("balance", u, n) ELSE <<>>

\* A request that did nothing else records that it was made.
Told(todo) == IF todo = <<>> THEN Event ELSE todo

\* POST /suppliers/{id}/purchases of at most one lot, with what is paid at once.
BeginPurchase(p) ==
  \E d \in [Unit -> 0..MaxAmount], s \in DrawLists, cash \in 0..MaxAmount, items \in 0..1 :
    /\ due["CASH"] + d["CASH"] + due["GOLD"] + d["GOLD"] <= MaxDue
    /\ cash <= d["CASH"] /\ Grams(s) <= d["GOLD"]
    /\ Begin(p, "purchase",
         Told(ConsumeLots(s) \o (IF items = 1 THEN Do("create", NONE, 0) ELSE <<>>)
                \o Owe("CASH", Owed(d["CASH"], cash)) \o Owe("GOLD", Owed(d["GOLD"], Grams(s)))),
         d, [u \in Unit |-> IF u = "CASH" THEN cash ELSE Grams(s)])

\* The amount of a gold payment must be the sum of the grams drawn.
Amount(s) == Grams(s)

\* POST /suppliers/{id}/payments: the balance first, then the lots.
BeginCashPayment(p) == \E n \in 1..MaxAmount :
  Begin(p, "payment", Do("balance", "CASH", -n), <<>>, [u \in {"CASH"} |-> n])
BeginGoldPayment(p) == \E s \in DrawLists :
  /\ s # <<>>
  /\ Begin(p, "payment", Do("balance", "GOLD", -Amount(s)) \o ConsumeLots(s),
           <<>>, [u \in {"GOLD"} |-> Amount(s)])

\* POST /adjustments of a lot.
BeginAdjust(p) == \E l \in Lot, d \in {-1, 1} :
  /\ Exists(l) /\ adjusted[l] + d \in 0..MaxAdjusted
  /\ Begin(p, "adjust", Do("adjust", l, d), <<>>, <<>>)

\* POST /lots and a walk-in buyback of pure gold.
BeginLot(p) == Begin(p, "lot", Do("create", NONE, 0), <<>>, <<>>)

\* POST /melts and POST /polish of a used piece.
BeginMelt(p) == \E x \in Piece :
  Begin(p, "melt", Do("decide", x, 0) \o Do("create", x, 0), <<>>, <<>>)
BeginPolish(p) == \E x \in Piece : Begin(p, "polish", Do("decide", x, 0), <<>>, <<>>)

-----------------------------------------------------------------------------
(* Statements. *)

\* Transaction p is t afterwards, with the statements that are left.
Go(p, t, left) == tx' = [tx EXCEPT ![p] = [t EXCEPT !.todo = left]] /\ UNCHANGED tables

\* ledger.record takes the audit-ledger head FOR UPDATE; the transaction's later
\* events find it held.
Recorded(p) == (IF auditLock = p THEN <<>> ELSE Event) \o Rest(p)
Record(p, t) == auditLock' = p /\ Go(p, t, Rest(p)) /\ UNCHANGED <<lotLock, balLock, pieceLock>>

\* _consume_lots: SELECT of the lot.  The session keeps the copy it has of the lot
\* the request drew from last.
Read(p) ==
  LET l == Next1(p).on IN
  /\ At(p, "read")
  /\ Go(p, [tx[p] EXCEPT !.seen = IF @ # NONE /\ l = @.of THEN @ ELSE [of |-> l, row |-> RowOf(p, l)]],
        Do("draw", l, Next1(p).by) \o Rest(p))
  /\ UNCHANGED locks

\* The row consume_from_lot judges: SELECT ... FOR UPDATE waits for the row but does
\* not load it over the copy the session has.
SessionCopy(p, l) == tx[p].seen.row

Short(r, n) == r.depleted \/ n > r.left

\* consume_from_lot: UPDATE of what changed in the session's copy.
Debited(db, copy, n) ==
  [db EXCEPT !.left = copy.left - n, !.depleted = @ \/ copy.left - n <= 0]

Draw(p) ==
  LET l == Next1(p).on  n == Next1(p).by  copy == SessionCopy(p, l)  t == tx[p] IN
  /\ At(p, "draw") /\ Free(lotLock[l], p)
  /\ IF Short(copy, n) THEN Refuse(p)
     ELSE /\ lotLock' = [lotLock EXCEPT ![l] = p]
          /\ Go(p, [t EXCEPT !.lots = Put(@, l, Debited(RowOf(p, l), copy, n)),
                             !.drawn = Add(@, l, n), !.seen.row = Debited(copy, copy, n),
                             !.stale = IF copy = RowOf(p, l) THEN @ ELSE @ \cup {l}], Recorded(p))
          /\ UNCHANGED <<balLock, pieceLock, auditLock>>

\* Mutant: is_depleted is not derived again by a correction.
LeftOnly(r, d) == [r EXCEPT !.left = @ + d]

Corrected(r, d) == [r EXCEPT !.left = @ + d, !.depleted = r.left + d <= 0]

\* create_adjustment of a lot, on the row as locked.
Adjust(p) ==
  LET l == Next1(p).on  d == Next1(p).by IN
  /\ At(p, "adjust") /\ Free(lotLock[l], p)
  /\ IF RowOf(p, l).left + d < 0 THEN Refuse(p)
     ELSE /\ lotLock' = [lotLock EXCEPT ![l] = p]
          /\ Go(p, [tx[p] EXCEPT !.lots = Put(@, l, Corrected(RowOf(p, l), d)), !.adjusted = Add(@, l, d)],
                Recorded(p))
          /\ UNCHANGED <<balLock, pieceLock, auditLock>>

\* INSERT of a lot under an id of its own, and its LOT_CREATED event.
Create(p) == \E l \in Lot :
  /\ At(p, "create") /\ ~Exists(l) /\ \A q \in Proc : l \notin DOMAIN tx[q].lots
  /\ Free(auditLock, p)
  /\ Record(p, [tx[p] EXCEPT !.lots = Put(@, l, NewLot(Next1(p).on))])

\* A payment in gold records nothing before it has drawn from its lots.
InGold(p) == tx[p].op = "payment" /\ Next1(p).on = "GOLD"

Overpaid(b) == b < 0

\* adjust_balance: SELECT ... FOR UPDATE, which finds no row before the first commit
\* of one and then does not wait.
Balance(p) ==
  LET u == Next1(p).on  b == balance[u] + Next1(p).by IN
  /\ At(p, "balance")
  /\ IF balance[u] = NONE
     THEN IF Next1(p).by < 0 THEN Refuse(p)
          ELSE /\ tx' = [tx EXCEPT ![p].todo = Do("insert", u, Next1(p).by) \o Rest(p)]
               /\ UNCHANGED <<tables, locks>>
     ELSE /\ Free(balLock[u], p)
          /\ IF Overpaid(b) THEN Refuse(p)
             ELSE /\ balLock' = [balLock EXCEPT ![u] = p]
                  /\ Go(p, [tx[p] EXCEPT !.bal = Put(@, u, b)], IF InGold(p) THEN Rest(p) ELSE Recorded(p))
                  /\ UNCHANGED <<lotLock, pieceLock, auditLock>>

\* Mutant: the first row of a balance replaces one inserted meanwhile.
NeverTaken(u) == FALSE

Taken(u) == balance[u] # NONE

\* INSERT of the balance's first row: the primary key makes it wait for another
\* insert of the same row, and fail once that one has committed.
Insert(p) ==
  LET u == Next1(p).on IN
  /\ At(p, "insert") /\ Free(balLock[u], p)
  /\ IF Taken(u) THEN Refuse(p)
     ELSE /\ balLock' = [balLock EXCEPT ![u] = p]
          /\ Go(p, [tx[p] EXCEPT !.bal = Put(@, u, Next1(p).by)], Recorded(p))
          /\ UNCHANGED <<lotLock, pieceLock, auditLock>>

\* Mutant: a melted piece can still be polished.
NotPolished(x) == fate[x] # "polished"

Undecided(x) == fate[x] = "bought"

\* create_polish, _melt_used_buyback: the piece's row FOR UPDATE.
Decide(p) ==
  LET x == Next1(p).on IN
  /\ At(p, "decide") /\ Free(pieceLock[x], p)
  /\ IF ~Undecided(x) THEN Refuse(p)
     ELSE /\ pieceLock' = [pieceLock EXCEPT ![x] = p]
          /\ IF tx[p].op = "melt" THEN Go(p, [tx[p] EXCEPT !.fate = Put(@, x, "melted")], Rest(p))
             ELSE Go(p, [tx[p] EXCEPT !.fate = Put(@, x, "polished")], Recorded(p))
          /\ UNCHANGED <<lotLock, balLock, auditLock>>

RecordEvent(p) == At(p, "event") /\ Free(auditLock, p) /\ Record(p, tx[p])

\* db.commit().
Commit(p) ==
  LET t == tx[p] IN
  /\ ~Idle(p) /\ t.todo = <<>>
  /\ lots' = Over(lots, t.lots)
  /\ drawn' = Plus(drawn, t.drawn)
  /\ adjusted' = Plus(adjusted, t.adjusted)
  /\ balance' = Over(balance, t.bal)
  /\ due' = Plus(due, t.due)
  /\ paid' = Plus(paid, t.paid)
  /\ fate' = Over(fate, t.fate)
  /\ stale' = stale \cup t.stale
  /\ tx' = [tx EXCEPT ![p] = IdleTx]
  /\ ReleaseAll(p)

-----------------------------------------------------------------------------
Init ==
  /\ lots = [l \in Lot |-> IF l \in Stocked THEN NewLot(NONE) ELSE NONE]
  /\ drawn = [l \in Lot |-> 0]
  /\ adjusted = [l \in Lot |-> 0]
  /\ balance = [u \in Unit |-> NONE]
  /\ due = [u \in Unit |-> 0]
  /\ paid = [u \in Unit |-> 0]
  /\ fate = [x \in Piece |-> "bought"]
  /\ lotLock = [l \in Lot |-> NONE]
  /\ balLock = [u \in Unit |-> NONE]
  /\ pieceLock = [x \in Piece |-> NONE]
  /\ auditLock = NONE
  /\ stale = {}
  /\ tx = [p \in Proc |-> IdleTx]

Request(p) ==
  \/ BeginPurchase(p) \/ BeginCashPayment(p) \/ BeginGoldPayment(p)
  \/ BeginAdjust(p) \/ BeginLot(p) \/ BeginMelt(p) \/ BeginPolish(p)

Step(p) ==
  \/ Read(p) \/ Draw(p) \/ Adjust(p) \/ Create(p) \/ Balance(p) \/ Insert(p)
  \/ Decide(p) \/ RecordEvent(p) \/ Commit(p)

\* Nobody asks for anything.
ShopIdle == (\A p \in Proc : Idle(p)) /\ UNCHANGED vars

Next ==
  \/ \E p \in Proc : Request(p) \/ Step(p) \/ Abort(p) \/ DeadlockAbort(p)
  \/ ShopIdle

Spec == Init /\ [][Next]_vars

-----------------------------------------------------------------------------
(* Properties. *)

Steps == [do : {"read", "draw", "adjust", "create", "balance", "insert", "decide", "event"},
          on : Lot \cup Unit \cup Piece \cup {NONE}, by : Int]

TxOK(t) ==
  /\ t.op \in {"none", "purchase", "payment", "adjust", "lot", "melt", "polish"}
  /\ t.todo \in Seq(Steps) /\ t.seen \in Copy \cup {NONE}
  /\ \A l \in DOMAIN t.lots : l \in Lot /\ t.lots[l] \in LotRow

\* Every variable keeps its type, no lot goes below zero grams and no balance below
\* zero: a supplier is never overpaid.
TypeOK ==
  /\ lots \in [Lot -> LotRow \cup {NONE}] /\ \A l \in Lot : Exists(l) => lots[l].left >= 0
  /\ drawn \in [Lot -> Nat] /\ adjusted \in [Lot -> Int]
  /\ balance \in [Unit -> Nat \cup {NONE}]
  /\ due \in [Unit -> Nat] /\ paid \in [Unit -> Nat]
  /\ fate \in [Piece -> Fates] /\ stale \subseteq Lot
  /\ lotLock \in [Lot -> Proc \cup {NONE}] /\ balLock \in [Unit -> Proc \cup {NONE}]
  /\ pieceLock \in [Piece -> Proc \cup {NONE}] /\ auditLock \in Proc \cup {NONE}
  /\ \A p \in Proc : TxOK(tx[p])

\* What is owed is what purchases made due less what was paid, even when two of them
\* race for the first row of a balance (adjust_balance; /inventory/reconcile).
BalanceReconciles == \A u \in Unit :
  due[u] - paid[u] = IF balance[u] = NONE THEN 0 ELSE balance[u]

\* Every gram paid was drawn from a lot (create_payment, create_purchase).
GoldPaidWasDrawn == SumFunctionOnSet(drawn, Lot) = paid["GOLD"]

\* What a supplier is owed and the gold it was paid with agree with the documents,
\* nothing is below zero and the state is well typed.
SuppliersSettled == TypeOK /\ BalanceReconciles /\ GoldPaidWasDrawn

\* The books of a lot: its weight, corrected, less what was drawn; depleted once
\* nothing is left.
InBooks(l) == lots[l].left = Weight + adjusted[l] - drawn[l] /\ (lots[l].depleted <=> lots[l].left = 0)

\* The books of a lot hold through draws and corrections in any order as long as
\* no handler debited it from an outdated copy (consume_from_lot).
BooksKeptUnlessStale == \A l \in Lot : Exists(l) /\ l \notin stale => InBooks(l)

\* A used piece is melted into one lot, or polished, or neither, however many
\* requests ask for it (create_polish and _melt_used_buyback lock its row).
OneFate == \A x \in Piece :
  Cardinality({l \in Lot : Exists(l) /\ lots[l].from = x}) = IF fate[x] = "melted" THEN 1 ELSE 0
=============================================================================
