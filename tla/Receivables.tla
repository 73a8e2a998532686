----------------------------- MODULE Receivables -----------------------------
(***************************************************************************)
(* What customers owe the shop and the shop owes its vendors: invoices and *)
(* receipts (app/core/ar.py), vendor bills and payments                    *)
(* (app/core/expenses.py), credit sales and their void (app/api/orders.py).*)
(* The two subledgers run the same steps; a kind of document tells them    *)
(* apart.  One customer and one vendor, one currency; posting to the       *)
(* general ledger is on.                                                   *)
(*                                                                         *)
(* A process is a request handler.  tx[p] holds the copies of rows its     *)
(* session has loaded, the rows it has written and not committed, and what *)
(* it posts to the control account.  Balances of one kind are one number.  *)
(***************************************************************************)
EXTENDS Integers, Sequences, FiniteSets, Functions

CONSTANTS
  Proc,           \* request handlers that may be in flight at once
  Date,           \* dates a settlement may carry
  DocDate,        \* bound: those a document may carry
  CreditLimit,    \* customers.credit_limit
  DocTotal,       \* bound: totals of a document
  Amount,         \* bound: amounts of a settlement and of an explicit allocation
  MaxDocs,        \* bound: invoices and bills
  MaxSettlements, \* bound: receipts and payments
  MaxAllocs,      \* bound: explicit allocations of a settlement
  None            \* no process, no row

ASSUME NoneAssumption == None \notin Proc /\ None \notin Nat
ASSUME ProcAssumption == IsFiniteSet(Proc)
ASSUME DateAssumption == Date \subseteq Nat /\ DocDate \subseteq Date
ASSUME BoundAssumption ==
  /\ CreditLimit \in Nat
  /\ DocTotal \subseteq Nat \ {0} /\ Amount \subseteq Nat \ {0}
  /\ MaxDocs \in Nat /\ MaxSettlements \in Nat /\ MaxAllocs \in Nat

VARIABLES
  docs,      \* ar_invoices and vendor_bills, in the order they committed
  allocated, \* sum of the allocation rows of each document
  unapplied, \* sum of unapplied_amount of the settlements of each kind
  control,   \* what each kind's control account shows: AR, VENDOR_AP
  seq,       \* gl_entry_sequence: last_seq of each prefix and date, None if absent
  numLock,   \* holder of each of those rows
  docLock,   \* holder of each document's row
  books,     \* holder of the ledger heads
  voided,    \* documents whose sale was voided
  stale,     \* history: dates of settlements written from a copy out of date
  over,      \* history: kinds that had a settlement allocated beyond its amount
  tx         \* the transaction of each process

tables == <<docs, allocated, unapplied, control, seq, voided, stale, over>>
locks == <<numLock, docLock, books>>
receivablesVars == <<tables, locks, tx>>

-----------------------------------------------------------------------------
(* Rows. *)

Kind == {"AR", "BILL"}
Prefix == {"AR", "RC", "BILL", "VP"}

\* A document's row says how it came: on account, by a credit sale (order_id) or
\* paid at once (payment_system_key); last is the date of its latest settlement.
Open(r) == r.status \in {"OPEN", "PARTIAL"}
Owed(r) == r.total - r.paid

Ids == 1..MaxDocs
Known == DOMAIN docs

\* Receipts answer invoices, vendor payments answer bills.
DocPrefix(k) == k
PayPrefix(k) == IF k = "AR" THEN "RC" ELSE "VP"

IdleTx == [op |-> "none", pc |-> "none", of |-> "AR", date |-> None, amount |-> 0,
           how |-> "account", doc |-> None, no |-> None, plan |-> <<>>, base |-> <<>>, copies |-> <<>>,
           pend |-> {}, rows |-> <<>>, applied |-> <<>>, left |-> 0, delta |-> 0, stale |-> {}]

Idle(p) == tx[p].op = "none"
At(p, pc) == tx[p].pc = pc

Put(f, k, v) == [x \in DOMAIN f \cup {k} |-> IF x = k THEN v ELSE f[x]]
Add(f, k, n) == Put(f, k, n + IF k \in DOMAIN f THEN f[k] ELSE 0)

\* A document as the transaction sees it in the table.
RowOf(p, i) == IF i \in DOMAIN tx[p].rows THEN tx[p].rows[i] ELSE docs[i]

-----------------------------------------------------------------------------
(* The subledger, read back. *)

OfKind(k) == {i \in Known : docs[i].of = k}
OwedOf(k) == SumFunctionOnSet([i \in Known |-> Owed(docs[i])], {i \in OfKind(k) : Open(docs[i])})

\* customer_open_balance, and the same sum in verify_vendor_ap.
OpenBalance(k) == OwedOf(k) - unapplied[k]

-----------------------------------------------------------------------------
(* Begin, wait, roll back. *)

Begin(p, t) == Idle(p) /\ tx' = [tx EXCEPT ![p] = t] /\ UNCHANGED <<tables, locks>>

ReleaseAll(p) ==
  /\ numLock' = [x \in Prefix |-> [d \in Date |-> IF numLock[x][d] = p THEN None ELSE numLock[x][d]]]
  /\ docLock' = [i \in Ids |-> IF docLock[i] = p THEN None ELSE docLock[i]]
  /\ books' = IF books = p THEN None ELSE books

Refuse(p) == tx' = [tx EXCEPT ![p] = IdleTx] /\ ReleaseAll(p) /\ UNCHANGED tables

\* The process dies, a statement fails, or a check that is not modelled refuses.
Abort(p) == ~Idle(p) /\ Refuse(p)

Free(lock, p) == lock \in {None, p}
Goto(p, t) == tx' = [tx EXCEPT ![p] = t] /\ UNCHANGED tables

\* Two settlements whose allocations name the same documents in opposite orders.
Deadlocked(p) == \E q \in Proc, i, j \in Ids :
  /\ docLock[i] = q /\ docLock[j] = p
  /\ i \in tx[p].pend /\ j \in tx[q].pend /\ p # q

DeadlockAbort(p) == Deadlocked(p) /\ Refuse(p)

-----------------------------------------------------------------------------
(* Requests. *)

InFlight(op) == Cardinality({p \in Proc : tx[p].op = op})

NewDoc(p, k, how, pc) == \E d \in DocDate, n \in DocTotal :
  /\ Len(docs) + InFlight("doc") < MaxDocs
  /\ Begin(p, [IdleTx EXCEPT !.op = "doc", !.of = k, !.how = how, !.date = d, !.amount = n, !.pc = pc])

\* POST /accounting/ar/invoices, and POST /orders paid on account.
BeginInvoice(p) == \E how \in {"account", "sale"} : NewDoc(p, "AR", how, "limit")

\* POST /accounting/expenses/bills, on account or paid at once.
BeginBill(p) == \E how \in {"account", "paid"} : NewDoc(p, "BILL", how, "post")

SettledBy(x) == SumFunctionOnSet([d \in Date |-> IF seq[x][d] = None THEN 0 ELSE seq[x][d]], Date)
Settlements == SettledBy("RC") + SettledBy("VP")

\* Explicit allocations: a document and an amount each; none means FIFO.
AllocLists(k) == UNION {[1..n -> [doc : OfKind(k), amount : Amount]] : n \in 0..MaxAllocs}

\* POST /accounting/ar/receipts and /accounting/expenses/payments.
BeginSettle(p) == \E k \in Kind, d \in Date, n \in Amount : \E s \in AllocLists(k) :
  /\ Settlements + InFlight("settle") < MaxSettlements
  /\ Begin(p, [IdleTx EXCEPT !.op = "settle", !.of = k, !.date = d, !.amount = n, !.left = n,
                             !.plan = s, !.pc = "number"])

\* POST /orders/{id}/void of a credit sale.
BeginVoid(p) == \E i \in Known :
  docs[i].how = "sale" /\ i \notin voided
    /\ Begin(p, [IdleTx EXCEPT !.op = "void", !.doc = i, !.date = docs[i].date,
                               !.amount = docs[i].total, !.pc = "post"])

-----------------------------------------------------------------------------
(* Steps. *)

\* check_credit_limit: the balance as committed, without a lock.
CheckLimit(p) ==
  /\ At(p, "limit")
  /\ IF OpenBalance("AR") + tx[p].amount > CreditLimit THEN Refuse(p)
     ELSE Goto(p, [tx[p] EXCEPT !.pc = "post"]) /\ UNCHANGED locks

PrefixOf(t) == IF t.op = "settle" THEN PayPrefix(t.of) ELSE DocPrefix(t.of)

\* Mutant: the day's row is not locked by the number taken from it.
NotHeld(p) == None

Held(p) == p

Numbered(p, no) ==
  LET t == tx[p] IN
  /\ numLock' = [numLock EXCEPT ![PrefixOf(t)][t.date] = Held(p)]
  /\ Goto(p, [t EXCEPT !.no = no,
       !.pc = IF t.op # "settle" THEN "commit" ELSE IF t.plan = <<>> THEN "fifo" ELSE "apply"])
  /\ UNCHANGED <<docLock, books>>

\* _next_doc_no: SELECT ... FOR UPDATE of the day's row, which finds nothing and does
\* not wait before the first document of the day has committed.
TakeNumber(p) ==
  LET row == seq[PrefixOf(tx[p])][tx[p].date] IN
  /\ At(p, "number")
  /\ IF row = None THEN Goto(p, [tx[p] EXCEPT !.pc = "insert"]) /\ UNCHANGED locks
     ELSE /\ Free(numLock[PrefixOf(tx[p])][tx[p].date], p)
          /\ Numbered(p, row + 1)

\* INSERT of the day's row: the key makes it wait for another insert, and fail once
\* that one has committed.
InsertNumber(p) ==
  LET x == PrefixOf(tx[p])  d == tx[p].date IN
  /\ At(p, "insert") /\ Free(numLock[x][d], p)
  /\ IF seq[x][d] # None THEN Refuse(p) ELSE Numbered(p, 1)

Applied(n, owed) == IF n < owed THEN n ELSE owed

\* _apply_to_invoice and _apply: the session's copy after n was applied to it.
Settled(r, n) ==
  [r EXCEPT !.paid = @ + n, !.status = IF r.paid + n >= r.total THEN "PAID" ELSE "PARTIAL"]

\* What the copy becomes, what is recorded as applied and what is left.
ApplyTo(t, i, n) ==
  LET a == Applied(n, Owed(t.copies[i])) IN
  [t EXCEPT !.copies[i] = Settled(@, a), !.pend = @ \cup {i},
            !.applied = IF a > 0 THEN Add(@, i, a) ELSE @, !.left = @ - a]

\* An explicit allocation: the document is read without a lock, unless the session has it.
ApplyNext(p) ==
  LET t == tx[p]  al == Head(t.plan)
      loaded == IF al.doc \in DOMAIN t.copies THEN t
                ELSE [t EXCEPT !.base = Put(@, al.doc, docs[al.doc]), !.copies = Put(@, al.doc, docs[al.doc])] IN
  /\ At(p, "apply") /\ t.pend = {} /\ t.plan # <<>>
  /\ Goto(p, [ApplyTo(loaded, al.doc, al.amount) EXCEPT !.plan = Tail(@)])
  /\ UNCHANGED locks

Before(r, s) == r.date < s.date \/ (r.date = s.date /\ r.no < s.no)

\* Oldest first: what reaches document i once the older ones have had theirs.
Reaching(k, n, i) == n - SumFunctionOnSet([j \in Known |-> Owed(docs[j])],
  {j \in OfKind(k) : Open(docs[j]) /\ Before(docs[j], docs[i])})

\* One SELECT of the open documents in order, and the amount applied down the list.
ApplyFifo(p) ==
  LET t == tx[p]
      hit == {i \in OfKind(t.of) : Open(docs[i]) /\ Reaching(t.of, t.amount, i) > 0}
      part == [i \in hit |-> Applied(Reaching(t.of, t.amount, i), Owed(docs[i]))] IN
  /\ At(p, "fifo")
  /\ Goto(p, [t EXCEPT !.pc = "apply", !.base = [i \in hit |-> docs[i]],
                       !.copies = [i \in hit |-> Settled(docs[i], part[i])], !.pend = hit,
                       !.applied = part, !.left = t.amount - SumFunctionOnSet(part, hit)])
  /\ UNCHANGED locks

\* UPDATE of the columns the session changed, over the row as it is now.
Updated(db, base, copy, d) ==
  [db EXCEPT !.paid = IF copy.paid # base.paid THEN copy.paid ELSE @,
             !.status = IF copy.status # base.status THEN copy.status ELSE @, !.last = d]

\* The session flushes a document it changed, in any order when there are several.
Flush(p) == \E i \in tx[p].pend :
  LET t == tx[p]  db == RowOf(p, i) IN
  /\ Free(docLock[i], p)
  /\ docLock' = [docLock EXCEPT ![i] = p]
  /\ Goto(p, [t EXCEPT !.rows = Put(@, i, Updated(db, t.base[i], t.copies[i], t.date)),
                       !.base[i] = t.copies[i], !.pend = @ \ {i},
                       !.stale = IF i \in DOMAIN t.rows \/ db.paid = t.base[i].paid THEN @
                                 ELSE @ \cup {[doc |-> i, dates |-> <<db.last, t.date>>]}])
  /\ UNCHANGED <<numLock, books>>

\* Mutant: money left over does not relieve the control account.
AppliedOnly(applied, left) == applied

\* What a settlement takes off the control account: what was applied, and money left over.
Relieved(applied, left) == applied + IF left > 0 THEN left ELSE 0

\* What the entry adds to what the control account shows as owed.
Posted(t) ==
  CASE t.op = "doc" -> IF t.how = "paid" THEN 0 ELSE t.amount
    [] t.op = "void" -> -t.amount
    [] t.op = "settle" -> -Relieved(SumFunctionOnSet(t.applied, DOMAIN t.applied), t.left)

\* post_entry, which holds the ledger heads to the commit.  The sale's entry is
\* reversed once; the invoice of a voided sale is left as it is.
PostEntry(p) ==
  LET t == tx[p] IN
  /\ At(p, "post") \/ (At(p, "apply") /\ t.plan = <<>> /\ t.pend = {})
  /\ Free(books, p)
  /\ IF t.op = "void" /\ t.doc \in voided THEN Refuse(p)
     ELSE /\ books' = p
          /\ Goto(p, [t EXCEPT !.delta = Posted(t), !.base = <<>>, !.copies = <<>>,
               !.pc = IF t.op = "doc" THEN "number" ELSE "commit"])
          /\ UNCHANGED <<numLock, docLock>>

PaidAtOnce(r) == IF r.how = "paid" THEN r.total ELSE 0

NewRow(t) ==
  LET r == [of |-> t.of, how |-> t.how, date |-> t.date, no |-> t.no, total |-> t.amount,
            paid |-> 0, status |-> IF t.how = "paid" THEN "PAID" ELSE "OPEN", last |-> None] IN
  [r EXCEPT !.paid = PaidAtOnce(r)]

\* db.commit().
Commit(p) ==
  LET t == tx[p]
      written == [i \in Known |-> RowOf(p, i)] IN
  /\ At(p, "commit")
  /\ docs' = IF t.op = "doc" THEN Append(docs, NewRow(t)) ELSE written
  /\ allocated' = [i \in Ids |-> allocated[i] + IF i \in DOMAIN t.applied THEN t.applied[i] ELSE 0]
  /\ control' = [control EXCEPT ![t.of] = @ + t.delta]
  /\ unapplied' = [unapplied EXCEPT ![t.of] = @ + t.left]
  /\ seq' = IF t.no = None THEN seq ELSE [seq EXCEPT ![PrefixOf(t)][t.date] = t.no]
  /\ voided' = IF t.op = "void" THEN voided \cup {t.doc} ELSE voided
  /\ stale' = stale \cup t.stale
  /\ over' = IF t.left < 0 THEN over \cup {t.of} ELSE over
  /\ tx' = [tx EXCEPT ![p] = IdleTx]
  /\ ReleaseAll(p)

-----------------------------------------------------------------------------
ReceivablesInit ==
  /\ docs = <<>>
  /\ allocated = [i \in Ids |-> 0]
  /\ unapplied = [k \in Kind |-> 0]
  /\ control = [k \in Kind |-> 0]
  /\ seq = [x \in Prefix |-> [d \in Date |-> None]]
  /\ numLock = [x \in Prefix |-> [d \in Date |-> None]]
  /\ docLock = [i \in Ids |-> None]
  /\ books = None
  /\ voided = {}
  /\ stale = {}
  /\ over = {}
  /\ tx = [p \in Proc |-> IdleTx]

Request(p) == BeginInvoice(p) \/ BeginBill(p) \/ BeginSettle(p) \/ BeginVoid(p)

Step(p) ==
  \/ CheckLimit(p) \/ TakeNumber(p) \/ InsertNumber(p) \/ ApplyNext(p) \/ ApplyFifo(p)
  \/ Flush(p) \/ PostEntry(p) \/ Commit(p)

\* Nobody asks for anything.
Quiet == (\A p \in Proc : Idle(p)) /\ UNCHANGED receivablesVars

ReceivablesNext ==
  \/ \E p \in Proc : Request(p) \/ Step(p) \/ Abort(p) \/ DeadlockAbort(p)
  \/ Quiet

ReceivablesSpec == ReceivablesInit /\ [][ReceivablesNext]_receivablesVars

-----------------------------------------------------------------------------
(* Properties. *)

StaleDocs == {s.doc : s \in stale}

\* What a document shows as paid is what was allocated to it, it is never paid
\* beyond its total, and it is PAID exactly when nothing is owed, whatever the order of
\* receipts and explicit allocations (post_receipt, post_vendor_payment), unless one
\* of them wrote it from a copy out of date.
PaidIsAllocated == \A i \in Known \ StaleDocs :
  LET r == docs[i] IN
  /\ r.paid = PaidAtOnce(r) + allocated[i] /\ r.paid <= r.total
  /\ r.status = (IF r.paid = r.total THEN "PAID" ELSE IF r.paid = 0 THEN "OPEN" ELSE "PARTIAL")

\* Settlements of one date take the day's number before they read what they settle, and
\* keep it to the commit: only settlements of different dates can overwrite each other.
StaleOnlyAcrossDates == \A s \in stale : s.dates[1] # s.dates[2]

\* What a settlement pays is kept, except by another of a different date.
SettlementsKept == PaidIsAllocated /\ StaleOnlyAcrossDates

\* What the code lets happen that keeps a subledger from agreeing with its account.
Disturbed(k) ==
  \/ k \in over
  \/ \E i \in OfKind(k) : i \in voided \/ i \in StaleDocs

\* /accounting/ar/verify and /accounting/expenses/verify: the control account shows
\* what the subledger owes, over any history of invoices, bills paid and on account,
\* partial, exact and excessive settlements (verify_ar_control, verify_vendor_ap).
TiesOutUnlessDisturbed == \A k \in Kind : Disturbed(k) \/ control[k] = OpenBalance(k)
=============================================================================
