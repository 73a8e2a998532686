---------------------------- MODULE GeneralLedger ----------------------------
(***************************************************************************)
(* The general ledger of the shop: the posting engine (app/core/gl.py),    *)
(* the mappers that post business documents (app/core/gl_postings.py), the *)
(* audit-ledger append every posting makes (app/core/ledger.py), the       *)
(* accounting endpoints and the period controls (app/api/accounting.py,    *)
(* app/core/period_close.py) and the historical replay's posting loop      *)
(* (app/core/gl_replay.py).                                                *)
(*                                                                         *)
(* A process is a request handler with its own database transaction, at    *)
(* READ COMMITTED: it reads what is committed (and its own writes), its    *)
(* writes stay in tx[p] until Commit, and a row lock it takes is held      *)
(* until it commits or rolls back.  Reads without a lock and the locked    *)
(* write they lead to are separate steps.                                  *)
(***************************************************************************)
EXTENDS Integers, Sequences, FiniteSets

CONSTANTS
  Proc,           \* request handlers that may be in flight at once
  Doc,            \* business documents: sales, purchases, buybacks, ...
  NumMonths,      \* accounting periods of the model, 1..NumMonths
  MonthsPerYear,  \* 12 in the program
  MaxEntries,     \* no posting is requested once the journal holds this many
  MaxRows,        \* nothing is requested once the audit ledger holds this many
  NONE            \* no process, no document

ASSUME NoneAssumption == NONE \notin Proc /\ NONE \notin Doc
ASSUME CalendarAssumption ==
  /\ MonthsPerYear \in Nat \ {0}
  /\ NumMonths \in Nat \ {0}
  /\ MaxEntries \in Nat /\ MaxRows \in Nat

VARIABLES
  journal,      \* committed gl_journal_entries, in posting order
  glHead,       \* gl_journal_chain_head: depth of the entry it names
  audit,        \* committed inventory_ledger rows
  auditHead,    \* inventory_ledger_chain_head: depth of the row it names
  pnl,          \* trial balance: profit not yet moved to retained earnings,
                \* over the entries dated up to the end of each year
  period,       \* gl_periods: status of each month, ABSENT without a row
  doc,          \* documents: state and the months of its two events
  autoPost,     \* settings.accounting_auto_post_enabled
  today,        \* the current month
  ledgerLock,   \* holder of the audit-ledger head row
  glLock,       \* holder of the GL head row
  periodLock,   \* holder of each gl_periods row (or of its unique key)
  tx            \* the transaction of each process

vars == <<journal, glHead, audit, auditHead, pnl, period, doc, autoPost, today,
          ledgerLock, glLock, periodLock, tx>>
tables == <<journal, glHead, audit, auditHead, pnl, period, doc, autoPost>>
locks  == <<ledgerLock, glLock, periodLock>>

-----------------------------------------------------------------------------
(* The calendar. *)

Month == 1..NumMonths
YearOf(m) == ((m - 1) \div MonthsPerYear) + 1
Year == {YearOf(m) : m \in Month}
MonthsOf(y) == {m \in Month : YearOf(m) = y}
December(y) == y * MonthsPerYear

Status == {"ABSENT", "OPEN", "CLOSED"}
Kinds  == {"MANUAL", "DOC", "PARTIAL", "REVERSAL", "YEAR_CLOSE"}

\* A journal entry: DOC posts a document, PARTIAL the refund of one of its lines.
\* `prev` is the depth of the entry whose hash it was chained to, `reverses` the
\* index of the entry it reverses (0: none).
Entry == [kind : Kinds, doc : Doc \cup {NONE}, reverses : Nat, month : Month, prev : Nat]

\* An audit-ledger row: `entry` is the journal entry a GL_ENTRY_POSTED row
\* names, 0 for every other event.
Row == [prev : Nat, entry : Nat]

\* A posting some handler still has to make: UNDO reverses a document's entry,
\* REVERSE the entry `target`; `amount` is the profit a YEAR_CLOSE moves.
Posting == [kind : {"MANUAL", "DOC", "PARTIAL", "UNDO", "REVERSE", "YEAR_CLOSE"},
            doc : Doc \cup {NONE}, target : Nat, month : Month, amount : Int]

NewPosting(k, d, m) == [kind |-> k, doc |-> d, target |-> 0, month |-> m, amount |-> 0]
NoPosting == NewPosting("MANUAL", NONE, 1)

Ops == {"none", "manual", "reverse", "sale", "void", "refund", "itemRefund", "replay",
        "close", "reopen", "open", "closeYear", "autoOn", "autoOff"}

\* The handlers that write their own audit event, and so hold the audit-ledger
\* head, before they post.
EventFirst == {"sale", "void", "itemRefund"}

Unwritten == [m \in Month |-> "SAME"]
NoProfit  == [y \in Year |-> 0]

IdleTx == [pc |-> "idle", op |-> "none", todo |-> {}, cur |-> NoPosting,
           doc |-> NONE, opens |-> {}, months |-> Unwritten,
           entries |-> <<>>, rows |-> <<>>, pnl |-> NoProfit]

\* The transaction of a request that has postings to make, and of one that works
\* on a month.
Posts(c, o, d, s)  == [IdleTx EXCEPT !.pc = c, !.op = o, !.doc = d, !.todo = s]
WorksOn(c, o, u, w) == [IdleTx EXCEPT !.pc = c, !.op = o, !.cur = u, !.months = w]

-----------------------------------------------------------------------------
(* What a transaction sees. *)

\* Committed entries followed by the transaction's own.
Seen(p) == journal \o tx[p].entries

PeriodSeen(p, m) == IF tx[p].months[m] = "SAME" THEN period[m] ELSE tx[p].months[m]

\* gl.find_reversal: is entry i of the journal s reversed?
IsReversed(s, i) == \E k \in DOMAIN s : s[k].reverses = i

\* gl_postings.find_live_entry: the forward entries of document d.
LiveEntries(s, d) == {i \in DOMAIN s : s[i].kind = "DOC" /\ s[i].doc = d}

\* Every entry of a document or by hand earns one unit; the refund of a line and
\* a reversal give back what was earned; a closing entry moves the balance away.
Profit(p, posting) ==
  CASE posting.kind = "YEAR_CLOSE" -> posting.amount
    [] posting.kind \in {"UNDO", "PARTIAL"} -> -1
    [] posting.kind = "REVERSE" -> IF Seen(p)[posting.target].kind = "PARTIAL" THEN 1 ELSE -1
    [] OTHER -> 1

\* period_close._year_already_closed.
YearAlreadyClosed(s, y) ==
  \E i \in DOMAIN s : /\ s[i].kind = "YEAR_CLOSE" /\ YearOf(s[i].month) = y
                      /\ ~IsReversed(s, i)

\* period_close._gl_chain_intact: each entry chained to its predecessor.
ChainIntact(s) == \A i \in DOMAIN s : s[i].prev = i - 1

\* period_close.close_readiness, the hard gates.
CanClose(m) ==
  /\ \A e \in Month : e < m => period[e] # "OPEN"
  /\ ChainIntact(journal)

\* A forward entry for the same source: an order, or an order line's refund.
SamePosted(s, e) == \E i \in DOMAIN s :
  e.kind \in {"DOC", "PARTIAL"} /\ s[i].kind = e.kind /\ s[i].doc = e.doc

\* Mutants: a guard on the source of an entry alone, and none.
SameSource(p, e) == SamePosted(Seen(p), e)
NoGuard(p, e) == FALSE

\* gl._refuse_duplicate_posting, looked up under the head locks.
DuplicatePosting(p, e) ==
  IF e.reverses # 0 THEN IsReversed(Seen(p), e.reverses) ELSE SamePosted(Seen(p), e)

-----------------------------------------------------------------------------
(* Transactions: begin, roll back, wait. *)

Idle(p) == tx[p].pc = "idle"

\* Bounds of the model: a finite number of requests.
RoomToRequest == Len(journal) < MaxEntries /\ Len(audit) < MaxRows

Begin(p, t) ==
  /\ Idle(p) /\ RoomToRequest
  /\ tx' = [tx EXCEPT ![p] = t]
  /\ UNCHANGED <<tables, today, locks>>

Released(lock, p) == IF lock = p THEN NONE ELSE lock
ReleaseAll(p) ==
  /\ ledgerLock' = Released(ledgerLock, p)
  /\ glLock' = Released(glLock, p)
  /\ periodLock' = [m \in Month |-> Released(periodLock[m], p)]

\* An HTTPException or a database error: the session is rolled back.
Refuse(p) ==
  /\ tx' = [tx EXCEPT ![p] = IdleTx]
  /\ ReleaseAll(p)
  /\ UNCHANGED <<tables, today>>

Free(lock, p) == lock \in {NONE, p}

\* Who keeps p waiting, if p is waiting for a row lock.
Blockers(p) ==
  (CASE tx[p].pc \in {"event", "ledger"} -> {ledgerLock}
     [] tx[p].pc = "gl" -> {glLock}
     [] tx[p].pc \in {"newPeriod", "setPeriod"} -> {periodLock[tx[p].cur.month]}
     [] tx[p].pc = "nextYear" -> {periodLock[m] : m \in tx[p].opens}
     [] OTHER -> {}) \ {NONE, p}

\* Each of S waits for another of S, and keeps another waiting.
Circle(S) ==
  S # {} /\ \A q \in S : Blockers(q) \cap S # {} /\ \E r \in S : q \in Blockers(r)
Deadlocked(p) == \E S \in SUBSET Proc : p \in S /\ Circle(S)

\* PostgreSQL's deadlock detector aborts one transaction of a waiting cycle.
DeadlockAbort(p) == Deadlocked(p) /\ Refuse(p)

-----------------------------------------------------------------------------
(* Requests. *)

\* POST /journal-entries, and every posting of source AR_*, VENDOR_* or
\* TRANSFER: source types that carry no duplicate guard.
BeginManual(p) == \E m \in DOMAIN period :
  Begin(p, Posts("check", "manual", NONE, {NewPosting("MANUAL", NONE, m)}))

\* POST /journal-entries/{id}/reverse.
BeginReverse(p) == \E i \in DOMAIN journal :
  Begin(p, Posts("check", "reverse", NONE,
                 {[NewPosting("REVERSE", NONE, today) EXCEPT !.target = i]}))

InFlight(d) == \E q \in Proc : tx[q].doc = d

\* A document is created: POST /orders, /supplier purchases, /buybacks, ...
\* Its audit event is written first; the settings were read on entry.
BeginSale(p) == \E d \in Doc :
  /\ doc[d].state = "NEW" /\ ~InFlight(d)
  /\ Begin(p, Posts("event", "sale", d, IF autoPost THEN {NewPosting("DOC", d, today)} ELSE {}))

\* POST /orders/{id}/void, /refund and /items/{id}/refund: the order row is locked
\* by the handler, so one of them at a time acts on a document, and only on a live
\* one.  Only /refund writes no audit event of its own.
BeginUndo(p, op) == \E d \in Doc :
  /\ doc[d].state = "LIVE" /\ ~InFlight(d)
  /\ Begin(p, Posts(IF op \in EventFirst THEN "event" ELSE "check", op, d,
                    {NewPosting(IF op = "itemRefund" THEN "PARTIAL" ELSE "UNDO", d, today)}))

\* gl_replay.replay_history: every committed document, and the refund or reversal
\* of those undone, each on its own date; refused when one of them that the
\* journal does not hold falls in a closed year.
ReplaySteps ==
  {NewPosting("DOC", d, doc[d].month) : d \in {x \in Doc : doc[x].state # "NEW"}}
  \cup {NewPosting("UNDO", d, doc[d].undone) : d \in {x \in Doc : doc[x].state = "VOID"}}
  \cup {NewPosting("PARTIAL", d, doc[d].undone) : d \in {x \in Doc : doc[x].state = "PART"}}

\* Mutant: a mapper that does not look for the reversal of the entry it found.
SettledByDocument(j, s) == SamePosted(j, s)

\* Nothing is left to post for s in the journal j.
Settled(j, s) ==
  \/ SamePosted(j, s)
  \/ s.kind # "DOC" /\ LiveEntries(j, s.doc) # {}
                    /\ \A i \in LiveEntries(j, s.doc) : IsReversed(j, i)

BeginReplay(p) ==
  /\ ReplaySteps # {}
  /\ ChainIntact(journal) /\ glHead = Len(journal)
  /\ \A s \in ReplaySteps :
       YearAlreadyClosed(journal, YearOf(s.month)) => Settled(journal, s)
  /\ Begin(p, Posts("check", "replay", NONE, ReplaySteps))

\* POST /periods/{id}/close and /reopen: the row is read without a lock, and
\* only a status that differs from the one read is written (ORM change
\* tracking); close always writes the row, reopen only if it was closed.
BeginClose(p) == \E m \in Month :
  /\ period[m] # "ABSENT" /\ CanClose(m)
  /\ Begin(p, WorksOn("setPeriod", "close", NewPosting("MANUAL", NONE, m),
                      IF period[m] = "OPEN" THEN [Unwritten EXCEPT ![m] = "CLOSED"] ELSE Unwritten))

BeginReopen(p) == \E m \in Month :
  \/ /\ period[m] = "CLOSED"
     /\ Begin(p, WorksOn("setPeriod", "reopen", NewPosting("MANUAL", NONE, m),
                         [Unwritten EXCEPT ![m] = "OPEN"]))
  \/ /\ period[m] = "OPEN"
     /\ Begin(p, WorksOn("event", "reopen", NewPosting("MANUAL", NONE, m), Unwritten))

\* POST /periods: writes no audit event.
BeginOpen(p) == \E m \in Month :
  /\ period[m] = "ABSENT"
  /\ Begin(p, WorksOn("newPeriod", "open", NewPosting("MANUAL", NONE, m), Unwritten))

\* period_close.close_year up to its first write: the guards and the preview.
BeginCloseYear(p) == \E y \in Year :
  /\ December(y) \in Month
  /\ \A m \in MonthsOf(y) : period[m] # "OPEN"
  /\ \E m \in MonthsOf(y) : period[m] # "ABSENT"
  /\ ~YearAlreadyClosed(journal, y)
  /\ pnl[y] # 0
  /\ Begin(p, WorksOn(IF period[December(y)] = "ABSENT" THEN "newPeriod" ELSE "ledger", "closeYear",
       [NewPosting("YEAR_CLOSE", NONE, December(y)) EXCEPT !.amount = -pnl[y]], Unwritten))

\* PATCH /settings moving the master switch: turning it on is refused while the
\* current month is closed.
BeginSettings(p) ==
  /\ autoPost \/ period[today] # "CLOSED"
  /\ Begin(p, Posts("event", IF autoPost THEN "autoOff" ELSE "autoOn", NONE, {}))

-----------------------------------------------------------------------------
(* Steps inside a transaction. *)

\* After this posting (or event): the next one, or commit.  A replay that posted
\* something ends with a GL_HISTORY_REPLAYED event.
Continue(t) ==
  IF t.todo # {} THEN "check"
  ELSE IF t.op = "replay" /\ t.entries # <<>> /\ t.pc # "event" THEN "event" ELSE "commit"

Advance(t) == [t EXCEPT !.pc = Continue(t)]

\* Mutant: the head row is not flushed between two appends of a transaction.
HeadOnly(s, head) == head

LastPrev(s, head) == IF s = <<>> THEN head ELSE s[Len(s)].prev + 1

\* ledger.record: lock the head, chain the row to it, advance it.
AppendRow(p, t, entry) ==
  [t EXCEPT !.rows = Append(@, [prev |-> LastPrev(tx[p].rows, auditHead), entry |-> entry])]

\* The replay verifies the chain once more before its event.
RecordEvent(p) ==
  /\ tx[p].pc = "event" /\ Free(ledgerLock, p)
  /\ IF tx[p].op = "replay" /\ ~ChainIntact(Seen(p)) THEN Refuse(p)
     ELSE /\ ledgerLock' = p
          /\ tx' = [tx EXCEPT ![p] = AppendRow(p, Advance(tx[p]), 0)]
          /\ UNCHANGED <<tables, today, glLock, periodLock>>

\* Mutant: a close that records no audit event.
SetUnrecorded(p) ==
  LET m == tx[p].cur.month IN
  /\ tx[p].pc = "setPeriod" /\ Free(periodLock[m], p)
  /\ periodLock' = [periodLock EXCEPT ![m] = p]
  /\ tx' = [tx EXCEPT ![p].pc = "commit"]
  /\ UNCHANGED <<tables, today, ledgerLock, glLock>>

\* UPDATE gl_periods, flushed before the audit-ledger head is asked for.
SetPeriod(p) ==
  LET m == tx[p].cur.month IN
  /\ tx[p].pc = "setPeriod" /\ Free(periodLock[m], p)
  /\ periodLock' = [periodLock EXCEPT ![m] = p]
  /\ tx' = [tx EXCEPT ![p].pc = "event"]
  /\ UNCHANGED <<tables, today, ledgerLock, glLock>>

\* The posting that comes next: replay goes through its documents by date, a
\* sale before the reversal of the same day.
Earlier(s, r) == s.month < r.month \/ (s.month = r.month /\ s.kind = "DOC" /\ r.kind # "DOC")
NextPostings(p) == {s \in tx[p].todo : \A r \in tx[p].todo : ~Earlier(r, s)}

\* A posting a mapper (post_sale, post_order_refund) returns from without posting:
\* the switch is off, there is no entry to undo, or nothing is left to post.
Skipped(p, s) ==
  /\ s.kind \in {"DOC", "PARTIAL", "UNDO"}
  /\ \/ s.kind # "DOC" /\ tx[p].op # "replay" /\ ~autoPost
     \/ s.kind # "DOC" /\ LiveEntries(Seen(p), s.doc) = {}
     \/ Settled(Seen(p), s)

\* The guards of gl.reverse_entry.
Reversible(p, i) ==
  /\ Seen(p)[i].reverses = 0
  /\ Seen(p)[i].kind # "YEAR_CLOSE"
  /\ ~IsReversed(Seen(p), i)

\* What the heads are locked for, once the unlocked checks have passed.
Resolved(p, s) ==
  IF s.kind = "UNDO"
  THEN [s EXCEPT !.target = CHOOSE i \in LiveEntries(Seen(p), s.doc) : TRUE]
  ELSE s

Without(t, s) == [t EXCEPT !.todo = @ \ {s}]

Skip(p) == \E s \in NextPostings(p) :
  /\ tx[p].pc = "check" /\ Skipped(p, s)
  /\ tx' = [tx EXCEPT ![p] = Advance(Without(tx[p], s))]
  /\ UNCHANGED <<tables, today, locks>>

\* find_live_entry, find_reversal, ensure_period, _resolve_open_period: no lock.
Check(p) == \E s \in NextPostings(p) :
  /\ tx[p].pc = "check" /\ ~Skipped(p, s)
  /\ IF \/ s.kind = "REVERSE" /\ ~Reversible(p, s.target)
        \/ PeriodSeen(p, s.month) = "CLOSED"
        \/ PeriodSeen(p, s.month) = "ABSENT" /\ s.kind \in {"MANUAL", "REVERSE"}
     THEN Refuse(p)
     ELSE /\ tx' = [tx EXCEPT ![p] = [Without(tx[p], s) EXCEPT !.cur = Resolved(p, s),
               !.pc = IF PeriodSeen(p, s.month) = "ABSENT" THEN "newPeriod" ELSE "ledger"]]
          /\ UNCHANGED <<tables, today, locks>>

\* INSERT into gl_periods: waits for a transaction that inserted the same month,
\* and fails on its unique index once that one has committed.  close_year adds
\* the missing December as CLOSED.
InsertPeriod(p) ==
  LET m == tx[p].cur.month IN
  /\ tx[p].pc = "newPeriod" /\ Free(periodLock[m], p)
  /\ IF period[m] # "ABSENT" THEN Refuse(p)
     ELSE /\ periodLock' = [periodLock EXCEPT ![m] = p]
          /\ tx' = [tx EXCEPT
               ![p].months[m] = IF tx[p].op = "closeYear" THEN "CLOSED" ELSE "OPEN",
               ![p].pc = IF tx[p].op = "open" THEN "commit" ELSE "ledger"]
          /\ UNCHANGED <<tables, today, ledgerLock, glLock>>

\* Mutant: the GL head is asked for before the audit-ledger head.
LockHeadsSwapped(p) ==
  /\ tx[p].pc = "ledger"
  /\ \/ /\ glLock # p /\ Free(glLock, p) /\ glLock' = p
        /\ UNCHANGED <<tx, ledgerLock>>
     \/ /\ glLock = p /\ Free(ledgerLock, p) /\ ledgerLock' = p
        /\ tx' = [tx EXCEPT ![p].pc = "gl"] /\ UNCHANGED glLock
  /\ UNCHANGED <<tables, today, periodLock>>

\* ledger.lock_head in gl.post_entry: the audit-ledger head before the GL head.
LockLedger(p) ==
  /\ tx[p].pc = "ledger" /\ Free(ledgerLock, p)
  /\ ledgerLock' = p
  /\ tx' = [tx EXCEPT ![p].pc = "gl"]
  /\ UNCHANGED <<tables, today, glLock, periodLock>>

\* The entry gl.post_entry inserts for the current posting.
EntryFor(p) ==
  LET c == tx[p].cur IN
  [kind     |-> IF c.kind \in {"UNDO", "REVERSE"} THEN "REVERSAL" ELSE c.kind,
   doc      |-> IF c.kind = "UNDO" THEN NONE ELSE c.doc,
   reverses |-> c.target,
   month    |-> c.month,
   prev     |-> LastPrev(tx[p].entries, glHead)]

\* The transaction with that entry written and GL_ENTRY_POSTED recorded.
Earned(p) == [y \in Year |-> IF tx[p].cur.month > December(y) THEN tx[p].pnl[y]
                             ELSE tx[p].pnl[y] + Profit(p, tx[p].cur)]
WithEntry(p) == [tx[p] EXCEPT !.entries = Append(@, EntryFor(p)), !.pnl = Earned(p)]

\* Mutant: an entry that is not reported to the audit ledger.
PostedSilently(p) == Advance(WithEntry(p))

Posted(p) == AppendRow(p, Advance(WithEntry(p)), Len(journal) + Len(tx[p].entries) + 1)

\* close_year then records its own event and looks for the months next year lacks.
YearClosed(p) ==
  [Posted(p) EXCEPT
     !.pc = "nextYear",
     !.rows = Append(@, [prev |-> LastPrev(@, auditHead), entry |-> 0]),
     !.opens = {m \in MonthsOf(YearOf(tx[p].cur.month) + 1) : period[m] = "ABSENT"}]

\* Mutant: the audit head released as soon as the entry is inserted.
PostReleasing(p) ==
  /\ tx[p].pc = "gl" /\ Free(glLock, p)
  /\ IF DuplicatePosting(p, EntryFor(p)) THEN Refuse(p)
     ELSE /\ glLock' = p /\ ledgerLock' = NONE
          /\ tx' = [tx EXCEPT ![p] = IF tx[p].op = "closeYear" THEN YearClosed(p) ELSE Posted(p)]
          /\ UNCHANGED <<tables, today, periodLock>>

\* Under both locks: refuse a duplicate, or insert the entry and advance the head.
Post(p) ==
  /\ tx[p].pc = "gl" /\ Free(glLock, p)
  /\ IF DuplicatePosting(p, EntryFor(p)) THEN Refuse(p)
     ELSE /\ glLock' = p
          /\ tx' = [tx EXCEPT ![p] = IF tx[p].op = "closeYear" THEN YearClosed(p) ELSE Posted(p)]
          /\ UNCHANGED <<tables, today, ledgerLock, periodLock>>

\* close_year inserts next year's missing months.
Opened(p) == [m \in Month |-> IF m \in tx[p].opens THEN "OPEN" ELSE tx[p].months[m]]

OpenNextYear(p) ==
  /\ tx[p].pc = "nextYear"
  /\ \A m \in tx[p].opens : Free(periodLock[m], p)
  /\ IF \E m \in tx[p].opens : period[m] # "ABSENT" THEN Refuse(p)
     ELSE /\ periodLock' = [m \in Month |-> IF m \in tx[p].opens THEN p ELSE periodLock[m]]
          /\ tx' = [tx EXCEPT ![p] = [@ EXCEPT !.pc = "commit", !.months = Opened(p)]]
          /\ UNCHANGED <<tables, today, ledgerLock, glLock>>

\* What the handler does to its document.
DocsAfter(t) ==
  CASE t.op = "sale" -> [doc EXCEPT ![t.doc] = [@ EXCEPT !.state = "LIVE", !.month = today]]
    [] t.op \in {"void", "refund"} ->
         [doc EXCEPT ![t.doc] = [@ EXCEPT !.state = "VOID", !.undone = today]]
    [] t.op = "itemRefund" ->
         [doc EXCEPT ![t.doc] = [@ EXCEPT !.state = "PART", !.undone = today]]
    [] OTHER -> doc

\* db.commit(): everything the transaction wrote becomes visible at once.
Commit(p) ==
  LET t == tx[p] IN
  /\ t.pc = "commit"
  /\ journal' = journal \o t.entries
  /\ glHead' = LastPrev(t.entries, glHead)
  /\ audit' = audit \o t.rows
  /\ auditHead' = LastPrev(t.rows, auditHead)
  /\ pnl' = [y \in Year |-> pnl[y] + t.pnl[y]]
  /\ period' = [m \in Month |-> PeriodSeen(p, m)]
  /\ doc' = DocsAfter(t)
  /\ autoPost' = (t.op = "autoOn" \/ (autoPost /\ t.op # "autoOff"))
  /\ tx' = [tx EXCEPT ![p] = IdleTx]
  /\ ReleaseAll(p)
  /\ UNCHANGED today

-----------------------------------------------------------------------------
Init ==
  /\ journal = <<>> /\ glHead = 0
  /\ audit = <<>> /\ auditHead = 0
  /\ pnl = NoProfit
  /\ period \in [Month -> {"ABSENT", "OPEN"}]
  /\ doc = [d \in Doc |-> [state |-> "NEW", month |-> 1, undone |-> 1]]
  /\ autoPost \in BOOLEAN
  /\ today = 1
  /\ ledgerLock = NONE /\ glLock = NONE
  /\ periodLock = [m \in Month |-> NONE]
  /\ tx = [p \in Proc |-> IdleTx]

\* The month turns.  A transaction is short: its dates are those of the month
\* it began in, so the month turns between transactions.
Tick ==
  /\ today < NumMonths /\ \A p \in Proc : Idle(p)
  /\ today' = today + 1
  /\ UNCHANGED <<tables, locks, tx>>

\* Nobody asks for anything.
ShopIdle == (\A p \in Proc : Idle(p)) /\ UNCHANGED vars

Request(p) ==
  \/ BeginManual(p) \/ BeginReverse(p)
  \/ BeginSale(p) \/ BeginUndo(p, "void") \/ BeginUndo(p, "refund")
  \/ BeginUndo(p, "itemRefund") \/ BeginReplay(p)
  \/ BeginClose(p) \/ BeginReopen(p) \/ BeginOpen(p) \/ BeginCloseYear(p)
  \/ BeginSettings(p)

Step(p) ==
  \/ RecordEvent(p) \/ SetPeriod(p) \/ Skip(p) \/ Check(p) \/ InsertPeriod(p)
  \/ LockLedger(p) \/ Post(p) \/ OpenNextYear(p) \/ Commit(p)

Next ==
  \/ \E p \in Proc : Request(p) \/ Step(p) \/ DeadlockAbort(p)
  \/ Tick \/ ShopIdle

Spec == Init /\ [][Next]_vars

\* A row lock that is let go of is granted in the end: PostgreSQL queues its
\* waiters.  Nothing obliges anyone to send a request, and nothing is assumed of
\* the deadlock detector.
Fairness == \A p \in Proc : SF_vars(Step(p))
FairSpec == Spec /\ Fairness
-----------------------------------------------------------------------------
(* Properties. *)

Tx == [pc : {"idle", "event", "setPeriod", "check", "newPeriod", "ledger", "gl",
             "nextYear", "commit"},
       op : Ops, todo : SUBSET Posting, cur : Posting, doc : Doc \cup {NONE},
       opens : SUBSET Month, months : [Month -> Status \cup {"SAME"}],
       entries : Seq(Entry), rows : Seq(Row), pnl : [Year -> Int]]

DocRecord == [state : {"NEW", "LIVE", "VOID", "PART"}, month : Month, undone : Month]

\* Every variable keeps its type.
TypeOK ==
  /\ journal \in Seq(Entry) /\ glHead \in Nat
  /\ audit \in Seq(Row) /\ auditHead \in Nat
  /\ pnl \in [Year -> Int]
  /\ period \in [Month -> Status]
  /\ doc \in [Doc -> DocRecord]
  /\ autoPost \in BOOLEAN
  /\ today \in Month
  /\ ledgerLock \in Proc \cup {NONE} /\ glLock \in Proc \cup {NONE}
  /\ periodLock \in [Month -> Proc \cup {NONE}]
  /\ tx \in [Proc -> Tx]

\* Neither hash chain forks or skips, whatever handlers interleave: each entry is
\* chained to its predecessor and the head names the last one (the head rows are
\* read under their lock in gl.post_entry and ledger.record).
ChainLinear ==
  /\ ChainIntact(journal) /\ glHead = Len(journal)
  /\ \A i \in DOMAIN audit : audit[i].prev = i - 1
  /\ auditHead = Len(audit)

\* What is not yet committed was written under the locks: a row under the audit
\* head, an entry under both heads, the GL head never without the audit head
\* (the lock-ordering note of gl.post_entry).
LockDiscipline ==
  /\ glLock # NONE => ledgerLock = glLock
  /\ \A p \in Proc :
       /\ tx[p].rows # <<>> \/ tx[p].pc = "gl" => ledgerLock = p
       /\ tx[p].entries # <<>> => glLock = p
       /\ tx[p].pc = "idle" => tx[p].rows = <<>> /\ tx[p].entries = <<>>

\* What a transaction has written continues the committed chains.
PendingChained == \A p \in Proc :
  /\ \A i \in DOMAIN tx[p].entries : tx[p].entries[i].prev = Len(journal) + i - 1
  /\ \A i \in DOMAIN tx[p].rows : tx[p].rows[i].prev = Len(audit) + i - 1

\* A reversal points back at an earlier entry that is neither a reversal nor a
\* year close, and no entry is reversed twice, although void, refund, the journal's
\* reverse button and the replay all look before they lock (gl.reverse_entry).
OneReversal == \A i \in DOMAIN journal :
  journal[i].kind = "REVERSAL" =>
    LET t == journal[i].reverses IN
    /\ t \in 1..(i - 1) /\ journal[t].kind \notin {"REVERSAL", "YEAR_CLOSE"}
    /\ \A k \in DOMAIN journal : journal[k].reverses = t => k = i

\* A document, and the refund of its line, is posted at most once, by its handler
\* or by the replay (gl_postings.find_live_entry, gl._refuse_duplicate_posting).
OneLiveEntry == \A i, k \in DOMAIN journal :
  /\ journal[i].kind \in {"DOC", "PARTIAL"} /\ journal[k].kind = journal[i].kind
  /\ journal[i].doc = journal[k].doc
  => i = k

\* The audit ledger reports every journal entry, once and in the journal's order
\* (GL_ENTRY_POSTED is recorded inside gl.post_entry, under both heads).
AuditMirrorsJournal ==
  /\ {audit[r].entry : r \in DOMAIN audit} \ {0} = DOMAIN journal
  /\ \A q, r \in DOMAIN audit :
       q < r /\ audit[q].entry # 0 /\ audit[r].entry # 0 => audit[q].entry < audit[r].entry

\* The one lock order of the two heads (the note in gl.post_entry) keeps handlers
\* that wait only for heads from waiting on each other in a cycle.
HeadsNeverDeadlock == \A S \in SUBSET Proc :
  S # {} /\ (\A q \in S : tx[q].pc \in {"event", "ledger", "gl"}) =>
    \E q \in S : Blockers(q) \cap S = {}

\* Locks are taken in the one order that neither blocks a circle of handlers nor leaves a
\* pending row unguarded (gl.post_entry); the state is well typed.
HeadsSafe == TypeOK /\ LockDiscipline /\ HeadsNeverDeadlock

\* However handlers and the replay race, a document has one entry in force and
\* an entry one reversal (gl._refuse_duplicate_posting and its unique index).
DocumentsBookedOnce == OneReversal /\ OneLiveEntry

\* What a sale, void or line refund has posted is never overtaken by a close: the
\* handler holds the audit-ledger head from before it read the period, and closing
\* a month needs that head.
EventFirstRespectsClose == \A p \in Proc :
  tx[p].op \in EventFirst =>
    \A i \in DOMAIN tx[p].entries : period[tx[p].entries[i].month] # "CLOSED"

\* For the same reason its posting cannot lose the race of a duplicate: a sale,
\* void or line refund never fails because somebody else posted or reversed.
EventFirstNeverRefused == \A p \in Proc :
  tx[p].op \in EventFirst /\ tx[p].pc \in {"newPeriod", "ledger", "gl"} =>
    ~DuplicatePosting(p, EntryFor(p))

\* Recording the event first protects the posting from both races.
EventFirstSafe == EventFirstRespectsClose /\ EventFirstNeverRefused

\* A line refund handled on its own is not posted on top of a sale already
\* reversed by hand: the accounts would pass zero (gl_postings.post_order_refund).
RefundOnLiveSale == \A p \in Proc :
  tx[p].op = "itemRefund" /\ tx[p].entries # <<>> =>
    \E i \in LiveEntries(journal, tx[p].doc) : ~IsReversed(journal, i)

\* A void about to commit with auto-posting on leaves no entry of its document
\* standing, even when the replay or the switch raced it (orders.void_order).
VoidSettlesBooks == \A p \in Proc :
  tx[p].op = "void" /\ tx[p].pc = "commit" /\ autoPost =>
    \A i \in LiveEntries(Seen(p), tx[p].doc) : IsReversed(Seen(p), i)

\* Undoing a sale leaves its accounts neither standing nor past zero.
ReversalsComplete == RefundOnLiveSale /\ VoidSettlesBooks

\* The ledger keeps the promise of Books: a journal and an audit trail that only
\* grow and stay sound, whatever commits (gl.post_entry and ledger.record).
Promise == INSTANCE Books WITH
  entries <- journal, trail <- [r \in DOMAIN audit |-> audit[r].entry]
KeepsPromise == Promise!Spec

\* A handler that holds the audit-ledger head, and so maybe the GL head, waits for the
\* key of a month another one is inserting or closing: the one wait of this code
\* against its lock order (ensure_period before gl.post_entry takes the heads).
WaitsAgainstOrder(p) == ledgerLock = p /\ tx[p].pc \in {"newPeriod", "nextYear"}
MonthCircle == \E S \in SUBSET Proc : Circle(S) /\ \E q \in S : WaitsAgainstOrder(q)

\* Every request ends by itself, committed or refused, without the deadlock detector:
\* the order in which handlers take the heads and the months lets them all through,
\* unless a circle arises with somebody in it who waits for a month with the
\* audit-ledger head in hand.
EveryRequestEnds == \A p \in Proc :
  tx[p].pc # "idle" ~> tx[p].pc = "idle" \/ MonthCircle

=============================================================================
