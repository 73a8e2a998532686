------------------------- MODULE GeneralLedgerProofs -------------------------
(***************************************************************************)
(* Theorems about GeneralLedger, for any number of handlers, documents and *)
(* months: its locks are disciplined and its audit heads never deadlock;   *)
(* no document is posted and no entry reversed twice, the audit ledger     *)
(* reports the journal, a handler that records its event first loses no    *)
(* race, and the ledger implements Books.                                  *)
(***************************************************************************)
EXTENDS GeneralLedger, TLAPS

-----------------------------------------------------------------------------
(* Type correctness. *)

\* The transaction record of a handler that is not in a request.
LEMMA IdleTxType == IdleTx \in Tx
BY NoneAssumption, CalendarAssumption
   DEF IdleTx, Tx, NoPosting, NewPosting, Posting, Unwritten, NoProfit, Ops, Status, Month

\* A request changes nothing but its own transaction record.
LEMMA BeginType ==
  ASSUME TypeOK, NEW p \in Proc, NEW t \in Tx, Begin(p, t)
  PROVE  TypeOK'
BY DEF TypeOK, Begin, tables, locks

\* Rolling back leaves a well-typed state.
LEMMA RefuseType ==
  ASSUME TypeOK, NEW p \in Proc, Refuse(p)
  PROVE  TypeOK'
BY IdleTxType DEF TypeOK, Refuse, ReleaseAll, Released, tables

\* The postings a request may ask for.
LEMMA PostingType ==
  ASSUME NEW k \in {"MANUAL", "DOC", "PARTIAL", "UNDO", "REVERSE", "YEAR_CLOSE"},
         NEW d \in Doc \cup {NONE}, NEW m \in Month
  PROVE  NewPosting(k, d, m) \in Posting
BY DEF NewPosting, Posting

\* Filling in the target keeps a posting a posting.
LEMMA TargetType ==
  ASSUME NEW u \in Posting, NEW i \in Nat PROVE [u EXCEPT !.target = i] \in Posting
BY DEF Posting

\* So does an amount.
LEMMA AmountType ==
  ASSUME NEW u \in Posting, NEW a \in Int PROVE [u EXCEPT !.amount = a] \in Posting
BY DEF Posting

\* The transaction records a request may start with.
LEMMA PostsType ==
  ASSUME NEW c \in {"event", "check"}, NEW o \in Ops, NEW d \in Doc \cup {NONE},
         NEW s \in SUBSET Posting
  PROVE  Posts(c, o, d, s) \in Tx
BY IdleTxType DEF Posts, Tx

\* The record of a request that does not post yet.
LEMMA WorksOnType ==
  ASSUME NEW c \in {"event", "setPeriod", "newPeriod", "ledger"}, NEW o \in Ops,
         NEW u \in Posting, NEW w \in [Month -> Status \cup {"SAME"}]
  PROVE  WorksOn(c, o, u, w) \in Tx
BY IdleTxType DEF WorksOn, Tx

\* No period written, and one of them.
LEMMA UnwrittenType ==
  /\ Unwritten \in [Month -> Status \cup {"SAME"}]
  /\ \A m \in Month, v \in {"OPEN", "CLOSED"} :
       [Unwritten EXCEPT ![m] = v] \in [Month -> Status \cup {"SAME"}]
BY DEF Unwritten, Status

\* Every request of the accounting pages, of the till and of the operator.
LEMMA RequestType ==
  ASSUME TypeOK, NEW p \in Proc, Request(p)
  PROVE  TypeOK'
<1>a. \A i \in DOMAIN journal :
        [NewPosting("REVERSE", NONE, today) EXCEPT !.target = i] \in Posting
  <2>1. NewPosting("REVERSE", NONE, today) \in Posting
    BY PostingType DEF TypeOK
  <2>2. \A i \in DOMAIN journal : i \in Nat
    BY DEF TypeOK
  <2> QED BY <2>1, <2>2, TargetType
<1>b. \A y \in Year : December(y) \in Month =>
        [NewPosting("YEAR_CLOSE", NONE, December(y)) EXCEPT !.amount = -pnl[y]] \in Posting
  <2>1. \A y \in Year : -pnl[y] \in Int
    BY DEF TypeOK
  <2> QED BY <2>1, PostingType, AmountType
<1>c. DOMAIN period = Month
  BY DEF TypeOK
<1>d. \A m \in Month : NewPosting("MANUAL", NONE, m) \in Posting
  BY PostingType
<1> USE PostingType, PostsType, WorksOnType, UnwrittenType, BeginType DEF Ops
<1>1. CASE BeginManual(p)
  <2>1. PICK m \in Month : Begin(p, Posts("check", "manual", NONE, {NewPosting("MANUAL", NONE, m)}))
    BY <1>1, <1>c DEF BeginManual
  <2>2. {NewPosting("MANUAL", NONE, m)} \in SUBSET Posting
    BY <1>d
  <2> QED BY <2>1, <2>2
<1>2. CASE BeginReverse(p)
  BY <1>2, <1>a DEF BeginReverse
<1>3. CASE BeginSale(p)
  BY <1>3 DEF BeginSale, TypeOK
<1>4. ASSUME NEW op \in {"void", "refund", "itemRefund"}, BeginUndo(p, op) PROVE TypeOK'
  BY <1>4 DEF BeginUndo, TypeOK
<1>5. CASE BeginReplay(p)
  <2>1. ReplaySteps \in SUBSET Posting
    BY DEF ReplaySteps, TypeOK, DocRecord
  <2> QED BY <1>5, <2>1 DEF BeginReplay
<1>6. CASE BeginClose(p)
  BY <1>6 DEF BeginClose
<1>7. CASE BeginReopen(p)
  BY <1>7 DEF BeginReopen
<1>8. CASE BeginOpen(p)
  BY <1>8 DEF BeginOpen
<1>9. CASE BeginCloseYear(p)
  BY <1>9, <1>b DEF BeginCloseYear
<1>10. CASE BeginSettings(p)
  BY <1>10 DEF BeginSettings
<1> QED
  BY <1>1, <1>2, <1>3, <1>4, <1>5, <1>6, <1>7, <1>8, <1>9, <1>10 DEF Request

\* gl_postings.find_live_entry and the entry a posting names are journal entries.
LEMMA SeenType ==
  ASSUME TypeOK, NEW p \in Proc
  PROVE  /\ Seen(p) \in Seq(Entry)
         /\ \A d : LiveEntries(Seen(p), d) \subseteq Nat
<1>1. tx[p] \in Tx /\ journal \in Seq(Entry)
  BY DEF TypeOK
<1>2. tx[p].entries \in Seq(Entry)
  BY <1>1 DEF Tx
<1>3. Seen(p) \in Seq(Entry)
  BY <1>1, <1>2 DEF Seen
<1> QED BY <1>3 DEF LiveEntries

\* The depth the next row or entry is chained to.
LEMMA LastPrevType ==
  ASSUME NEW s, NEW h \in Nat, s \in Seq(Row) \/ s \in Seq(Entry)
  PROVE  LastPrev(s, h) \in Nat
<1>1. CASE s = <<>>
  BY <1>1 DEF LastPrev
<1>2. CASE s # <<>> /\ s \in Seq(Row)
  <2>1. s[Len(s)] \in Row
    BY <1>2
  <2> QED BY <1>2, <2>1 DEF LastPrev, Row
<1>3. CASE s # <<>> /\ s \in Seq(Entry)
  <2>1. s[Len(s)] \in Entry
    BY <1>3
  <2> QED BY <1>3, <2>1 DEF LastPrev, Entry
<1> QED BY <1>1, <1>2, <1>3

\* ledger.record leaves a transaction record.
LEMMA AppendRowType ==
  ASSUME TypeOK, NEW p \in Proc, NEW t \in Tx, NEW e \in Nat
  PROVE  AppendRow(p, t, e) \in Tx
<1>1. LastPrev(tx[p].rows, auditHead) \in Nat
  <2>1. tx[p] \in Tx /\ auditHead \in Nat
    BY DEF TypeOK
  <2> QED BY <2>1, LastPrevType DEF Tx
<1> DEFINE row == [prev |-> LastPrev(tx[p].rows, auditHead), entry |-> e]
<1>2. row \in Row
  BY <1>1 DEF Row
<1>3. Append(t.rows, row) \in Seq(Row)
  BY <1>2 DEF Tx
<1>4. AppendRow(p, t, e) = [t EXCEPT !.rows = Append(t.rows, row)]
  BY DEF AppendRow
<1> HIDE DEF row
<1> QED BY <1>3, <1>4 DEF Tx

\* Moving on to the next statement keeps the type.
LEMMA AdvanceType ==
  ASSUME NEW t \in Tx PROVE Advance(t) \in Tx
<1>1. Continue(t) \in {"check", "event", "commit"}
  BY DEF Continue
<1> QED BY <1>1 DEF Advance, Tx

\* So does taking a posting off the list.
LEMMA WithoutType ==
  ASSUME NEW t \in Tx, NEW s PROVE Without(t, s) \in Tx
BY DEF Without, Tx

\* A posting is still one once its document is looked up.
LEMMA ResolvedType ==
  ASSUME TypeOK, NEW p \in Proc, NEW s \in tx[p].todo, ~Skipped(p, s)
  PROVE  Resolved(p, s) \in Posting
<1>1. s \in Posting
  <2>1. tx[p] \in Tx
    BY DEF TypeOK
  <2> QED BY <2>1 DEF Tx
<1>2. CASE s.kind = "UNDO"
  <2>1. LiveEntries(Seen(p), s.doc) # {}
    BY <1>2 DEF Skipped
  <2>2. (CHOOSE i \in LiveEntries(Seen(p), s.doc) : TRUE) \in Nat
    BY <2>1, SeenType
  <2> QED BY <1>1, <1>2, <2>2, TargetType DEF Resolved
<1>3. CASE s.kind # "UNDO"
  BY <1>1, <1>3 DEF Resolved
<1> QED BY <1>2, <1>3

\* The entry gl.post_entry inserts, and its effect on the trial balance.
LEMMA EntryType ==
  ASSUME TypeOK, NEW p \in Proc
  PROVE  EntryFor(p) \in Entry /\ Profit(p, tx[p].cur) \in Int
<1>1. tx[p] \in Tx /\ glHead \in Nat
  BY DEF TypeOK
<1>2. tx[p].cur \in Posting /\ LastPrev(tx[p].entries, glHead) \in Nat
  BY <1>1, LastPrevType DEF Tx
<1>3. EntryFor(p) \in Entry
  <2> DEFINE c == tx[p].cur
             k == IF c.kind \in {"UNDO", "REVERSE"} THEN "REVERSAL" ELSE c.kind
             d == IF c.kind = "UNDO" THEN NONE ELSE c.doc
  <2>1. k \in Kinds /\ d \in Doc \cup {NONE} /\ c.target \in Nat /\ c.month \in Month
    BY <1>2 DEF Posting, Kinds
  <2>2. EntryFor(p) = [kind |-> k, doc |-> d, reverses |-> c.target, month |-> c.month,
                       prev |-> LastPrev(tx[p].entries, glHead)]
    BY DEF EntryFor
  <2> HIDE DEF c, k, d
  <2> QED BY <1>2, <2>1, <2>2 DEF Entry
<1>4. Profit(p, tx[p].cur) \in Int
  BY <1>2 DEF Profit, Posting
<1> QED BY <1>3, <1>4

\* The transaction after a posting, and after the closing entry of a year.
LEMMA WithEntryType ==
  ASSUME TypeOK, NEW p \in Proc
  PROVE  WithEntry(p) \in Tx
<1>1. tx[p] \in Tx
  BY DEF TypeOK
<1>2. Earned(p) \in [Year -> Int]
  BY <1>1, EntryType DEF Tx, Earned
<1>3. Append(tx[p].entries, EntryFor(p)) \in Seq(Entry)
  BY <1>1, EntryType DEF Tx
<1> QED BY <1>1, <1>2, <1>3 DEF Tx, WithEntry

\* post_entry and the year close leave a transaction record.
LEMMA PostedType ==
  ASSUME TypeOK, NEW p \in Proc
  PROVE  Posted(p) \in Tx /\ YearClosed(p) \in Tx
<1>1. tx[p] \in Tx /\ journal \in Seq(Entry) /\ auditHead \in Nat
  BY DEF TypeOK
<1>5. Len(journal) + Len(tx[p].entries) + 1 \in Nat
  BY <1>1 DEF Tx
<1>6. Posted(p) \in Tx
  BY <1>5, WithEntryType, AdvanceType, AppendRowType DEF Posted
<1>7. YearClosed(p) \in Tx
  <2> DEFINE row == [prev |-> LastPrev(Posted(p).rows, auditHead), entry |-> 0]
             more == Append(Posted(p).rows, row)
             o == {m \in MonthsOf(YearOf(tx[p].cur.month) + 1) : period[m] = "ABSENT"}
  <2>1. Posted(p).rows \in Seq(Row)
    BY <1>6 DEF Tx
  <2>2. row \in Row
    BY <1>1, <2>1, LastPrevType DEF Row
  <2>3. more \in Seq(Row)
    BY <2>1, <2>2
  <2>4. o \in SUBSET Month
    BY DEF MonthsOf
  <2>5. YearClosed(p) = [Posted(p) EXCEPT !.pc = "nextYear", !.rows = more, !.opens = o]
    BY DEF YearClosed
  <2> HIDE DEF more, o
  <2> QED BY <1>6, <2>3, <2>4, <2>5 DEF Tx
<1> QED BY <1>6, <1>7

\* The steps inside a transaction.
LEMMA StepType ==
  ASSUME TypeOK, NEW p \in Proc, Step(p)
  PROVE  TypeOK'
<1>0. tx[p] \in Tx
  BY DEF TypeOK
<1>a. ASSUME NEW t \in Tx, tx' = [tx EXCEPT ![p] = t]
      PROVE  tx' \in [Proc -> Tx]
  BY <1>a DEF TypeOK
<1>1. CASE RecordEvent(p)
  <2>1. CASE Refuse(p)
    BY <2>1, RefuseType
  <2>2. CASE ~Refuse(p)
    <3>1. AppendRow(p, Advance(tx[p]), 0) \in Tx
      BY <1>0, AdvanceType, AppendRowType
    <3> QED BY <1>1, <1>a, <2>2, <3>1 DEF RecordEvent, TypeOK, tables
  <2> QED BY <2>1, <2>2
<1>2. CASE SetPeriod(p)
  <2>1. [tx[p] EXCEPT !.pc = "event"] \in Tx
    BY <1>0 DEF Tx
  <2>2. tx' = [tx EXCEPT ![p] = [tx[p] EXCEPT !.pc = "event"]]
    BY <1>2 DEF SetPeriod
  <2> QED BY <1>2, <1>a, <2>1, <2>2 DEF SetPeriod, TypeOK, tables
<1>3. CASE Skip(p)
  <2>1. PICK s : tx' = [tx EXCEPT ![p] = Advance(Without(tx[p], s))]
    BY <1>3 DEF Skip
  <2>2. Advance(Without(tx[p], s)) \in Tx
    BY <1>0, WithoutType, AdvanceType
  <2> QED BY <1>3, <1>a, <2>1, <2>2 DEF Skip, TypeOK, tables, locks
<1>4. CASE Check(p)
  <2>1. CASE Refuse(p)
    BY <2>1, RefuseType
  <2>2. CASE ~Refuse(p)
    <3>1. PICK s \in NextPostings(p), c \in {"newPeriod", "ledger"} :
            /\ ~Skipped(p, s)
            /\ tx' = [tx EXCEPT ![p] = [Without(tx[p], s) EXCEPT !.cur = Resolved(p, s), !.pc = c]]
      BY <1>4, <2>2 DEF Check
    <3>2. Resolved(p, s) \in Posting
      BY <3>1, ResolvedType DEF NextPostings
    <3>3. [Without(tx[p], s) EXCEPT !.cur = Resolved(p, s), !.pc = c] \in Tx
      BY <1>0, <3>1, <3>2, WithoutType DEF Tx
    <3> QED BY <1>4, <1>a, <2>2, <3>1, <3>3 DEF Check, TypeOK, tables, locks
  <2> QED BY <2>1, <2>2
<1>5. CASE InsertPeriod(p)
  <2>1. CASE Refuse(p)
    BY <2>1, RefuseType
  <2>2. CASE ~Refuse(p)
    <3> DEFINE m == tx[p].cur.month
    <3>1. m \in Month /\ tx[p].months \in [Month -> Status \cup {"SAME"}]
      BY <1>0 DEF Tx, Posting
    <3>2. PICK v \in {"OPEN", "CLOSED"}, c \in {"commit", "ledger"} :
            tx' = [tx EXCEPT ![p].months[m] = v, ![p].pc = c]
      BY <1>5, <2>2 DEF InsertPeriod
    <3>3. [tx[p] EXCEPT !.months[m] = v, !.pc = c] \in Tx
      BY <1>0, <3>1 DEF Tx, Status
    <3>4. tx' = [tx EXCEPT ![p] = [tx[p] EXCEPT !.months[m] = v, !.pc = c]]
      BY <3>2
    <3> QED BY <1>5, <1>a, <2>2, <3>1, <3>3, <3>4 DEF InsertPeriod, TypeOK, tables
  <2> QED BY <2>1, <2>2
<1>6. CASE LockLedger(p)
  <2>1. [tx[p] EXCEPT !.pc = "gl"] \in Tx
    BY <1>0 DEF Tx
  <2>2. tx' = [tx EXCEPT ![p] = [tx[p] EXCEPT !.pc = "gl"]]
    BY <1>6 DEF LockLedger
  <2> QED BY <1>6, <1>a, <2>1, <2>2 DEF LockLedger, TypeOK, tables
<1>7. CASE Post(p)
  <2>1. CASE Refuse(p)
    BY <2>1, RefuseType
  <2>2. CASE ~Refuse(p)
    <3>1. tx' \in [Proc -> Tx]
      BY <1>7, <1>a, <2>2, PostedType DEF Post
    <3> QED BY <1>7, <2>2, <3>1 DEF Post, TypeOK, tables
  <2> QED BY <2>1, <2>2
<1>8. CASE OpenNextYear(p)
  <2>1. CASE Refuse(p)
    BY <2>1, RefuseType
  <2>2. CASE ~Refuse(p)
    <3>1. Opened(p) \in [Month -> Status \cup {"SAME"}]
      BY <1>0 DEF Opened, Tx, Status
    <3>2. [tx[p] EXCEPT !.pc = "commit", !.months = Opened(p)] \in Tx
      BY <1>0, <3>1 DEF Tx
    <3>3. tx' = [tx EXCEPT ![p] = [tx[p] EXCEPT !.pc = "commit", !.months = Opened(p)]]
      BY <1>8, <2>2 DEF OpenNextYear
    <3>4. tx' \in [Proc -> Tx]
      BY <1>a, <3>2, <3>3
    <3> QED BY <1>8, <2>2, <3>4 DEF OpenNextYear, TypeOK, tables
  <2> QED BY <2>1, <2>2
<1>9. CASE Commit(p)
  <2>1. /\ journal' \in Seq(Entry) /\ audit' \in Seq(Row)
        /\ glHead' \in Nat /\ auditHead' \in Nat
    BY <1>0, <1>9, LastPrevType DEF Commit, TypeOK, Tx
  <2>2. pnl' \in [Year -> Int]
    BY <1>0, <1>9 DEF Commit, TypeOK, Tx
  <2>3. period' \in [Month -> Status]
    BY <1>0, <1>9 DEF Commit, PeriodSeen, TypeOK, Tx
  <2>4. doc' \in [Doc -> DocRecord]
    <3>1. doc \in [Doc -> DocRecord] /\ today \in Month /\ doc' = DocsAfter(tx[p])
      BY <1>9 DEF Commit, TypeOK
    <3>2. ASSUME NEW k, NEW r \in DocRecord PROVE [doc EXCEPT ![k] = r] \in [Doc -> DocRecord]
      BY <3>1, <3>2
    <3> HIDE DEF DocRecord
    <3>3. \A k \in Doc : doc[k] \in DocRecord
      BY <3>1
    <3> QED BY <3>1, <3>3 DEF DocsAfter, DocRecord
  <2>5. tx' \in [Proc -> Tx]
    BY <1>9, <1>a, IdleTxType DEF Commit
  <2> QED BY <1>9, <2>1, <2>2, <2>3, <2>4, <2>5
          DEF Commit, ReleaseAll, Released, TypeOK
<1> QED BY <1>1, <1>2, <1>3, <1>4, <1>5, <1>6, <1>7, <1>8, <1>9 DEF Step

\* The model starts well typed.
LEMMA InitType == Init => TypeOK
BY IdleTxType, CalendarAssumption
   DEF Init, TypeOK, NoProfit, Status, DocRecord, Month

\* Every step keeps the type.
LEMMA NextType == TypeOK /\ [Next]_vars => TypeOK'
<1> SUFFICES ASSUME TypeOK, [Next]_vars PROVE TypeOK'
  OBVIOUS
<1>1. ASSUME NEW p \in Proc, Request(p) \/ Step(p) \/ DeadlockAbort(p) PROVE TypeOK'
  BY <1>1, RequestType, StepType, RefuseType DEF DeadlockAbort
<1>2. CASE Tick
  BY <1>2, CalendarAssumption DEF Tick, TypeOK, tables, locks, Month
<1>3. CASE UNCHANGED vars
  BY <1>3 DEF vars, TypeOK
<1> QED BY <1>1, <1>2, <1>3 DEF Next, ShopIdle

\* Every variable of the ledger keeps its type, whatever the handlers do.
THEOREM TypeCorrect == Spec => []TypeOK
<1> QED BY InitType, NextType, PTL DEF Spec

-----------------------------------------------------------------------------
(* The hash chains. *)

\* A chain of n committed links goes on with the pending ones: the next link is
\* chained to depth n + Len(s).
LEMMA NextLink ==
  ASSUME NEW s, s \in Seq(Row) \/ s \in Seq(Entry), NEW n \in Nat,
         \A i \in DOMAIN s : s[i].prev = n + i - 1
  PROVE  LastPrev(s, n) = n + Len(s)
<1>1. CASE s = <<>>
  BY <1>1 DEF LastPrev
<1>2. CASE s # <<>>
  <2>1. Len(s) \in DOMAIN s /\ Len(s) \in Nat
    BY <1>2
  <2>2. s[Len(s)].prev = n + Len(s) - 1
    BY <2>1
  <2> QED BY <1>2, <2>1, <2>2 DEF LastPrev
<1> QED BY <1>1, <1>2

\* One element more, chained to the last.
LEMMA Appended ==
  ASSUME NEW s, s \in Seq(Row) \/ s \in Seq(Entry), NEW n \in Nat, NEW e, NEW t,
         t = Append(s, e), \A i \in DOMAIN s : s[i].prev = n + i - 1, e.prev = n + Len(s)
  PROVE  \A i \in DOMAIN t : t[i].prev = n + i - 1
<1> SUFFICES ASSUME NEW i \in DOMAIN t
             PROVE  t[i].prev = n + i - 1
  OBVIOUS
<1>1. i \in 1..(Len(s) + 1) /\ Len(s) \in Nat
  OBVIOUS
<1>2. CASE i = Len(s) + 1
  BY <1>1, <1>2
<1>3. CASE i \in DOMAIN s
  BY <1>3
<1> QED BY <1>1, <1>2, <1>3

\* What is invariant about the locks and the chains.
ChainInv == TypeOK /\ LockDiscipline /\ ChainLinear /\ PendingChained

\* A step of p that writes neither entries nor rows and takes neither head.
Quiet(p) ==
  /\ UNCHANGED <<journal, glHead, audit, auditHead, ledgerLock, glLock>>
  /\ \A q \in Proc \ {p} : tx'[q] = tx[q]
  /\ tx'[p].entries = tx[p].entries /\ tx'[p].rows = tx[p].rows
  /\ tx'[p].pc \notin {"gl", "idle"}

\* The chains are sound when the model starts.
LEMMA InitChain == Init => ChainInv
<1> SUFFICES ASSUME Init PROVE ChainInv
  OBVIOUS
<1>1. TypeOK
  BY InitType
<1>2. \A p \in Proc : tx[p].rows = <<>> /\ tx[p].entries = <<>> /\ tx[p].pc = "idle"
  BY DEF Init, IdleTx
<1>3. LockDiscipline /\ PendingChained
  BY <1>2 DEF Init, LockDiscipline, PendingChained
<1>4. ChainLinear
  BY DEF Init, ChainLinear, ChainIntact
<1> QED BY <1>1, <1>3, <1>4 DEF ChainInv

\* A step that adds no entry and no row keeps the chains.
LEMMA QuietChain ==
  ASSUME ChainInv, NEW p \in Proc, Quiet(p), TypeOK'
  PROVE  ChainInv'
<1>1. LockDiscipline'
  BY DEF ChainInv, LockDiscipline, Quiet
<1>2. PendingChained'
  BY DEF ChainInv, PendingChained, Quiet
<1>3. ChainLinear'
  BY DEF ChainInv, ChainLinear, ChainIntact, Quiet
<1> QED BY <1>1, <1>2, <1>3 DEF ChainInv

\* A rollback keeps the chains.
LEMMA RefuseChain ==
  ASSUME ChainInv, NEW p \in Proc, Refuse(p)
  PROVE  ChainInv'
<1>1. TypeOK'
  BY RefuseType DEF ChainInv
<1>2. tx'[p] = IdleTx /\ \A q \in Proc \ {p} : tx'[q] = tx[q]
  BY DEF ChainInv, TypeOK, Refuse
<1>3. IdleTx.rows = <<>> /\ IdleTx.entries = <<>> /\ IdleTx.pc = "idle"
  BY DEF IdleTx
<1>4. LockDiscipline'
  BY <1>2, <1>3, NoneAssumption DEF ChainInv, LockDiscipline, Refuse, ReleaseAll, Released
<1>5. PendingChained'
  BY <1>2, <1>3 DEF ChainInv, PendingChained, Refuse, tables
<1>6. ChainLinear'
  BY DEF ChainInv, ChainLinear, ChainIntact, Refuse, tables
<1> QED BY <1>1, <1>4, <1>5, <1>6 DEF ChainInv

\* Every request, and every step that only reads or works on a month, is quiet.
LEMMA RequestQuiet ==
  ASSUME ChainInv, NEW p \in Proc, Request(p)
  PROVE  Quiet(p)
<1>1. ASSUME NEW t, Begin(p, t), t.entries = <<>>, t.rows = <<>>, t.pc \notin {"gl", "idle"}
      PROVE  Quiet(p)
  BY <1>1 DEF ChainInv, LockDiscipline, TypeOK, Begin, Idle, Quiet, tables, locks
<1>2. ASSUME NEW c \in {"event", "check"}, NEW o, NEW d, NEW s, Begin(p, Posts(c, o, d, s))
      PROVE  Quiet(p)
  BY <1>1, <1>2 DEF Posts, IdleTx
<1>3. ASSUME NEW c \in {"event", "setPeriod", "newPeriod", "ledger"}, NEW o, NEW u, NEW w,
             Begin(p, WorksOn(c, o, u, w))
      PROVE  Quiet(p)
  BY <1>1, <1>3 DEF WorksOn, IdleTx
<1> QED
  BY <1>2, <1>3 DEF Request, BeginManual, BeginReverse, BeginSale, BeginUndo, BeginReplay,
                    BeginClose, BeginReopen, BeginOpen, BeginCloseYear, BeginSettings

\* The statements that add no entry and no row.
LEMMA StepQuiet ==
  ASSUME ChainInv, NEW p \in Proc,
         SetPeriod(p) \/ Skip(p) \/ Check(p) \/ InsertPeriod(p) \/ OpenNextYear(p), ~Refuse(p)
  PROVE  Quiet(p)
<1>0. tx[p] \in Tx /\ tx \in [Proc -> Tx]
  BY DEF ChainInv, TypeOK
<1>1. ASSUME NEW t, tx' = [tx EXCEPT ![p] = t], t.entries = tx[p].entries, t.rows = tx[p].rows,
             t.pc \notin {"gl", "idle"}, UNCHANGED <<tables, ledgerLock, glLock>>
      PROVE  Quiet(p)
  BY <1>0, <1>1 DEF Quiet, tables
<1>2. CASE SetPeriod(p)
  BY <1>0, <1>1, <1>2 DEF SetPeriod, Tx
<1>3. CASE Skip(p)
  <2>1. PICK s : tx' = [tx EXCEPT ![p] = Advance(Without(tx[p], s))]
    BY <1>3 DEF Skip
  <2> DEFINE t == Advance(Without(tx[p], s))
  <2>2. t.entries = tx[p].entries /\ t.rows = tx[p].rows /\ t.pc \notin {"gl", "idle"}
    BY <1>0 DEF Advance, Without, Continue, Tx
  <2> QED BY <1>1, <1>3, <2>1, <2>2 DEF Skip, locks
<1>4. CASE Check(p)
  <2>1. PICK s \in NextPostings(p), c \in {"newPeriod", "ledger"} :
          /\ ~Skipped(p, s)
          /\ tx' = [tx EXCEPT ![p] = [Without(tx[p], s) EXCEPT !.cur = Resolved(p, s), !.pc = c]]
    BY <1>4 DEF Check
  <2> DEFINE t == [Without(tx[p], s) EXCEPT !.cur = Resolved(p, s), !.pc = c]
  <2>2. t.entries = tx[p].entries /\ t.rows = tx[p].rows /\ t.pc \notin {"gl", "idle"}
    BY <1>0 DEF Without, Tx
  <2>3. UNCHANGED <<tables, ledgerLock, glLock>>
    BY <1>4 DEF Check, locks
  <2> QED BY <1>1, <2>1, <2>2, <2>3
<1>5. CASE InsertPeriod(p)
  <2>1. PICK v \in {"OPEN", "CLOSED"}, c \in {"commit", "ledger"} :
          tx' = [tx EXCEPT ![p].months[tx[p].cur.month] = v, ![p].pc = c]
    BY <1>5 DEF InsertPeriod
  <2>2. UNCHANGED <<tables, ledgerLock, glLock>>
    BY <1>5 DEF InsertPeriod
  <2> QED BY <1>0, <2>1, <2>2 DEF Quiet, tables, Tx
<1>6. CASE OpenNextYear(p)
  BY <1>0, <1>1, <1>6 DEF OpenNextYear, Tx
<1> QED BY <1>2, <1>3, <1>4, <1>5, <1>6

\* Appending a row to a transaction's record.
LEMMA RowAppended ==
  ASSUME NEW p \in Proc, NEW t \in Tx, NEW e
  PROVE  LET u == AppendRow(p, t, e) IN
         /\ u.rows = Append(t.rows, [prev |-> LastPrev(tx[p].rows, auditHead), entry |-> e])
         /\ u.entries = t.entries /\ u.pc = t.pc
BY DEF AppendRow, Tx

\* Moving on to the next statement keeps what has been written.
LEMMA AdvanceKeeps ==
  ASSUME NEW t \in Tx
  PROVE  /\ Advance(t).rows = t.rows /\ Advance(t).entries = t.entries
         /\ Advance(t).pc \in {"check", "event", "commit"}
BY DEF Advance, Continue, Tx

\* ledger.record appends a row under the lock of the head.
LEMMA RecordEventChain ==
  ASSUME ChainInv, NEW p \in Proc, RecordEvent(p), ~Refuse(p)
  PROVE  ChainInv'
<1>0. tx[p] \in Tx /\ tx \in [Proc -> Tx] /\ audit \in Seq(Row) /\ tx[p].rows \in Seq(Row)
  BY DEF ChainInv, TypeOK, Tx
<1>1. TypeOK'
  BY StepType DEF ChainInv, Step
<1> DEFINE u == AppendRow(p, Advance(tx[p]), 0)
<1>2. /\ ledgerLock \in {NONE, p} /\ ledgerLock' = p
      /\ tx' = [tx EXCEPT ![p] = u]
      /\ UNCHANGED <<tables, glLock>>
  BY DEF RecordEvent, Free
<1>3. /\ u.rows = Append(tx[p].rows, [prev |-> LastPrev(tx[p].rows, auditHead), entry |-> 0])
      /\ u.entries = tx[p].entries /\ u.pc \notin {"idle", "gl"}
  <2> DEFINE a == Advance(tx[p])
  <2>1. a \in Tx
    BY <1>0, AdvanceType
  <2>2. a.rows = tx[p].rows /\ a.entries = tx[p].entries /\ a.pc \in {"check", "event", "commit"}
    BY <1>0, AdvanceKeeps
  <2> HIDE DEF a
  <2>3. /\ AppendRow(p, a, 0).rows
             = Append(a.rows, [prev |-> LastPrev(tx[p].rows, auditHead), entry |-> 0])
        /\ AppendRow(p, a, 0).entries = a.entries /\ AppendRow(p, a, 0).pc = a.pc
    BY <2>1, RowAppended
  <2>4. u = AppendRow(p, a, 0)
    BY DEF a
  <2> QED BY <2>2, <2>3, <2>4
<1>4. tx'[p] = u /\ \A q \in Proc \ {p} : tx'[q] = tx[q]
  BY <1>0, <1>2
<1> HIDE DEF u
<1>5. LockDiscipline'
  <2>1. glLock' # NONE => ledgerLock' = glLock'
    BY <1>2, NoneAssumption DEF ChainInv, LockDiscipline
  <2>2. ASSUME NEW q \in Proc
        PROVE  /\ tx'[q].rows # <<>> \/ tx'[q].pc = "gl" => ledgerLock' = q
               /\ tx'[q].entries # <<>> => glLock' = q
               /\ tx'[q].pc = "idle" => tx'[q].rows = <<>> /\ tx'[q].entries = <<>>
    <3>1. CASE q = p
      BY <1>2, <1>3, <1>4, <3>1 DEF ChainInv, LockDiscipline
    <3>2. CASE q # p
      BY <1>2, <1>4, <3>2, NoneAssumption DEF ChainInv, LockDiscipline
    <3> QED BY <3>1, <3>2
  <2> QED BY <2>1, <2>2 DEF LockDiscipline
<1>6. LastPrev(tx[p].rows, auditHead) = Len(audit) + Len(tx[p].rows)
  <2>1. auditHead = Len(audit) /\ Len(audit) \in Nat
    BY <1>0 DEF ChainInv, ChainLinear
  <2>2. \A i \in DOMAIN tx[p].rows : tx[p].rows[i].prev = Len(audit) + i - 1
    BY DEF ChainInv, PendingChained
  <2> QED BY <1>0, <2>1, <2>2, NextLink
<1>7. \A i \in DOMAIN u.rows : u.rows[i].prev = Len(audit) + i - 1
  <2>1. \A i \in DOMAIN tx[p].rows : tx[p].rows[i].prev = Len(audit) + i - 1
    BY DEF ChainInv, PendingChained
  <2> DEFINE e == [prev |-> LastPrev(tx[p].rows, auditHead), entry |-> 0]
  <2>2. e.prev = Len(audit) + Len(tx[p].rows) /\ u.rows = Append(tx[p].rows, e) /\ Len(audit) \in Nat
    BY <1>0, <1>3, <1>6
  <2> HIDE DEF e
  <2> QED BY <1>0, <2>1, <2>2, Appended
<1>8. PendingChained'
  <2>1. journal' = journal /\ audit' = audit
    BY <1>2 DEF tables
  <2>2. ASSUME NEW q \in Proc
        PROVE  /\ \A i \in DOMAIN tx'[q].entries : tx'[q].entries[i].prev = Len(journal) + i - 1
               /\ \A i \in DOMAIN tx'[q].rows : tx'[q].rows[i].prev = Len(audit) + i - 1
    <3>1. CASE q = p
      BY <1>3, <1>4, <1>7, <3>1 DEF ChainInv, PendingChained
    <3>2. CASE q # p
      BY <1>4, <3>2 DEF ChainInv, PendingChained
    <3> QED BY <3>1, <3>2
  <2> QED BY <2>1, <2>2 DEF PendingChained
<1>9. ChainLinear'
  BY <1>2 DEF ChainInv, ChainLinear, ChainIntact, tables
<1> QED BY <1>1, <1>5, <1>8, <1>9 DEF ChainInv

\* ledger.lock_head keeps the chains.
LEMMA LockLedgerChain ==
  ASSUME ChainInv, NEW p \in Proc, LockLedger(p)
  PROVE  ChainInv'
<1>0. tx[p] \in Tx /\ tx \in [Proc -> Tx]
  BY DEF ChainInv, TypeOK
<1>1. TypeOK'
  BY StepType DEF ChainInv, Step
<1>2. /\ ledgerLock \in {NONE, p} /\ ledgerLock' = p
      /\ UNCHANGED <<tables, glLock>>
      /\ \A q \in Proc \ {p} : tx'[q] = tx[q]
      /\ tx'[p].entries = tx[p].entries /\ tx'[p].rows = tx[p].rows /\ tx'[p].pc = "gl"
  BY <1>0 DEF LockLedger, Free, Tx
<1>3. LockDiscipline'
  BY <1>2, NoneAssumption DEF ChainInv, LockDiscipline
<1>4. PendingChained' /\ ChainLinear'
  BY <1>2 DEF ChainInv, ChainLinear, ChainIntact, PendingChained, tables
<1> QED BY <1>1, <1>3, <1>4 DEF ChainInv

\* The record after a posting: one entry and one row more, and after the closing
\* of a year one more row.
LEMMA PostedKeeps ==
  ASSUME TypeOK, NEW p \in Proc
  PROVE  LET u == Posted(p)
             v == YearClosed(p)
         IN  /\ u.entries = Append(tx[p].entries, EntryFor(p))
             /\ u.rows = Append(tx[p].rows, [prev |-> LastPrev(tx[p].rows, auditHead),
                                  entry |-> Len(journal) + Len(tx[p].entries) + 1])
             /\ u.pc \notin {"idle", "gl"}
             /\ v.entries = u.entries /\ v.pc = "nextYear"
             /\ v.rows = Append(u.rows, [prev |-> LastPrev(u.rows, auditHead), entry |-> 0])
<1>1. tx[p] \in Tx /\ WithEntry(p) \in Tx
  BY WithEntryType DEF TypeOK
<1>2. /\ WithEntry(p).entries = Append(tx[p].entries, EntryFor(p))
      /\ WithEntry(p).rows = tx[p].rows
  BY <1>1 DEF WithEntry, Tx
<1>3. Posted(p) \in Tx
  BY PostedType
<1>4. YearClosed(p).entries = Posted(p).entries /\ YearClosed(p).pc = "nextYear"
  BY <1>3 DEF YearClosed, Tx
<1>5. YearClosed(p).rows =
        Append(Posted(p).rows, [prev |-> LastPrev(Posted(p).rows, auditHead), entry |-> 0])
  BY <1>3 DEF YearClosed, Tx
<1>6. Advance(WithEntry(p)) \in Tx
  BY <1>1, AdvanceType
<1> DEFINE a == Advance(WithEntry(p))
<1>7. a.entries = WithEntry(p).entries /\ a.rows = WithEntry(p).rows /\ a.pc \in {"check", "event", "commit"}
  BY <1>1, AdvanceKeeps
<1> HIDE DEF a
<1>8. Posted(p) = AppendRow(p, a, Len(journal) + Len(tx[p].entries) + 1)
  BY DEF Posted, a
<1>9. a \in Tx
  BY <1>6 DEF a
<1>10. /\ Posted(p).entries = a.entries /\ Posted(p).pc = a.pc
       /\ Posted(p).rows = Append(a.rows, [prev |-> LastPrev(tx[p].rows, auditHead),
                                  entry |-> Len(journal) + Len(tx[p].entries) + 1])
  BY <1>8, <1>9, RowAppended
<1> QED BY <1>2, <1>4, <1>5, <1>7, <1>10

\* The chains of a transaction that has posted continue the committed ones.
LEMMA PostedChained ==
  ASSUME ChainInv, NEW p \in Proc
  PROVE  LET u == Posted(p)
             v == YearClosed(p)
         IN  /\ \A i \in DOMAIN u.entries : u.entries[i].prev = Len(journal) + i - 1
             /\ \A i \in DOMAIN u.rows : u.rows[i].prev = Len(audit) + i - 1
             /\ \A i \in DOMAIN v.rows : v.rows[i].prev = Len(audit) + i - 1
<1> DEFINE u == Posted(p)
<1> DEFINE v == YearClosed(p)
<1>0. TypeOK /\ Posted(p) \in Tx /\ tx[p] \in Tx
  BY PostedType DEF ChainInv, TypeOK
<1>1. /\ tx[p].entries \in Seq(Entry) /\ tx[p].rows \in Seq(Row) /\ u.rows \in Seq(Row)
      /\ Len(journal) \in Nat /\ Len(audit) \in Nat
  <2>1. u.rows \in Seq(Row) /\ tx[p].entries \in Seq(Entry) /\ tx[p].rows \in Seq(Row)
    BY <1>0 DEF Tx
  <2>2. Len(journal) \in Nat /\ Len(audit) \in Nat
    BY <1>0 DEF TypeOK
  <2> QED BY <2>1, <2>2
<1>2. glHead = Len(journal) /\ auditHead = Len(audit)
  BY DEF ChainInv, ChainLinear
<1>3. /\ \A i \in DOMAIN tx[p].entries : tx[p].entries[i].prev = Len(journal) + i - 1
      /\ \A i \in DOMAIN tx[p].rows : tx[p].rows[i].prev = Len(audit) + i - 1
  BY DEF ChainInv, PendingChained
<1> DEFINE c == EntryFor(p)
<1> DEFINE d == [prev |-> LastPrev(tx[p].rows, auditHead), entry |-> Len(journal) + Len(tx[p].entries) + 1]
<1> DEFINE e == [prev |-> LastPrev(u.rows, auditHead), entry |-> 0]
<1>4. u.entries = Append(tx[p].entries, c) /\ u.rows = Append(tx[p].rows, d) /\ v.rows = Append(u.rows, e)
  BY <1>0, PostedKeeps
<1>5. /\ c.prev = LastPrev(tx[p].entries, glHead) /\ d.prev = LastPrev(tx[p].rows, auditHead)
      /\ e.prev = LastPrev(u.rows, auditHead)
  BY DEF EntryFor
<1> HIDE DEF c, d, e, u, v
<1>6. LastPrev(tx[p].entries, glHead) = Len(journal) + Len(tx[p].entries)
  BY <1>1, <1>2, <1>3, NextLink
<1>7. LastPrev(tx[p].rows, auditHead) = Len(audit) + Len(tx[p].rows)
  BY <1>1, <1>2, <1>3, NextLink
<1> DEFINE s == tx[p].entries
<1> DEFINE r == tx[p].rows
<1>8. \A i \in DOMAIN u.entries : u.entries[i].prev = Len(journal) + i - 1
  <2>1. \A i \in DOMAIN s : s[i].prev = Len(journal) + i - 1
    BY <1>3
  <2>2. u.entries = Append(s, c) /\ c.prev = Len(journal) + Len(s) /\ s \in Seq(Entry)
    BY <1>1, <1>4, <1>5, <1>6
  <2>3. Len(journal) \in Nat
    BY <1>1
  <2> HIDE DEF s
  <2> QED BY <2>1, <2>2, <2>3, Appended
<1>9. \A i \in DOMAIN u.rows : u.rows[i].prev = Len(audit) + i - 1
  <2>1. \A i \in DOMAIN r : r[i].prev = Len(audit) + i - 1
    BY <1>3
  <2>2. u.rows = Append(r, d) /\ d.prev = Len(audit) + Len(r) /\ r \in Seq(Row)
    BY <1>1, <1>4, <1>5, <1>7
  <2>3. Len(audit) \in Nat
    BY <1>1
  <2> HIDE DEF r
  <2> QED BY <2>1, <2>2, <2>3, Appended
<1>10. LastPrev(u.rows, auditHead) = Len(audit) + Len(u.rows)
  BY <1>1, <1>2, <1>9, NextLink
<1>11. \A i \in DOMAIN v.rows : v.rows[i].prev = Len(audit) + i - 1
  <2>1. PICK n, w : n = Len(audit) /\ w = u.rows
    OBVIOUS
  <2>2. n \in Nat /\ w \in Seq(Row) /\ v.rows = Append(w, e) /\ e.prev = n + Len(w)
        /\ \A i \in DOMAIN w : w[i].prev = n + i - 1
    BY <1>1, <1>4, <1>5, <1>9, <1>10, <2>1
  <2>3. \A i \in DOMAIN v.rows : v.rows[i].prev = n + i - 1
    BY <2>2, Appended
  <2> QED BY <2>1, <2>3
<1> QED BY <1>8, <1>9, <1>11 DEF u, v

\* post_entry numbers an entry under the lock of its year.
LEMMA PostChain ==
  ASSUME ChainInv, NEW p \in Proc, Post(p), ~Refuse(p)
  PROVE  ChainInv'
<1>0. tx \in [Proc -> Tx] /\ TypeOK
  BY DEF ChainInv, TypeOK
<1>1. TypeOK'
  BY StepType DEF ChainInv, Step
<1>2. PICK w \in {Posted(p), YearClosed(p)} : tx' = [tx EXCEPT ![p] = w]
  BY DEF Post
<1>3. /\ w.pc \notin {"idle", "gl"}
      /\ \A i \in DOMAIN w.entries : w.entries[i].prev = Len(journal) + i - 1
      /\ \A i \in DOMAIN w.rows : w.rows[i].prev = Len(audit) + i - 1
  <2>1. w.entries = Posted(p).entries /\ w.pc \notin {"idle", "gl"}
    BY <1>0, <1>2, PostedKeeps
  <2> QED BY <1>2, <2>1, PostedChained
<1>4. /\ ledgerLock = p /\ glLock \in {NONE, p} /\ glLock' = p /\ ledgerLock' = p
      /\ UNCHANGED tables
  BY DEF Post, Free, ChainInv, LockDiscipline
<1>5. tx'[p] = w /\ \A q \in Proc \ {p} : tx'[q] = tx[q]
  BY <1>0, <1>2
<1>6. journal' = journal /\ audit' = audit
  BY <1>4 DEF tables
<1>7. LockDiscipline'
  <2>1. glLock' # NONE => ledgerLock' = glLock'
    BY <1>4
  <2>2. ASSUME NEW q \in Proc
        PROVE  /\ tx'[q].rows # <<>> \/ tx'[q].pc = "gl" => ledgerLock' = q
               /\ tx'[q].entries # <<>> => glLock' = q
               /\ tx'[q].pc = "idle" => tx'[q].rows = <<>> /\ tx'[q].entries = <<>>
    <3>1. CASE q = p
      BY <1>3, <1>4, <1>5, <3>1
    <3>2. CASE q # p
      BY <1>4, <1>5, <3>2, NoneAssumption DEF ChainInv, LockDiscipline
    <3> QED BY <3>1, <3>2
  <2> QED BY <2>1, <2>2 DEF LockDiscipline
<1>8. PendingChained'
  <2>1. ASSUME NEW q \in Proc
        PROVE  /\ \A i \in DOMAIN tx'[q].entries : tx'[q].entries[i].prev = Len(journal) + i - 1
               /\ \A i \in DOMAIN tx'[q].rows : tx'[q].rows[i].prev = Len(audit) + i - 1
    <3>1. CASE q = p
      BY <1>3, <1>5, <3>1
    <3>2. CASE q # p
      BY <1>5, <3>2 DEF ChainInv, PendingChained
    <3> QED BY <3>1, <3>2
  <2> QED BY <1>6, <2>1 DEF PendingChained
<1>9. ChainLinear'
  BY <1>4 DEF ChainInv, ChainLinear, ChainIntact, tables
<1> QED BY <1>1, <1>7, <1>8, <1>9 DEF ChainInv

\* Committing p's entries and rows leaves nobody else's pending: they are
\* written under the heads' locks, which p holds if it wrote anything.
LEMMA Concatenated ==
  ASSUME NEW S, NEW s \in Seq(S), NEW t \in Seq(S),
         \A i \in DOMAIN s : s[i].prev = i - 1,
         \A i \in DOMAIN t : t[i].prev = Len(s) + i - 1
  PROVE  /\ \A i \in DOMAIN (s \o t) : (s \o t)[i].prev = i - 1
         /\ Len(s \o t) = Len(s) + Len(t)
<1>1. Len(s \o t) = Len(s) + Len(t) /\ Len(s) \in Nat /\ Len(t) \in Nat
  OBVIOUS
<1>2. ASSUME NEW i \in DOMAIN (s \o t) PROVE (s \o t)[i].prev = i - 1
  <2>1. CASE i <= Len(s)
    BY <1>2, <2>1
  <2>2. CASE i > Len(s)
    <3>1. i - Len(s) \in DOMAIN t /\ (s \o t)[i] = t[i - Len(s)]
      BY <1>2, <2>2
    <3>2. t[i - Len(s)].prev = Len(s) + (i - Len(s)) - 1
      BY <3>1
    <3> QED BY <1>1, <1>2, <3>1, <3>2
  <2> QED BY <1>1, <1>2, <2>1, <2>2
<1> QED BY <1>1, <1>2

\* A commit makes the rows of one transaction the rows of all.
LEMMA CommitChain ==
  ASSUME ChainInv, NEW p \in Proc, Commit(p)
  PROVE  ChainInv'
<1>0. /\ tx[p] \in Tx /\ tx \in [Proc -> Tx] /\ journal \in Seq(Entry) /\ audit \in Seq(Row)
      /\ tx[p].entries \in Seq(Entry) /\ tx[p].rows \in Seq(Row)
  BY DEF ChainInv, TypeOK, Tx
<1>1. TypeOK'
  BY StepType DEF ChainInv, Step
<1>2. /\ journal' = journal \o tx[p].entries /\ audit' = audit \o tx[p].rows
      /\ glHead' = LastPrev(tx[p].entries, glHead) /\ auditHead' = LastPrev(tx[p].rows, auditHead)
      /\ ledgerLock' = Released(ledgerLock, p) /\ glLock' = Released(glLock, p)
  BY DEF Commit, ReleaseAll
<1>3. tx'[p] = IdleTx /\ \A q \in Proc \ {p} : tx'[q] = tx[q]
  BY <1>0 DEF Commit
<1>4. IdleTx.rows = <<>> /\ IdleTx.entries = <<>> /\ IdleTx.pc = "idle"
  BY DEF IdleTx
<1>5. /\ glHead = Len(journal) /\ auditHead = Len(audit)
      /\ \A i \in DOMAIN journal : journal[i].prev = i - 1
      /\ \A i \in DOMAIN audit : audit[i].prev = i - 1
  BY DEF ChainInv, ChainLinear, ChainIntact
<1>6. /\ \A i \in DOMAIN tx[p].entries : tx[p].entries[i].prev = Len(journal) + i - 1
      /\ \A i \in DOMAIN tx[p].rows : tx[p].rows[i].prev = Len(audit) + i - 1
  BY DEF ChainInv, PendingChained
<1>7. Len(journal) \in Nat /\ Len(audit) \in Nat
  BY <1>0
<1>8. glHead' = Len(journal) + Len(tx[p].entries) /\ auditHead' = Len(audit) + Len(tx[p].rows)
  <2>1. LastPrev(tx[p].entries, Len(journal)) = Len(journal) + Len(tx[p].entries)
    BY <1>0, <1>6, <1>7, NextLink
  <2>2. LastPrev(tx[p].rows, Len(audit)) = Len(audit) + Len(tx[p].rows)
    BY <1>0, <1>6, <1>7, NextLink
  <2> QED BY <1>2, <1>5, <2>1, <2>2
<1>9. ChainLinear'
  <2>1. /\ \A i \in DOMAIN journal' : journal'[i].prev = i - 1
        /\ Len(journal') = Len(journal) + Len(tx[p].entries)
    BY <1>0, <1>2, <1>5, <1>6, Concatenated
  <2>2. /\ \A i \in DOMAIN audit' : audit'[i].prev = i - 1
        /\ Len(audit') = Len(audit) + Len(tx[p].rows)
    <3>1. \A i \in DOMAIN audit : audit[i].prev = i - 1
      BY <1>5
    <3>2. \A i \in DOMAIN tx[p].rows : tx[p].rows[i].prev = Len(audit) + i - 1
      BY <1>6
    <3>3. audit' = audit \o tx[p].rows /\ audit \in Seq(Row) /\ tx[p].rows \in Seq(Row)
      BY <1>0, <1>2
    <3> QED BY <3>1, <3>2, <3>3, Concatenated
  <2>3. glHead' = Len(journal') /\ auditHead' = Len(audit')
    BY <1>8, <2>1, <2>2
  <2>4. ChainIntact(journal)'
    BY <2>1 DEF ChainIntact
  <2> QED BY <2>2, <2>3, <2>4 DEF ChainLinear
<1>10. LockDiscipline'
  <2>1. glLock' # NONE => ledgerLock' = glLock'
    BY <1>2, NoneAssumption DEF ChainInv, LockDiscipline, Released
  <2>2. ASSUME NEW q \in Proc
        PROVE  /\ tx'[q].rows # <<>> \/ tx'[q].pc = "gl" => ledgerLock' = q
               /\ tx'[q].entries # <<>> => glLock' = q
               /\ tx'[q].pc = "idle" => tx'[q].rows = <<>> /\ tx'[q].entries = <<>>
    <3>1. CASE q = p
      BY <1>3, <1>4, <3>1
    <3>2. CASE q # p
      BY <1>2, <1>3, <3>2, NoneAssumption DEF ChainInv, LockDiscipline, Released
    <3> QED BY <3>1, <3>2
  <2> QED BY <2>1, <2>2 DEF LockDiscipline
<1>11. PendingChained'
  <2>1. ASSUME NEW q \in Proc
        PROVE  /\ \A i \in DOMAIN tx'[q].entries : tx'[q].entries[i].prev = Len(journal') + i - 1
               /\ \A i \in DOMAIN tx'[q].rows : tx'[q].rows[i].prev = Len(audit') + i - 1
    <3>1. CASE q = p
      BY <1>3, <1>4, <3>1
    <3>2. CASE q # p
      <4>1. tx'[q] = tx[q]
        BY <1>3, <3>2
      <4>2. tx[q].entries # <<>> => tx[p].entries = <<>>
        BY <3>2 DEF ChainInv, LockDiscipline
      <4>3. tx[q].rows # <<>> => tx[p].rows = <<>>
        BY <3>2 DEF ChainInv, LockDiscipline
      <4>4. tx[p].entries = <<>> => journal' = journal
        BY <1>0, <1>2
      <4>5. tx[p].rows = <<>> => audit' = audit
        BY <1>0, <1>2
      <4> QED BY <4>1, <4>2, <4>3, <4>4, <4>5 DEF ChainInv, PendingChained
    <3> QED BY <3>1, <3>2
  <2> QED BY <2>1 DEF PendingChained
<1> QED BY <1>1, <1>9, <1>10, <1>11 DEF ChainInv

\* Every step keeps the chains.
LEMMA NextChain == ChainInv /\ [Next]_vars => ChainInv'
<1> SUFFICES ASSUME ChainInv, [Next]_vars PROVE ChainInv'
  OBVIOUS
<1>0. TypeOK'
  BY NextType DEF ChainInv
<1>1. ASSUME NEW p \in Proc, Refuse(p) PROVE ChainInv'
  BY <1>1, RefuseChain
<1>2. ASSUME NEW p \in Proc, Request(p) PROVE ChainInv'
  BY <1>0, <1>2, RequestQuiet, QuietChain
<1>3. ASSUME NEW p \in Proc, Step(p), ~Refuse(p) PROVE ChainInv'
  <2>1. CASE SetPeriod(p) \/ Skip(p) \/ Check(p) \/ InsertPeriod(p) \/ OpenNextYear(p)
    BY <1>0, <1>3, <2>1, StepQuiet, QuietChain
  <2>2. CASE RecordEvent(p)
    BY <1>3, <2>2, RecordEventChain
  <2>3. CASE LockLedger(p)
    BY <2>3, LockLedgerChain
  <2>4. CASE Post(p)
    BY <1>3, <2>4, PostChain
  <2>5. CASE Commit(p)
    BY <2>5, CommitChain
  <2> QED BY <1>3, <2>1, <2>2, <2>3, <2>4, <2>5 DEF Step
<1>4. CASE Tick \/ ShopIdle \/ UNCHANGED vars
  <2>1. UNCHANGED <<journal, glHead, audit, auditHead, ledgerLock, glLock, tx>>
    BY <1>4 DEF Tick, ShopIdle, vars, tables, locks
  <2> QED BY <1>0, <2>1 DEF ChainInv, LockDiscipline, ChainLinear, ChainIntact, PendingChained
<1>5. ASSUME NEW p \in Proc, DeadlockAbort(p) PROVE ChainInv'
  BY <1>1, <1>5 DEF DeadlockAbort
<1> QED BY <1>1, <1>2, <1>3, <1>4, <1>5 DEF Next

\* The chains hold in every reachable state.
THEOREM ChainsHold == Spec => []ChainInv
<1> QED BY InitChain, NextChain, PTL DEF Spec

\* Whatever handlers interleave, the journal and the audit ledger are each one
\* unbroken hash chain whose head row names the last link (gl.post_entry and
\* ledger.record read the head under its lock).
THEOREM ChainsLinear == Spec => []ChainLinear
<1>1. ChainInv => ChainLinear
  BY DEF ChainInv
<1> QED BY <1>1, ChainsHold, PTL

\* What is uncommitted was written under the locks of the heads it advances, and
\* the GL head is never held without the audit head.
THEOREM LocksDisciplined == Spec => []LockDiscipline
<1>1. ChainInv => LockDiscipline
  BY DEF ChainInv
<1> QED BY <1>1, ChainsHold, PTL

\* Handlers that wait only for chain heads never wait on each other in a cycle:
\* every set of them has a member that can go on (the audit head is taken first).
THEOREM HeadsOrdered == Spec => []HeadsNeverDeadlock
<1>1. ChainInv => HeadsNeverDeadlock
  <2> SUFFICES ASSUME ChainInv, NEW S \in SUBSET Proc, S # {},
                      \A q \in S : tx[q].pc \in {"event", "ledger", "gl"}
               PROVE  \E q \in S : Blockers(q) \cap S = {}
    BY DEF HeadsNeverDeadlock
  <2>1. ASSUME NEW q \in S, tx[q].pc = "gl" PROVE Blockers(q) \cap S = {}
    <3>1. Blockers(q) = {glLock} \ {NONE, q}
      BY <2>1 DEF Blockers
    <3>2. ledgerLock = q /\ (glLock # NONE => ledgerLock = glLock)
      BY <2>1 DEF ChainInv, LockDiscipline
    <3> QED BY <3>1, <3>2
  <2>2. CASE ledgerLock \in S
    <3>1. CASE tx[ledgerLock].pc = "gl"
      BY <2>1, <2>2, <3>1
    <3>2. CASE tx[ledgerLock].pc \in {"event", "ledger"}
      <4>1. Blockers(ledgerLock) = {ledgerLock} \ {NONE, ledgerLock}
        BY <3>2 DEF Blockers
      <4> QED BY <2>2, <4>1
    <3> QED BY <2>2, <3>1, <3>2
  <2>3. CASE ledgerLock \notin S
    <3>1. PICK q \in S : q \in S
      OBVIOUS
    <3>2. CASE tx[q].pc = "gl"
      BY <2>1, <3>2
    <3>3. CASE tx[q].pc \in {"event", "ledger"}
      <4>1. Blockers(q) = {ledgerLock} \ {NONE, q}
        BY <3>3 DEF Blockers
      <4> QED BY <2>3, <4>1
    <3> QED BY <3>2, <3>3
  <2> QED BY <2>2, <2>3
<1> QED BY <1>1, ChainsHold, PTL

\* The heads are taken in the one order that neither blocks a circle of handlers
\* nor leaves a pending row unguarded (the lock-ordering note of gl.post_entry).
THEOREM HeadsSound == Spec => []HeadsSafe
<1>1. TypeOK /\ LockDiscipline /\ HeadsNeverDeadlock => HeadsSafe
  BY DEF HeadsSafe
<1> QED BY <1>1, TypeCorrect, LocksDisciplined, HeadsOrdered, PTL

-----------------------------------------------------------------------------
(* Sound books, and sound audit rows, as a transaction sees them. *)

Reversing == {"UNDO", "REVERSE"}
Posting3 == {"newPeriod", "ledger", "gl"}

\* A journal in which only earlier entries are reversed, each once, and documents
\* are posted once.
Booked(s) ==
  /\ \A i \in DOMAIN s :
       IF s[i].kind = "REVERSAL"
       THEN s[i].reverses \in 1..(i - 1) /\ s[s[i].reverses].kind \notin {"REVERSAL", "YEAR_CLOSE"}
       ELSE s[i].reverses = 0
  /\ \A i, k \in DOMAIN s : s[i].reverses # 0 /\ s[k].reverses = s[i].reverses => k = i
  /\ \A i, k \in DOMAIN s :
       s[i].kind \in {"DOC", "PARTIAL"} /\ s[k].kind = s[i].kind /\ s[k].doc = s[i].doc => k = i

\* The posting under way: what it reverses is in the journal and can be reversed.
CurSound(p) == tx[p].pc \in Posting3 =>
  IF tx[p].cur.kind \in Reversing
  THEN /\ tx[p].cur.target \in DOMAIN Seen(p)
       /\ Seen(p)[tx[p].cur.target].kind \notin {"REVERSAL", "YEAR_CLOSE"}
  ELSE tx[p].cur.target = 0

TodoSound(p) == \A s \in tx[p].todo :
  IF s.kind = "REVERSE" THEN s.target \in DOMAIN Seen(p)
  ELSE s.kind # "YEAR_CLOSE" /\ s.target = 0

BooksInv ==
  /\ ChainInv /\ Booked(journal)
  /\ \A p \in Proc : Booked(Seen(p)) /\ CurSound(p) /\ TodoSound(p)

\* The audit rows as a transaction sees them report a journal of n entries.
RowsSeen(p) == audit \o tx[p].rows
Reports(r, n) ==
  /\ {r[i].entry : i \in DOMAIN r} \ {0} = 1..n
  /\ \A i, k \in DOMAIN r : i < k /\ r[i].entry # 0 /\ r[k].entry # 0 => r[i].entry < r[k].entry

MirrorInv ==
  /\ ChainInv /\ Reports(audit, Len(journal))
  /\ \A p \in Proc : Reports(RowsSeen(p), Len(Seen(p)))

\* The course of the handlers that record their event first, and of those that
\* write a closed month or the switch: all of them commit under the audit head.
KindOf(op) == CASE op = "sale" -> "DOC" [] op = "itemRefund" -> "PARTIAL" [] OTHER -> "UNDO"
EventFirstCourse(t) == t.op \in EventFirst =>
  /\ \A s, r \in t.todo : s = r /\ s.kind = KindOf(t.op) /\ s.doc = t.doc
  /\ t.pc \notin {"idle", "event"} => t.rows # <<>>
  /\ t.pc = "event" => t.entries = <<>> /\ t.months = Unwritten
  /\ t.pc \notin {"idle", "setPeriod", "nextYear"}
  /\ t.todo # {} => t.entries = <<>>
  /\ t.pc \in Posting3 =>
       t.todo = {} /\ t.entries = <<>> /\ t.cur.kind = KindOf(t.op) /\ (t.cur.kind # "UNDO" => t.cur.doc = t.doc)
  /\ t.op = "void" /\ t.pc \in {"event", "check"} => t.todo # {}
ClosingCourse(t) ==
  /\ (\E m \in Month : t.months[m] = "CLOSED") => t.op \in {"close", "closeYear"}
  /\ t.op \in {"close", "autoOn", "autoOff"} =>
       t.todo = {} /\ t.pc \in {"setPeriod", "event", "commit"} /\ (t.pc = "commit" => t.rows # <<>>)
  /\ t.op = "closeYear" =>
       t.todo = {} /\ t.pc \in Posting3 \cup {"nextYear", "commit"} /\ (t.pc \in {"nextYear", "commit"} => t.rows # <<>>)
\* What such a handler knows stays true under the lock it holds.
PastEvent(p) == tx[p].op \in EventFirst /\ tx[p].pc \notin {"idle", "event"}
Knows(p) == PastEvent(p) =>
  /\ \A m \in Month : tx[p].months[m] \in {"SAME", "OPEN"} /\ (tx[p].months[m] = "OPEN" => period[m] # "CLOSED")
  /\ tx[p].pc \in Posting3 =>
       /\ period[tx[p].cur.month] # "CLOSED"
       /\ ~DuplicatePosting(p, EntryFor(p))
       /\ tx[p].op = "void" => tx[p].cur.target \in LiveEntries(Seen(p), tx[p].doc)
  /\ \A i \in DOMAIN tx[p].entries : period[tx[p].entries[i].month] # "CLOSED"
  /\ tx[p].op = "itemRefund" /\ (tx[p].pc \in Posting3 \/ tx[p].entries # <<>>) =>
       \E i \in LiveEntries(journal, tx[p].doc) : ~IsReversed(journal, i)
  /\ tx[p].op = "void" /\ tx[p].pc = "commit" /\ autoPost =>
       \A i \in LiveEntries(Seen(p), tx[p].doc) : IsReversed(Seen(p), i)

CourseInv == BooksInv /\ \A p \in Proc : EventFirstCourse(tx[p]) /\ ClosingCourse(tx[p]) /\ Knows(p)
-----------------------------------------------------------------------------
(* Journals. *)

\* t goes on where s ends.
Grows(s, t) == DOMAIN s \subseteq DOMAIN t /\ \A i \in DOMAIN s : t[i] = s[i]

\* gl.post_entry adds an entry that passed its guards to a sound journal.
LEMMA BookedAppend ==
  ASSUME NEW s \in Seq(Entry), NEW e \in Entry, Booked(s),
         IF e.kind = "REVERSAL"
         THEN e.reverses \in DOMAIN s /\ s[e.reverses].kind \notin {"REVERSAL", "YEAR_CLOSE"}
         ELSE e.reverses = 0,
         IF e.reverses # 0 THEN ~IsReversed(s, e.reverses) ELSE ~SamePosted(s, e)
  PROVE  Booked(Append(s, e))
<1> DEFINE t == Append(s, e)
           n == Len(s)
<1>1. /\ n \in Nat /\ DOMAIN s = 1..n /\ DOMAIN t = 1..(n + 1)
      /\ t[n + 1] = e /\ \A i \in 1..n : t[i] = s[i]
  OBVIOUS
<1> HIDE DEF t, n
<1>2. ASSUME NEW i \in DOMAIN t
      PROVE  IF t[i].kind = "REVERSAL"
             THEN t[i].reverses \in 1..(i - 1) /\ t[t[i].reverses].kind \notin {"REVERSAL", "YEAR_CLOSE"}
             ELSE t[i].reverses = 0
  <2>1. CASE i = n + 1
    BY <1>1, <2>1
  <2>2. CASE i \in 1..n
    <3>1. IF s[i].kind = "REVERSAL"
          THEN s[i].reverses \in 1..(i - 1) /\ s[s[i].reverses].kind \notin {"REVERSAL", "YEAR_CLOSE"}
          ELSE s[i].reverses = 0
      BY <1>1, <2>2 DEF Booked
    <3>2. 1..(i - 1) \subseteq 1..n
      BY <1>1, <2>2
    <3> QED BY <1>1, <2>2, <3>1, <3>2
  <2> QED BY <1>1, <1>2, <2>1, <2>2
<1>3. ASSUME NEW i \in DOMAIN t, NEW k \in DOMAIN t, t[i].reverses # 0, t[k].reverses = t[i].reverses
      PROVE  k = i
  <2>1. CASE i \in 1..n /\ k \in 1..n
    BY <1>1, <1>3, <2>1 DEF Booked
  <2>2. ASSUME NEW j \in 1..n PROVE e.reverses # 0 => s[j].reverses # e.reverses
    BY <1>1, <2>2 DEF IsReversed
  <2> QED BY <1>1, <1>3, <2>1, <2>2
<1>4. ASSUME NEW i \in DOMAIN t, NEW k \in DOMAIN t,
             t[i].kind \in {"DOC", "PARTIAL"}, t[k].kind = t[i].kind, t[k].doc = t[i].doc
      PROVE  k = i
  <2>1. CASE i \in 1..n /\ k \in 1..n
    BY <1>1, <1>4, <2>1 DEF Booked
  <2>2. ASSUME NEW j \in 1..n, e.kind \in {"DOC", "PARTIAL"} PROVE ~(s[j].kind = e.kind /\ s[j].doc = e.doc)
    BY <1>1, <2>2 DEF SamePosted
  <2> QED BY <1>1, <1>4, <2>1, <2>2
<1> QED BY <1>2, <1>3, <1>4 DEF Booked, t

\* What a step does to the journal as each handler sees it.
LEMMA SeenOf ==
  ASSUME TypeOK, NEW p \in Proc
  PROVE  /\ Seen(p) \in Seq(Entry) /\ tx[p].entries \in Seq(Entry)
         /\ tx[p].entries = <<>> => Seen(p) = journal
         /\ Len(Seen(p)) = Len(journal) + Len(tx[p].entries)
         /\ Grows(journal, Seen(p))
<1>1. tx[p] \in Tx /\ journal \in Seq(Entry)
  BY DEF TypeOK
<1>2. tx[p].entries \in Seq(Entry)
  BY <1>1 DEF Tx
<1> QED BY <1>1, <1>2 DEF Seen, Grows

\* What a request saw stays true while the journal stands still.
LEMMA QuietSeen ==
  ASSUME NEW p \in Proc, NEW q \in Proc, journal' = journal, tx'[q].entries = tx[q].entries
  PROVE  Seen(q)' = Seen(q)
BY DEF Seen

\* What a request saw stays true when another posts: the journal only grows.
LEMMA PostSeen ==
  ASSUME TypeOK, NEW p \in Proc, NEW e, journal' = journal, tx'[p].entries = Append(tx[p].entries, e)
  PROVE  Seen(p)' = Append(Seen(p), e)
<1>1. journal \in Seq(Entry) /\ tx[p].entries \in Seq(Entry)
  BY SeenOf DEF TypeOK
<1> DEFINE j == journal
           s == tx[p].entries
<1>2. ASSUME NEW a \in Seq(Entry), NEW b \in Seq(Entry) PROVE a \o Append(b, e) = Append(a \o b, e)
  OBVIOUS
<1> QED BY <1>1, <1>2 DEF Seen

\* Committing what p wrote leaves every other handler with the journal it saw, or
\* with the journal p saw if it had written nothing (the GL head is p's).
LEMMA CommitSeen ==
  ASSUME ChainInv, NEW p \in Proc, NEW q \in Proc, Commit(p)
  PROVE  /\ journal' = Seen(p) /\ Grows(Seen(q), Seen(q)')
         /\ Seen(q)' = Seen(q) \/ (tx[q].entries = <<>> /\ tx[p].entries # <<>> /\ Seen(q)' = Seen(p))
<1>0. TypeOK /\ tx \in [Proc -> Tx]
  BY DEF ChainInv, TypeOK
<1>1. /\ Seen(p) \in Seq(Entry) /\ Seen(q) \in Seq(Entry) /\ journal \in Seq(Entry)
      /\ tx[p].entries \in Seq(Entry) /\ tx[q].entries \in Seq(Entry) /\ Grows(journal, Seen(p))
      /\ tx[p].entries = <<>> => Seen(p) = journal
      /\ tx[q].entries = <<>> => Seen(q) = journal
  BY <1>0, SeenOf DEF TypeOK
<1>2. journal' = Seen(p)
  BY DEF Commit, Seen
<1>3. CASE q = p
  <2>1. tx'[p].entries = <<>>
    BY <1>0 DEF Commit, IdleTx
  <2>2. Seen(p)' = Seen(p)
    BY <1>1, <1>2, <2>1 DEF Seen
  <2> QED BY <1>2, <1>3, <2>2 DEF Grows
<1>4. CASE q # p
  <2>1. tx'[q] = tx[q]
    BY <1>0, <1>4 DEF Commit
  <2>2. tx[p].entries = <<>> \/ tx[q].entries = <<>>
    BY <1>4 DEF ChainInv, LockDiscipline
  <2>3. CASE tx[p].entries = <<>>
    BY <1>1, <1>2, <2>1, <2>3 DEF Seen, Grows
  <2>4. CASE tx[p].entries # <<>> /\ tx[q].entries = <<>>
    <3>1. Seen(q)' = Seen(p)
      BY <1>1, <1>2, <2>1, <2>4 DEF Seen
    <3> QED BY <1>1, <1>2, <2>4, <3>1
  <2> QED BY <2>2, <2>3, <2>4
<1> QED BY <1>3, <1>4
-----------------------------------------------------------------------------
(* What a step does to the record of its handler. *)

\* u differs from t in its place, its rows and its entries at most.
SameCourse(t, u) ==
  u.op = t.op /\ u.doc = t.doc /\ u.cur = t.cur /\ u.todo = t.todo /\ u.months = t.months

\* ledger.record changes a handler's rows and place, nothing else.
LEMMA RecordEventTx ==
  ASSUME TypeOK, NEW p \in Proc, RecordEvent(p), ~Refuse(p)
  PROVE  /\ SameCourse(tx[p], tx'[p]) /\ tx'[p].pc = Continue(tx[p])
         /\ tx'[p].entries = tx[p].entries
         /\ \E e : e.entry = 0 /\ tx'[p].rows = Append(tx[p].rows, e)
<1>0. tx[p] \in Tx /\ tx \in [Proc -> Tx]
  BY DEF TypeOK
<1> DEFINE a == Advance(tx[p])
           e == [prev |-> LastPrev(tx[p].rows, auditHead), entry |-> 0]
<1>1. a \in Tx /\ SameCourse(tx[p], a) /\ a.pc = Continue(tx[p]) /\ a.entries = tx[p].entries
      /\ a.rows = tx[p].rows
  BY <1>0, AdvanceType DEF Advance, Tx, SameCourse
<1>2. tx'[p] = AppendRow(p, a, 0)
  BY <1>0 DEF RecordEvent
<1> HIDE DEF a
<1>3. e.entry = 0 /\ AppendRow(p, a, 0) = [a EXCEPT !.rows = Append(a.rows, e)]
  BY DEF AppendRow
<1> HIDE DEF e
<1> QED BY <1>1, <1>2, <1>3 DEF Tx, SameCourse

\* gl.post_entry, and the closing of a year with it, changes a handler's entries,
\* rows and place, and for a year what it has to open.
LEMMA PostTx ==
  ASSUME TypeOK, NEW p \in Proc, Post(p), ~Refuse(p)
  PROVE  /\ SameCourse(tx[p], tx'[p])
         /\ tx'[p].entries = Append(tx[p].entries, EntryFor(p))
         /\ tx'[p].pc = IF tx[p].op = "closeYear" THEN "nextYear"
                        ELSE Continue([tx[p] EXCEPT !.entries = Append(@, EntryFor(p))])
         /\ \E e, f \in Row : /\ e.entry = Len(journal) + Len(tx[p].entries) + 1 /\ f.entry = 0
                      /\ tx'[p].rows \in {Append(tx[p].rows, e), Append(Append(tx[p].rows, e), f)}
<1>0. tx[p] \in Tx /\ tx \in [Proc -> Tx] /\ WithEntry(p) \in Tx
  BY WithEntryType DEF TypeOK
<1> DEFINE w == WithEntry(p)
           a == Advance(w)
           e == [prev |-> LastPrev(tx[p].rows, auditHead), entry |-> Len(journal) + Len(tx[p].entries) + 1]
           f == [prev |-> LastPrev(Posted(p).rows, auditHead), entry |-> 0]
<1>1. /\ w.entries = Append(tx[p].entries, EntryFor(p)) /\ w.rows = tx[p].rows
      /\ SameCourse(tx[p], w) /\ w.pc = tx[p].pc
  BY <1>0 DEF WithEntry, Tx, SameCourse
<1>2. Continue(w) = Continue([tx[p] EXCEPT !.entries = Append(@, EntryFor(p))])
  BY <1>0, <1>1 DEF Continue, SameCourse, Tx
<1>3. a \in Tx
  BY <1>0, AdvanceType
<1>4. SameCourse(w, a) /\ a.pc = Continue(w) /\ a.entries = w.entries /\ a.rows = w.rows
  BY <1>0 DEF Advance, Tx, SameCourse
<1>5. Posted(p) = AppendRow(p, a, Len(journal) + Len(tx[p].entries) + 1)
  BY DEF Posted
<1> HIDE DEF w, a
<1>6. Posted(p) = [a EXCEPT !.rows = Append(a.rows, e)] /\ Posted(p) \in Tx
  BY <1>0, <1>5, PostedType DEF AppendRow
<1>7. /\ Posted(p).rows = Append(tx[p].rows, e) /\ Posted(p).entries = a.entries
      /\ SameCourse(a, Posted(p)) /\ Posted(p).pc = a.pc
  BY <1>1, <1>3, <1>4, <1>6 DEF Tx, SameCourse
<1>8. /\ YearClosed(p).rows = Append(Posted(p).rows, f) /\ YearClosed(p).entries = Posted(p).entries
      /\ SameCourse(Posted(p), YearClosed(p)) /\ YearClosed(p).pc = "nextYear"
  BY <1>6 DEF YearClosed, Tx, SameCourse
<1>9. tx'[p] = IF tx[p].op = "closeYear" THEN YearClosed(p) ELSE Posted(p)
  BY <1>0 DEF Post
<1>10. e \in Row /\ f \in Row /\ e.entry = Len(journal) + Len(tx[p].entries) + 1 /\ f.entry = 0
  <2>1. auditHead \in Nat /\ Len(journal) + Len(tx[p].entries) + 1 \in Nat
    BY <1>0 DEF TypeOK, Tx
  <2>2. LastPrev(tx[p].rows, auditHead) \in Nat /\ LastPrev(Posted(p).rows, auditHead) \in Nat
    BY <1>0, <1>6, <2>1, LastPrevType DEF Tx
  <2> QED BY <2>1, <2>2 DEF Row
<1> HIDE DEF e, f
<1>11. \E x, y \in Row : /\ x.entry = Len(journal) + Len(tx[p].entries) + 1 /\ y.entry = 0
                 /\ tx'[p].rows \in {Append(tx[p].rows, x), Append(Append(tx[p].rows, x), y)}
  BY <1>7, <1>8, <1>9, <1>10
<1> QED BY <1>1, <1>2, <1>4, <1>7, <1>8, <1>9, <1>11 DEF SameCourse
-----------------------------------------------------------------------------
(* No document is booked twice. *)

\* A handler that a step does not concern stays sound, and so does one whose
\* posting under way and whose postings to make the step leaves alone.
LEMMA KeptSound ==
  ASSUME NEW q \in Proc, CurSound(q), TodoSound(q), Grows(Seen(q), Seen(q)'),
         tx'[q].todo \subseteq tx[q].todo, tx'[q].cur = tx[q].cur,
         tx'[q].pc \in Posting3 => tx[q].pc \in Posting3
  PROVE  CurSound(q)' /\ TodoSound(q)'
<1>1. CurSound(q)'
  BY DEF CurSound, Grows, Posting3, Reversing
<1>2. TodoSound(q)'
  BY DEF TodoSound, Grows
<1> QED BY <1>1, <1>2

\* What a handler may ask for is sound.
LEMMA RequestSound ==
  ASSUME BooksInv, NEW p \in Proc, Request(p)
  PROVE  CurSound(p)' /\ TodoSound(p)'
<1>0. TypeOK /\ tx \in [Proc -> Tx] /\ Grows(journal, journal)
  BY DEF BooksInv, ChainInv, TypeOK, Grows
<1>1. Quiet(p)
  BY RequestQuiet DEF BooksInv
<1>2. DOMAIN journal \subseteq DOMAIN Seen(p)'
  <2>1. Seen(p)' = Seen(p)
    BY <1>1, QuietSeen DEF Quiet
  <2> QED BY <1>0, <2>1, SeenOf DEF Grows
<1>3. ASSUME NEW c \in {"event", "check"}, NEW o, NEW d, NEW s, Begin(p, Posts(c, o, d, s)),
             \A x \in s : IF x.kind = "REVERSE" THEN x.target \in DOMAIN journal
                          ELSE x.kind # "YEAR_CLOSE" /\ x.target = 0
      PROVE  CurSound(p)' /\ TodoSound(p)'
  <2>1. tx'[p] = Posts(c, o, d, s)
    BY <1>0, <1>3 DEF Begin
  <2>2. tx'[p].pc \notin Posting3 /\ tx'[p].todo = s
    BY <2>1 DEF Posts, IdleTx, Posting3
  <2> QED BY <1>2, <1>3, <2>2 DEF CurSound, TodoSound
<1>4. ASSUME NEW c, NEW o, NEW u, NEW w, Begin(p, WorksOn(c, o, u, w)), u.kind \notin Reversing, u.target = 0
      PROVE  CurSound(p)' /\ TodoSound(p)'
  <2>1. tx'[p] = WorksOn(c, o, u, w)
    BY <1>0, <1>4 DEF Begin
  <2>2. tx'[p].cur = u /\ tx'[p].todo = {}
    BY <2>1 DEF WorksOn, IdleTx
  <2> QED BY <1>4, <2>2 DEF CurSound, TodoSound
<1>5. ASSUME NEW k, NEW d, NEW m, k \notin {"REVERSE", "YEAR_CLOSE"}
      PROVE  LET x == NewPosting(k, d, m) IN
             IF x.kind = "REVERSE" THEN x.target \in DOMAIN journal
             ELSE x.kind # "YEAR_CLOSE" /\ x.target = 0
  BY <1>5 DEF NewPosting
<1>6. CASE BeginManual(p)
  BY <1>3, <1>5, <1>6 DEF BeginManual
<1>7. CASE BeginReverse(p)
  <2>1. PICK i \in DOMAIN journal :
          Begin(p, Posts("check", "reverse", NONE, {[NewPosting("REVERSE", NONE, today) EXCEPT !.target = i]}))
    BY <1>7 DEF BeginReverse
  <2>2. LET x == [NewPosting("REVERSE", NONE, today) EXCEPT !.target = i] IN
        x.kind = "REVERSE" /\ x.target \in DOMAIN journal
    BY DEF NewPosting
  <2> QED BY <1>3, <2>1, <2>2
<1>8. CASE BeginSale(p)
  BY <1>3, <1>5, <1>8 DEF BeginSale
<1>9. ASSUME NEW op \in {"void", "refund", "itemRefund"}, BeginUndo(p, op)
      PROVE  CurSound(p)' /\ TodoSound(p)'
  BY <1>3, <1>5, <1>9 DEF BeginUndo
<1>10. CASE BeginReplay(p)
  BY <1>3, <1>5, <1>10 DEF BeginReplay, ReplaySteps
<1>11. \A m : NewPosting("MANUAL", NONE, m).kind \notin Reversing /\ NewPosting("MANUAL", NONE, m).target = 0
  BY DEF NewPosting, Reversing
<1>12. CASE BeginClose(p) \/ BeginReopen(p) \/ BeginOpen(p)
  BY <1>4, <1>11, <1>12 DEF BeginClose, BeginReopen, BeginOpen
<1>13. CASE BeginCloseYear(p)
  BY <1>4, <1>13 DEF BeginCloseYear, NewPosting, Reversing
<1>14. CASE BeginSettings(p)
  BY <1>3, <1>14 DEF BeginSettings
<1> QED BY <1>6, <1>7, <1>8, <1>9, <1>10, <1>12, <1>13, <1>14 DEF Request

\* The unlocked checks of a posting leave a reversal that points at an entry that
\* can be reversed.
LEMMA CheckSound ==
  ASSUME BooksInv, NEW p \in Proc, Check(p), ~Refuse(p)
  PROVE  CurSound(p)' /\ TodoSound(p)'
<1>0. TypeOK /\ tx \in [Proc -> Tx] /\ tx[p] \in Tx
  BY DEF BooksInv, ChainInv, TypeOK
<1>1. PICK s \in NextPostings(p), c \in {"newPeriod", "ledger"} :
        /\ ~Skipped(p, s)
        /\ ~(s.kind = "REVERSE" /\ ~Reversible(p, s.target))
        /\ tx' = [tx EXCEPT ![p] = [Without(tx[p], s) EXCEPT !.cur = Resolved(p, s), !.pc = c]]
  BY DEF Check
<1>2. /\ tx'[p].entries = tx[p].entries /\ tx'[p].cur = Resolved(p, s)
      /\ tx'[p].todo \subseteq tx[p].todo
  BY <1>0, <1>1 DEF Without, Tx
<1>3. Seen(p)' = Seen(p)
  <2>1. journal' = journal
    BY DEF Check, tables
  <2> QED BY <1>2, <2>1, QuietSeen
<1>4. TodoSound(p)'
  BY <1>2, <1>3 DEF BooksInv, TodoSound
<1>5. s \in Posting /\ s \in tx[p].todo
  BY <1>0, <1>1 DEF NextPostings, Tx
<1>6. CASE s.kind = "REVERSE"
  <2>1. Reversible(p, s.target) /\ s.target \in DOMAIN Seen(p)
    BY <1>1, <1>5, <1>6 DEF BooksInv, TodoSound
  <2>2. Seen(p)[s.target].kind \notin {"REVERSAL", "YEAR_CLOSE"}
    BY <2>1, SeenOf, <1>0 DEF BooksInv, Booked, Reversible
  <2>3. Resolved(p, s) = s
    BY <1>6 DEF Resolved
  <2> QED BY <1>2, <1>3, <1>4, <1>6, <2>1, <2>2, <2>3 DEF CurSound, Reversing
<1>7. CASE s.kind = "UNDO"
  <2>1. LiveEntries(Seen(p), s.doc) # {}
    BY <1>1, <1>7 DEF Skipped
  <2> DEFINE i == CHOOSE j \in LiveEntries(Seen(p), s.doc) : TRUE
  <2>2. i \in DOMAIN Seen(p) /\ Seen(p)[i].kind = "DOC"
    BY <2>1 DEF LiveEntries
  <2> HIDE DEF i
  <2>3. Resolved(p, s) = [s EXCEPT !.target = i]
    BY <1>7 DEF Resolved, i
  <2>4. Resolved(p, s).target = i /\ Resolved(p, s).kind = "UNDO"
    BY <1>5, <1>7, <2>3 DEF Posting
  <2> QED BY <1>2, <1>3, <1>4, <2>2, <2>4 DEF CurSound, Reversing
<1>8. CASE s.kind \notin Reversing
  <2>1. Resolved(p, s) = s
    BY <1>8 DEF Resolved, Reversing
  <2>2. s.target = 0
    BY <1>5, <1>8 DEF BooksInv, TodoSound, Reversing
  <2> QED BY <1>2, <1>4, <1>8, <2>1, <2>2 DEF CurSound
<1> QED BY <1>6, <1>7, <1>8 DEF Reversing

\* gl.post_entry adds a sound entry to the journal its handler sees.
LEMMA PostBooked ==
  ASSUME BooksInv, NEW p \in Proc, Post(p), ~Refuse(p)
  PROVE  Booked(Seen(p)') /\ Grows(Seen(p), Seen(p)') /\ Seen(p)' = Append(Seen(p), EntryFor(p))
<1>0. TypeOK /\ tx[p] \in Tx
  BY DEF BooksInv, ChainInv, TypeOK
<1>1. /\ journal' = journal /\ tx[p].pc = "gl" /\ ~DuplicatePosting(p, EntryFor(p))
      /\ tx'[p].entries = Append(tx[p].entries, EntryFor(p))
  BY <1>0, PostTx DEF Post, tables
<1> DEFINE e == EntryFor(p)
<1> DEFINE s == Seen(p)
<1>2. Seen(p)' = Append(s, e)
  BY <1>0, <1>1, PostSeen
<1>3. s \in Seq(Entry) /\ e \in Entry /\ Booked(s)
  BY <1>0, SeenOf, EntryType DEF BooksInv
<1>4. /\ e.kind = IF tx[p].cur.kind \in Reversing THEN "REVERSAL" ELSE tx[p].cur.kind
      /\ e.reverses = tx[p].cur.target
  BY DEF EntryFor, Reversing
<1>5. tx[p].cur.kind # "REVERSAL"
  BY <1>0 DEF Tx, Posting
<1>6. CurSound(p) /\ tx[p].pc \in Posting3
  BY <1>1 DEF BooksInv, Posting3
<1>7. IF e.kind = "REVERSAL"
      THEN e.reverses \in DOMAIN s /\ s[e.reverses].kind \notin {"REVERSAL", "YEAR_CLOSE"}
      ELSE e.reverses = 0
  BY <1>4, <1>5, <1>6 DEF CurSound
<1>8. IF e.reverses # 0 THEN ~IsReversed(s, e.reverses) ELSE ~SamePosted(s, e)
  BY <1>1 DEF DuplicatePosting
<1> HIDE DEF e, s
<1>9. Booked(Append(s, e)) /\ Grows(s, Append(s, e))
  BY <1>3, <1>7, <1>8, BookedAppend DEF Grows
<1> QED BY <1>2, <1>9 DEF s, e

\* The other steps leave a handler sound.
LEMMA StepSound ==
  ASSUME BooksInv, NEW p \in Proc, Step(p), ~Refuse(p), ~Commit(p), ~Post(p)
  PROVE  Seen(p)' = Seen(p) /\ CurSound(p)' /\ TodoSound(p)'
<1>0. TypeOK /\ tx \in [Proc -> Tx] /\ tx[p] \in Tx /\ ChainInv
  BY DEF BooksInv, ChainInv, TypeOK
<1>1. Seen(p)' = Seen(p)
  <2>1. CASE RecordEvent(p)
    <3>1. tx'[p].entries = tx[p].entries /\ journal' = journal
      BY <1>0, <2>1, RecordEventTx DEF RecordEvent, tables
    <3> QED BY <3>1, QuietSeen
  <2>2. CASE LockLedger(p)
    <3>1. tx'[p].entries = tx[p].entries /\ journal' = journal
      BY <1>0, <2>2 DEF LockLedger, tables, Tx
    <3> QED BY <3>1, QuietSeen
  <2>3. CASE SetPeriod(p) \/ Skip(p) \/ Check(p) \/ InsertPeriod(p) \/ OpenNextYear(p)
    <3>1. Quiet(p)
      BY <1>0, <2>3, StepQuiet
    <3> QED BY <3>1, QuietSeen DEF Quiet
  <2> QED BY <2>1, <2>2, <2>3 DEF Step
<1>2. CurSound(p) /\ TodoSound(p) /\ Grows(Seen(p), Seen(p)')
  BY <1>1 DEF BooksInv, Grows
<1>3. ASSUME tx'[p].cur = tx[p].cur, tx'[p].todo \subseteq tx[p].todo,
             tx'[p].pc \in Posting3 => tx[p].pc \in Posting3
      PROVE  CurSound(p)' /\ TodoSound(p)'
  BY <1>2, <1>3, KeptSound
<1>4. CASE RecordEvent(p)
  <2>1. SameCourse(tx[p], tx'[p]) /\ tx'[p].pc = Continue(tx[p])
    BY <1>0, <1>4, RecordEventTx
  <2> QED BY <1>1, <1>3, <2>1 DEF SameCourse, Continue, Posting3
<1>5. CASE SetPeriod(p)
  <2>1. tx'[p].cur = tx[p].cur /\ tx'[p].todo = tx[p].todo /\ tx'[p].pc = "event"
    BY <1>0, <1>5 DEF SetPeriod, Tx
  <2> QED BY <1>1, <1>3, <2>1 DEF Posting3
<1>6. CASE Skip(p)
  <2>1. PICK s : tx' = [tx EXCEPT ![p] = Advance(Without(tx[p], s))]
    BY <1>6 DEF Skip
  <2>2. tx'[p].cur = tx[p].cur /\ tx'[p].todo \subseteq tx[p].todo /\ tx'[p].pc \in {"check", "event", "commit"}
    BY <1>0, <2>1 DEF Advance, Without, Continue, Tx
  <2> QED BY <1>1, <1>3, <2>2 DEF Posting3
<1>7. CASE Check(p)
  BY <1>1, <1>7, CheckSound
<1>8. CASE InsertPeriod(p)
  <2>1. PICK v \in {"OPEN", "CLOSED"}, c \in {"commit", "ledger"} :
          tx' = [tx EXCEPT ![p].months[tx[p].cur.month] = v, ![p].pc = c]
    BY <1>8 DEF InsertPeriod
  <2>2. tx'[p].cur = tx[p].cur /\ tx'[p].todo = tx[p].todo /\ tx[p].pc = "newPeriod"
    BY <1>0, <1>8, <2>1 DEF InsertPeriod, Tx
  <2> QED BY <1>1, <1>3, <2>2 DEF Posting3
<1>9. CASE LockLedger(p)
  <2>1. tx'[p].cur = tx[p].cur /\ tx'[p].todo = tx[p].todo /\ tx[p].pc = "ledger"
    BY <1>0, <1>9 DEF LockLedger, Tx
  <2> QED BY <1>1, <1>3, <2>1 DEF Posting3
<1>10. CASE OpenNextYear(p)
  <2>1. tx'[p] = [tx[p] EXCEPT !.pc = "commit", !.months = Opened(p)]
    BY <1>0, <1>10 DEF OpenNextYear
  <2>2. tx'[p].cur = tx[p].cur /\ tx'[p].todo = tx[p].todo /\ tx'[p].pc = "commit"
    BY <1>0, <2>1 DEF Tx
  <2> QED BY <1>1, <1>3, <2>2 DEF Posting3
<1> QED BY <1>1, <1>4, <1>5, <1>6, <1>7, <1>8, <1>9, <1>10 DEF Step

\* The invariant of the books holds at the start.
LEMMA InitBooks == Init => BooksInv
<1> SUFFICES ASSUME Init PROVE BooksInv
  OBVIOUS
<1>1. journal = <<>> /\ \A p \in Proc : tx[p] = IdleTx /\ Seen(p) = <<>>
  BY DEF Init, Seen, IdleTx
<1>2. Booked(<<>>)
  BY DEF Booked
<1>3. IdleTx.pc \notin Posting3 /\ IdleTx.todo = {}
  BY DEF IdleTx, Posting3
<1>4. \A p \in Proc : CurSound(p) /\ TodoSound(p)
  BY <1>1, <1>3 DEF CurSound, TodoSound
<1> QED BY <1>1, <1>2, <1>4, InitChain DEF BooksInv

\* A handler whose request ends has nothing under way.
LEMMA EndedSound ==
  ASSUME NEW p \in Proc, TypeOK, tx' = [tx EXCEPT ![p] = IdleTx]
  PROVE  CurSound(p)' /\ TodoSound(p)' /\ Seen(p)' = journal' \o <<>>
<1>1. tx'[p] = IdleTx
  BY DEF TypeOK
<1>2. IdleTx.pc \notin Posting3 /\ IdleTx.todo = {} /\ IdleTx.entries = <<>>
  BY DEF IdleTx, Posting3
<1> QED BY <1>1, <1>2 DEF CurSound, TodoSound, Seen

\* Every step keeps the invariant of the books.
LEMMA NextBooks == BooksInv /\ [Next]_vars => BooksInv'
<1> SUFFICES ASSUME BooksInv, [Next]_vars PROVE BooksInv'
  OBVIOUS
<1>0. ChainInv /\ ChainInv' /\ TypeOK /\ TypeOK' /\ tx \in [Proc -> Tx]
  BY NextChain DEF BooksInv, ChainInv, TypeOK
<1>1. ASSUME NEW p \in Proc, journal' = journal, \A q \in Proc \ {p} : tx'[q] = tx[q],
             Booked(Seen(p)'), CurSound(p)', TodoSound(p)'
      PROVE  BooksInv'
  <2>1. ASSUME NEW q \in Proc PROVE Booked(Seen(q))' /\ CurSound(q)' /\ TodoSound(q)'
    <3>1. CASE q = p
      BY <1>1, <3>1
    <3>2. CASE q # p
      <4>1. tx'[q] = tx[q] /\ Seen(q)' = Seen(q)
        BY <1>1, <3>2, QuietSeen
      <4>2. Booked(Seen(q)) /\ CurSound(q) /\ TodoSound(q)
        BY DEF BooksInv
      <4>3. CurSound(q)' /\ TodoSound(q)'
        BY <4>1, <4>2 DEF CurSound, TodoSound
      <4> QED BY <4>1, <4>2, <4>3
    <3> QED BY <3>1, <3>2
  <2>2. Booked(journal)'
    BY <1>1 DEF BooksInv
  <2> QED BY <1>0, <2>1, <2>2 DEF BooksInv
<1>2. ASSUME NEW p \in Proc, Refuse(p) PROVE BooksInv'
  <2>1. tx' = [tx EXCEPT ![p] = IdleTx] /\ journal' = journal
    BY <1>2 DEF Refuse, tables
  <2>2. CurSound(p)' /\ TodoSound(p)' /\ Seen(p)' = journal
    <3>1. journal \o <<>> = journal
      BY <1>0 DEF TypeOK
    <3> QED BY <1>0, <2>1, <3>1, EndedSound
  <2>3. Booked(Seen(p)')
    BY <2>2 DEF BooksInv
  <2> QED BY <1>0, <1>1, <2>1, <2>2, <2>3
<1>3. ASSUME NEW p \in Proc, Request(p) PROVE BooksInv'
  <2>1. Quiet(p)
    BY <1>0, <1>3, RequestQuiet
  <2>2. Booked(Seen(p)')
    BY <2>1, QuietSeen DEF Quiet, BooksInv
  <2>3. CurSound(p)' /\ TodoSound(p)'
    BY <1>3, RequestSound
  <2> QED BY <1>1, <2>1, <2>2, <2>3 DEF Quiet
<1>4. ASSUME NEW p \in Proc, Step(p), ~Refuse(p), ~Commit(p) PROVE BooksInv'
  <2>1. journal' = journal /\ \A q \in Proc \ {p} : tx'[q] = tx[q]
    BY <1>0, <1>4, StepQuiet DEF Step, Quiet, RecordEvent, LockLedger, Post, tables
  <2>2. CASE Post(p)
    <3>1. Booked(Seen(p)') /\ Grows(Seen(p), Seen(p)')
      BY <1>4, <2>2, PostBooked
    <3>2. SameCourse(tx[p], tx'[p]) /\ tx'[p].pc \notin Posting3
      BY <1>0, <1>4, <2>2, PostTx DEF Continue, Posting3
    <3>3. CurSound(p)' /\ TodoSound(p)'
      BY <3>1, <3>2, KeptSound DEF BooksInv, SameCourse
    <3> QED BY <1>1, <2>1, <3>1, <3>3
  <2>3. CASE ~Post(p)
    <3>1. Seen(p)' = Seen(p) /\ CurSound(p)' /\ TodoSound(p)'
      BY <1>4, <2>3, StepSound
    <3>2. Booked(Seen(p)')
      BY <3>1 DEF BooksInv
    <3> QED BY <1>1, <2>1, <3>1, <3>2
  <2> QED BY <2>2, <2>3
<1>5. ASSUME NEW p \in Proc, Commit(p) PROVE BooksInv'
  <2>1. journal' = Seen(p) /\ Booked(Seen(p)) /\ tx' = [tx EXCEPT ![p] = IdleTx]
    BY <1>0, <1>5, CommitSeen DEF BooksInv, Commit
  <2>2. ASSUME NEW q \in Proc PROVE Booked(Seen(q))' /\ CurSound(q)' /\ TodoSound(q)'
    <3>1. Grows(Seen(q), Seen(q)') /\ Seen(q)' \in {Seen(q), Seen(p)}
      BY <1>0, <1>5, CommitSeen
    <3>2. Booked(Seen(q))'
      BY <2>1, <3>1 DEF BooksInv
    <3>3. CASE q = p
      BY <1>0, <2>1, <3>2, <3>3, EndedSound
    <3>4. CASE q # p
      <4>1. tx'[q] = tx[q]
        BY <1>0, <2>1, <3>4
      <4> QED BY <3>1, <3>2, <4>1, KeptSound DEF BooksInv
    <3> QED BY <3>3, <3>4
  <2> QED BY <1>0, <2>1, <2>2 DEF BooksInv
<1>6. CASE Tick \/ ShopIdle \/ UNCHANGED vars
  <2>1. journal' = journal /\ tx' = tx
    BY <1>6 DEF Tick, ShopIdle, vars, tables
  <2>2. \A p \in Proc : Seen(p)' = Seen(p)
    BY <2>1, QuietSeen
  <2>3. \A p \in Proc : CurSound(p)' /\ TodoSound(p)' /\ Booked(Seen(p)')
    BY <2>1, <2>2 DEF BooksInv, CurSound, TodoSound
  <2> QED BY <1>0, <2>1, <2>3 DEF BooksInv
<1> QED BY <1>2, <1>3, <1>4, <1>5, <1>6 DEF Next, DeadlockAbort

\* The books stay sound as every handler sees them: the invariant behind
\* BookedOnceAlways.
THEOREM BooksHold == Spec => []BooksInv
<1> QED BY InitBooks, NextBooks, PTL DEF Spec

\* However handlers and the replay race, a document has one entry in force and
\* an entry one reversal, which points back at an entry that can be reversed
\* (gl._refuse_duplicate_posting looks again under the heads' locks).
THEOREM BookedOnceAlways == Spec => []DocumentsBookedOnce
<1>1. BooksInv => DocumentsBookedOnce
  <2> SUFFICES ASSUME BooksInv PROVE DocumentsBookedOnce
    OBVIOUS
  <2>1. Booked(journal)
    BY DEF BooksInv
  <2>2. OneReversal
    <3> SUFFICES ASSUME NEW i \in DOMAIN journal, journal[i].kind = "REVERSAL"
                 PROVE  LET t == journal[i].reverses IN
                        /\ t \in 1..(i - 1) /\ journal[t].kind \notin {"REVERSAL", "YEAR_CLOSE"}
                        /\ \A k \in DOMAIN journal : journal[k].reverses = t => k = i
      BY DEF OneReversal
    <3>1. /\ journal[i].reverses \in 1..(i - 1)
          /\ journal[journal[i].reverses].kind \notin {"REVERSAL", "YEAR_CLOSE"}
      BY <2>1 DEF Booked
    <3>2. journal[i].reverses # 0
      BY <3>1
    <3> QED BY <2>1, <3>1, <3>2 DEF Booked
  <2>3. OneLiveEntry
    BY <2>1 DEF Booked, OneLiveEntry
  <2> QED BY <2>2, <2>3 DEF DocumentsBookedOnce
<1> QED BY <1>1, BooksHold, PTL
-----------------------------------------------------------------------------
(* The audit ledger reports the journal. *)

\* A row that reports the next entry, or none, keeps the report true.
LEMMA ReportsNext ==
  ASSUME NEW r \in Seq(Row), NEW n \in Nat, Reports(r, n), NEW e,
         e.entry \in {0, n + 1}
  PROVE  Reports(Append(r, e), IF e.entry = 0 THEN n ELSE n + 1)
<1> DEFINE t == Append(r, e)
           k == Len(r)
<1>1. k \in Nat /\ DOMAIN r = 1..k /\ DOMAIN t = 1..(k + 1) /\ t[k + 1] = e /\ \A i \in 1..k : t[i] = r[i]
  OBVIOUS
<1> DEFINE E == {r[i].entry : i \in DOMAIN r}
           F == {t[i].entry : i \in DOMAIN t}
<1>2. F = E \cup {e.entry}
  <2>1. DOMAIN t = DOMAIN r \cup {k + 1} /\ \A i \in DOMAIN r : t[i] = r[i]
    BY <1>1
  <2>2. t[k + 1] = e
    BY <1>1
  <2> HIDE DEF t, k
  <2> QED BY <2>1, <2>2
<1>3. E \ {0} = 1..n
  BY DEF Reports
<1>4. F \ {0} = 1..(IF e.entry = 0 THEN n ELSE n + 1)
  <2> HIDE DEF E, F
  <2>1. CASE e.entry = 0
    BY <1>2, <1>3, <2>1
  <2>2. CASE e.entry = n + 1
    <3>1. F \ {0} = (E \ {0}) \cup {n + 1} /\ n + 1 # 0
      BY <1>2, <2>2
    <3>2. (1..n) \cup {n + 1} = 1..(n + 1)
      OBVIOUS
    <3> QED BY <1>3, <2>2, <3>1, <3>2
  <2> QED BY <2>1, <2>2
<1>5. \A i \in 1..k : r[i].entry \in 0..n
  <2>1. \A i \in 1..k : r[i].entry \in E
    BY <1>1
  <2>2. \A x \in E : x = 0 \/ x \in 1..n
    <3> HIDE DEF E
    <3> QED BY <1>3
  <2> HIDE DEF E, k
  <2> QED BY <2>1, <2>2
<1>6. ASSUME NEW i \in DOMAIN t, NEW j \in DOMAIN t, i < j, t[i].entry # 0, t[j].entry # 0
      PROVE  t[i].entry < t[j].entry
  <2> HIDE DEF t, k
  <2>1. i \in 1..k
    BY <1>1, <1>6
  <2>2. CASE j \in 1..k
    BY <1>1, <1>6, <2>1, <2>2 DEF Reports
  <2>3. CASE j = k + 1
    <3>1. t[j] = e /\ t[i] = r[i] /\ r[i].entry \in 0..n
      BY <1>1, <1>5, <2>1, <2>3
    <3> QED BY <1>6, <3>1
  <2> QED BY <1>1, <1>6, <2>2, <2>3
<1> HIDE DEF t, k
<1> QED BY <1>4, <1>6 DEF Reports, t

\* The ledger a handler sees is the committed rows and then its own.
LEMMA RowsOf ==
  ASSUME TypeOK, NEW p \in Proc
  PROVE  /\ RowsSeen(p) \in Seq(Row) /\ tx[p].rows \in Seq(Row)
         /\ tx[p].rows = <<>> => RowsSeen(p) = audit
<1>1. tx[p] \in Tx /\ audit \in Seq(Row)
  BY DEF TypeOK
<1>2. tx[p].rows \in Seq(Row)
  BY <1>1 DEF Tx
<1> QED BY <1>1, <1>2 DEF RowsSeen

\* A row a handler appends comes last in the ledger it sees.
LEMMA RowAdded ==
  ASSUME TypeOK, NEW p \in Proc, NEW e
  PROVE  audit \o Append(tx[p].rows, e) = Append(RowsSeen(p), e)
<1>1. audit \in Seq(Row) /\ tx[p].rows \in Seq(Row)
  BY RowsOf DEF TypeOK
<1>2. ASSUME NEW a \in Seq(Row), NEW b \in Seq(Row) PROVE a \o Append(b, e) = Append(a \o b, e)
  OBVIOUS
<1> QED BY <1>1, <1>2 DEF RowsSeen

\* A step of p that adds no row and no entry, and an end of its request.
LEMMA MirrorQuiet ==
  ASSUME MirrorInv, ChainInv', NEW p \in Proc, UNCHANGED <<journal, audit>>,
         \A q \in Proc \ {p} : tx'[q] = tx[q],
         Reports(RowsSeen(p)', Len(Seen(p)'))
  PROVE  MirrorInv'
<1>1. ASSUME NEW q \in Proc PROVE Reports(RowsSeen(q), Len(Seen(q)))'
  <2>1. CASE q = p
    BY <2>1 DEF Reports
  <2>2. CASE q # p
    <3>1. Seen(q)' = Seen(q) /\ RowsSeen(q)' = RowsSeen(q)
      BY <2>2 DEF Seen, RowsSeen
    <3> QED BY <3>1 DEF MirrorInv, Reports
  <2> QED BY <2>1, <2>2
<1>2. Reports(audit, Len(journal))'
  BY DEF MirrorInv, Reports
<1> QED BY <1>1, <1>2 DEF MirrorInv

\* An event of its own, and the entry a handler posts with its report.
LEMMA MirrorRecords ==
  ASSUME MirrorInv, NEW p \in Proc, RecordEvent(p), ~Refuse(p)
  PROVE  Reports(RowsSeen(p)', Len(Seen(p)'))
<1>0. TypeOK /\ journal' = journal /\ audit' = audit
  BY DEF MirrorInv, ChainInv, RecordEvent, tables
<1>1. tx'[p].entries = tx[p].entries
  BY <1>0, RecordEventTx
<1>2. PICK e : e.entry = 0 /\ tx'[p].rows = Append(tx[p].rows, e)
  BY <1>0, RecordEventTx
<1>3. Seen(p)' = Seen(p) /\ RowsSeen(p)' = Append(RowsSeen(p), e)
  BY <1>0, <1>1, <1>2, RowAdded DEF Seen, RowsSeen
<1>4. RowsSeen(p) \in Seq(Row) /\ Len(Seen(p)) \in Nat /\ Reports(RowsSeen(p), Len(Seen(p)))
  BY <1>0, RowsOf, SeenOf DEF MirrorInv
<1> QED BY <1>2, <1>3, <1>4, ReportsNext

\* A posting appends an entry and its row together.
LEMMA MirrorPosts ==
  ASSUME MirrorInv, NEW p \in Proc, Post(p), ~Refuse(p)
  PROVE  Reports(RowsSeen(p)', Len(Seen(p)'))
<1>0. TypeOK /\ journal' = journal /\ audit' = audit
  BY DEF MirrorInv, ChainInv, Post, tables
<1>1. tx'[p].entries = Append(tx[p].entries, EntryFor(p))
  BY <1>0, PostTx
<1>2. PICK e, f \in Row : /\ e.entry = Len(journal) + Len(tx[p].entries) + 1 /\ f.entry = 0
                  /\ tx'[p].rows \in {Append(tx[p].rows, e), Append(Append(tx[p].rows, e), f)}
  BY <1>0, PostTx
<1> DEFINE n == Len(Seen(p))
<1>3. /\ n \in Nat /\ n = Len(journal) + Len(tx[p].entries)
      /\ Seen(p)' = Append(Seen(p), EntryFor(p)) /\ Seen(p) \in Seq(Entry)
  <2>1. Seen(p) \in Seq(Entry) /\ n = Len(journal) + Len(tx[p].entries)
    BY <1>0, SeenOf
  <2>2. n \in Nat
    BY <2>1
  <2>3. Seen(p)' = Append(Seen(p), EntryFor(p))
    BY <1>0, <1>1, PostSeen
  <2> QED BY <2>1, <2>2, <2>3
<1>4. Len(Seen(p)') = n + 1
  BY <1>3
<1>5. RowsSeen(p) \in Seq(Row) /\ Reports(RowsSeen(p), n) /\ audit \in Seq(Row) /\ tx[p].rows \in Seq(Row)
  BY <1>0, RowsOf DEF MirrorInv, TypeOK
<1> HIDE DEF n
<1>6. e.entry = n + 1 /\ e.entry # 0
  BY <1>2, <1>3
<1>9. Reports(Append(RowsSeen(p), e), n + 1)
  <2>1. Reports(Append(RowsSeen(p), e), IF e.entry = 0 THEN n ELSE n + 1)
    BY <1>3, <1>5, <1>6, ReportsNext
  <2> QED BY <1>6, <2>1
<1>7. CASE tx'[p].rows = Append(tx[p].rows, e)
  <2>1. RowsSeen(p)' = Append(RowsSeen(p), e)
    BY <1>0, <1>7, RowAdded DEF RowsSeen
  <2> QED BY <1>4, <1>9, <2>1
<1>8. CASE tx'[p].rows = Append(Append(tx[p].rows, e), f)
  <2>1. RowsSeen(p)' = Append(Append(RowsSeen(p), e), f)
    <3>1. ASSUME NEW a \in Seq(Row), NEW b \in Seq(Row)
          PROVE  a \o Append(Append(b, e), f) = Append(Append(a \o b, e), f)
      <4>1. a \o Append(b, e) = Append(a \o b, e)
        OBVIOUS
      <4>2. ASSUME NEW c \in Seq(Row) PROVE a \o Append(c, f) = Append(a \o c, f)
        OBVIOUS
      <4>3. Append(b, e) \in Seq(Row)
        BY <1>2
      <4> QED BY <4>1, <4>2, <4>3
    <3> QED BY <1>0, <1>5, <1>8, <3>1 DEF RowsSeen
  <2>2. Append(RowsSeen(p), e) \in Seq(Row) /\ n + 1 \in Nat
    BY <1>2, <1>3, <1>5
  <2> DEFINE r == Append(RowsSeen(p), e)
             m == n + 1
  <2>3. f.entry \in {0, m + 1} /\ r \in Seq(Row) /\ m \in Nat /\ Reports(r, m)
    BY <1>2, <1>9, <2>2
  <2> HIDE DEF r, m
  <2>4. Reports(Append(r, f), IF f.entry = 0 THEN m ELSE m + 1)
    BY <2>3, ReportsNext
  <2>5. Reports(Append(Append(RowsSeen(p), e), f), n + 1)
    BY <1>2, <2>4 DEF r, m
  <2> QED BY <1>4, <2>1, <2>5
<1> QED BY <1>2, <1>7, <1>8

\* What a commit leaves the others with: they wrote no rows if p wrote some, and
\* no entries if p wrote some.
LEMMA MirrorCommits ==
  ASSUME MirrorInv, NEW p \in Proc, Commit(p), ChainInv'
  PROVE  MirrorInv'
<1>0. ChainInv /\ TypeOK /\ tx \in [Proc -> Tx] /\ tx' = [tx EXCEPT ![p] = IdleTx]
  BY DEF MirrorInv, ChainInv, TypeOK, Commit
<1>1. journal' = Seen(p) /\ audit' = RowsSeen(p)
  BY DEF Commit, Seen, RowsSeen
<1>2. Reports(audit, Len(journal))'
  BY <1>1 DEF MirrorInv, Reports
<1>3. ASSUME NEW q \in Proc PROVE Reports(RowsSeen(q), Len(Seen(q)))'
  <2>1. tx'[q].rows = <<>> /\ tx'[q].entries = <<>> => RowsSeen(q)' = audit' /\ Seen(q)' = journal'
    BY DEF MirrorInv, ChainInv, TypeOK, RowsSeen, Seen
  <2>2. CASE q = p
    <3>1. tx'[q].rows = <<>> /\ tx'[q].entries = <<>>
      BY <1>0, <2>2 DEF IdleTx
    <3> QED BY <1>2, <2>1, <3>1 DEF Reports
  <2>3. CASE q # p /\ tx[q].rows = <<>> /\ tx[q].entries = <<>>
    <3>1. tx'[q] = tx[q]
      BY <1>0, <2>3
    <3> QED BY <1>2, <2>1, <2>3, <3>1 DEF Reports
  <2>4. CASE q # p /\ (tx[q].rows # <<>> \/ tx[q].entries # <<>>)
    <3>1. ledgerLock = q /\ tx'[q] = tx[q]
      BY <1>0, <2>4, NoneAssumption DEF ChainInv, LockDiscipline
    <3>2. tx[p].rows = <<>> /\ tx[p].entries = <<>>
      BY <2>4, <3>1, NoneAssumption DEF ChainInv, MirrorInv, LockDiscipline
    <3>3. journal' = journal /\ audit' = audit
      BY <1>0, <1>1, <3>2, SeenOf, RowsOf
    <3>4. Seen(q)' = Seen(q) /\ RowsSeen(q)' = RowsSeen(q)
      BY <3>1, <3>3 DEF Seen, RowsSeen
    <3> QED BY <3>4 DEF MirrorInv, Reports
  <2> QED BY <2>2, <2>3, <2>4
<1> QED BY <1>2, <1>3 DEF MirrorInv

\* Both ledgers start empty, so they agree.
LEMMA InitMirror == Init => MirrorInv
<1> SUFFICES ASSUME Init PROVE MirrorInv
  OBVIOUS
<1>1. /\ journal = <<>> /\ audit = <<>>
      /\ \A p \in Proc : Seen(p) = <<>> /\ RowsSeen(p) = <<>>
  BY DEF Init, Seen, RowsSeen, IdleTx
<1>2. Reports(<<>>, Len(<<>>))
  BY DEF Reports
<1> QED BY <1>1, <1>2, InitChain DEF MirrorInv

\* Every step keeps the two ledgers in agreement.
LEMMA NextMirror == MirrorInv /\ [Next]_vars => MirrorInv'
<1> SUFFICES ASSUME MirrorInv, [Next]_vars PROVE MirrorInv'
  OBVIOUS
<1>0. ChainInv /\ ChainInv' /\ TypeOK /\ tx \in [Proc -> Tx]
  BY NextChain DEF MirrorInv, ChainInv, TypeOK
<1>1. ASSUME NEW p \in Proc, Quiet(p) PROVE MirrorInv'
  <2>1. Seen(p)' = Seen(p) /\ RowsSeen(p)' = RowsSeen(p)
    BY <1>1 DEF Quiet, Seen, RowsSeen
  <2>2. Reports(RowsSeen(p)', Len(Seen(p)'))
    BY <2>1 DEF MirrorInv
  <2> QED BY <1>0, <1>1, <2>2, MirrorQuiet DEF Quiet
<1>2. ASSUME NEW p \in Proc, Refuse(p) PROVE MirrorInv'
  <2>1. journal' = journal /\ audit' = audit /\ tx'[p] = IdleTx /\ \A q \in Proc \ {p} : tx'[q] = tx[q]
    BY <1>0, <1>2 DEF Refuse, tables
  <2>2. Seen(p)' = journal /\ RowsSeen(p)' = audit
    BY <1>0, <2>1 DEF Seen, RowsSeen, IdleTx, TypeOK
  <2>3. Reports(RowsSeen(p)', Len(Seen(p)'))
    BY <2>2 DEF MirrorInv
  <2> QED BY <1>0, <2>1, <2>3, MirrorQuiet
<1>3. ASSUME NEW p \in Proc, Request(p) PROVE MirrorInv'
  BY <1>0, <1>1, <1>3, RequestQuiet
<1>4. ASSUME NEW p \in Proc, Step(p), ~Refuse(p) PROVE MirrorInv'
  <2>1. CASE SetPeriod(p) \/ Skip(p) \/ Check(p) \/ InsertPeriod(p) \/ OpenNextYear(p)
    BY <1>0, <1>1, <1>4, <2>1, StepQuiet
  <2>2. CASE RecordEvent(p) \/ Post(p)
    <3>1. UNCHANGED <<journal, audit>> /\ \A q \in Proc \ {p} : tx'[q] = tx[q]
      BY <1>0, <1>4, <2>2 DEF RecordEvent, Post, tables
    <3>2. Reports(RowsSeen(p)', Len(Seen(p)'))
      BY <1>4, <2>2, MirrorRecords, MirrorPosts
    <3> QED BY <1>0, <3>1, <3>2, MirrorQuiet
  <2>3. CASE LockLedger(p)
    <3>1. /\ UNCHANGED <<journal, audit>> /\ \A q \in Proc \ {p} : tx'[q] = tx[q]
          /\ tx'[p].rows = tx[p].rows /\ tx'[p].entries = tx[p].entries
      BY <1>0, <2>3 DEF LockLedger, tables, TypeOK, Tx
    <3>2. Reports(RowsSeen(p)', Len(Seen(p)'))
      BY <3>1 DEF MirrorInv, Seen, RowsSeen
    <3> QED BY <1>0, <3>1, <3>2, MirrorQuiet
  <2>4. CASE Commit(p)
    BY <1>0, <2>4, MirrorCommits
  <2> QED BY <1>4, <2>1, <2>2, <2>3, <2>4 DEF Step
<1>5. CASE Tick \/ ShopIdle \/ UNCHANGED vars
  <2>1. journal' = journal /\ audit' = audit /\ tx' = tx
    BY <1>5 DEF Tick, ShopIdle, vars, tables
  <2> QED BY <1>0, <2>1 DEF MirrorInv, Reports, Seen, RowsSeen
<1> QED BY <1>2, <1>3, <1>4, <1>5 DEF Next, DeadlockAbort

\* The audit rows report the journal as every handler sees both.
THEOREM MirrorHolds == Spec => []MirrorInv
<1> QED BY InitMirror, NextMirror, PTL DEF Spec

\* The audit ledger reports every journal entry, once and in the journal's order,
\* whichever handlers and replays write to both (GL_ENTRY_POSTED is recorded
\* inside gl.post_entry).
THEOREM AuditMirrors == Spec => []AuditMirrorsJournal
<1>1. MirrorInv => AuditMirrorsJournal
  <2> SUFFICES ASSUME MirrorInv PROVE AuditMirrorsJournal
    OBVIOUS
  <2>1. DOMAIN journal = 1..Len(journal)
    BY DEF MirrorInv, ChainInv, TypeOK
  <2> QED BY <2>1 DEF MirrorInv, Reports, AuditMirrorsJournal
<1> QED BY <1>1, MirrorHolds, PTL
-----------------------------------------------------------------------------
(* The ledger implements Books. *)

Trail == [r \in DOMAIN audit |-> audit[r].entry]

\* The entries of a state of the invariant are sound in the sense of Books.
LEMMA SoundBooks ==
  ASSUME BooksInv, MirrorInv
  PROVE  Promise!Sound(journal, Trail)
<1>0. Booked(journal) /\ Reports(audit, Len(journal)) /\ journal \in Seq(Entry)
  BY DEF BooksInv, MirrorInv, ChainInv, TypeOK
<1>1. Promise!UndoneOnce(journal)
  <2> SUFFICES ASSUME NEW i \in DOMAIN journal, NEW k \in DOMAIN journal, journal[i].reverses # 0
               PROVE  /\ journal[i].reverses \in 1..(i - 1) /\ journal[journal[i].reverses].reverses = 0
                      /\ journal[k].reverses = journal[i].reverses => k = i
    BY DEF Promise!UndoneOnce
  <2>1. journal[i].kind = "REVERSAL"
    BY <1>0 DEF Booked
  <2>2. /\ journal[i].reverses \in 1..(i - 1)
        /\ journal[journal[i].reverses].kind \notin {"REVERSAL", "YEAR_CLOSE"}
    BY <1>0, <2>1 DEF Booked
  <2>3. journal[i].reverses \in DOMAIN journal
    BY <1>0, <2>2
  <2>4. journal[journal[i].reverses].reverses = 0
    BY <1>0, <2>2, <2>3 DEF Booked
  <2> QED BY <1>0, <2>2, <2>4 DEF Booked
<1>2. Promise!BookedOnce(journal)
  BY <1>0 DEF Booked, Promise!BookedOnce
<1>3. Promise!Mirrors(Trail, journal)
  <2>1. DOMAIN journal = 1..Len(journal) /\ DOMAIN Trail = DOMAIN audit
        /\ \A r \in DOMAIN audit : Trail[r] = audit[r].entry
    BY <1>0 DEF Trail
  <2>2. {Trail[r] : r \in DOMAIN Trail} = {audit[r].entry : r \in DOMAIN audit}
    BY <2>1
  <2> QED BY <1>0, <2>1, <2>2 DEF Reports, Promise!Mirrors
<1> QED BY <1>1, <1>2, <1>3 DEF Promise!Sound

\* Only a commit adds to the books, and it adds at their end.
LEMMA StepGrows ==
  ASSUME ChainInv, [Next]_vars
  PROVE  /\ Promise!Extends(journal, journal') /\ Promise!Extends(Trail, Trail')
<1>0. TypeOK /\ TypeOK' /\ journal \in Seq(Entry) /\ audit \in Seq(Row)
  BY NextType DEF ChainInv, TypeOK
<1>1. ASSUME NEW S, NEW s \in Seq(S), NEW t \in Seq(S)
      PROVE  Promise!Extends(s, s \o t)
  BY DEF Promise!Extends
<1>2. ASSUME NEW r \in Seq(Row), audit' = audit \o r PROVE Promise!Extends(Trail, Trail')
  <2>1. Promise!Extends(audit, audit') /\ audit' \in Seq(Row)
    BY <1>0, <1>1, <1>2
  <2>2. DOMAIN audit = 1..Len(audit) /\ DOMAIN audit' = 1..Len(audit') /\ Len(audit) \in Nat /\ Len(audit') \in Nat
    BY <1>0, <2>1
  <2>3. Len(Trail) = Len(audit) /\ Len(Trail') = Len(audit')
    BY <2>2 DEF Trail
  <2>4. \A i \in DOMAIN audit : i \in DOMAIN audit' /\ audit'[i] = audit[i]
    BY <2>1, <2>2 DEF Promise!Extends
  <2>5. \A i \in DOMAIN Trail : Trail'[i] = Trail[i]
    BY <2>4 DEF Trail
  <2> QED BY <2>1, <2>3, <2>5 DEF Promise!Extends
<1>3. CASE UNCHANGED <<journal, audit>>
  <2>1. Promise!Extends(journal, journal')
    BY <1>0, <1>3 DEF Promise!Extends
  <2>2. Promise!Extends(Trail, Trail')
    <3>1. audit' = audit \o <<>> /\ <<>> \in Seq(Row)
      BY <1>0, <1>3
    <3> QED BY <1>2, <3>1
  <2> QED BY <2>1, <2>2
<1>4. ASSUME NEW p \in Proc, Commit(p)
      PROVE  Promise!Extends(journal, journal') /\ Promise!Extends(Trail, Trail')
  <2>1. tx[p].entries \in Seq(Entry) /\ tx[p].rows \in Seq(Row)
    BY <1>0, SeenOf, RowsOf
  <2>2. journal' = journal \o tx[p].entries /\ audit' = audit \o tx[p].rows
    BY <1>4 DEF Commit
  <2> QED BY <1>0, <1>1, <1>2, <2>1, <2>2
<1>5. ASSUME NEW p \in Proc, Request(p) PROVE UNCHANGED <<journal, audit>>
  BY <1>5, RequestQuiet DEF Quiet
<1>6. ASSUME NEW p \in Proc, Step(p), ~Refuse(p), ~Commit(p) PROVE UNCHANGED <<journal, audit>>
  BY <1>6, StepQuiet DEF Step, Quiet, RecordEvent, LockLedger, Post, tables
<1>7. ASSUME NEW p \in Proc, Refuse(p) PROVE UNCHANGED <<journal, audit>>
  BY <1>7 DEF Refuse, tables
<1>8. ASSUME Tick \/ ShopIdle \/ UNCHANGED vars PROVE UNCHANGED <<journal, audit>>
  BY <1>8 DEF Tick, ShopIdle, vars, tables
<1> QED BY <1>3, <1>4, <1>5, <1>6, <1>7, <1>8 DEF Next, DeadlockAbort

\* A journal and an audit trail that only grow and stay sound, whatever commits:
\* the ledger implements Books (gl.post_entry and ledger.record).
THEOREM LedgerKeepsPromise == Spec => KeepsPromise
<1>1. Init => Promise!Init
  BY DEF Init, Promise!Init
<1>2. ChainInv /\ [Next]_vars /\ Promise!Sound(journal, Trail)'
      => [Promise!Grow]_<<journal, [r \in DOMAIN audit |-> audit[r].entry]>>
  BY StepGrows DEF Promise!Grow, Trail
<1>3. BooksInv /\ MirrorInv => ChainInv /\ Promise!Sound(journal, Trail)
  BY SoundBooks DEF BooksInv
<1> QED BY <1>1, <1>2, <1>3, BooksHold, MirrorHolds, PTL DEF Spec, KeepsPromise, Promise!Spec
-----------------------------------------------------------------------------
(* The handlers that record their event first. *)

\* u is a later record of the same request as t, with the same writes.
SameWrites(t, u) ==
  u.op = t.op /\ u.doc = t.doc /\ u.entries = t.entries /\ u.rows = t.rows

\* What the steps that write no entry and no row do to the record of their handler.
LEMMA SetPeriodTx ==
  ASSUME TypeOK, NEW p \in Proc, SetPeriod(p)
  PROVE  /\ SameWrites(tx[p], tx'[p]) /\ SameCourse(tx[p], tx'[p])
         /\ tx[p].pc = "setPeriod" /\ tx'[p].pc = "event"
BY DEF TypeOK, SetPeriod, SameWrites, SameCourse, Tx

\* A skipped document leaves the rest of the request as it was.
LEMMA SkipTx ==
  ASSUME TypeOK, NEW p \in Proc, Skip(p)
  PROVE  \E s \in NextPostings(p) :
           /\ Skipped(p, s) /\ tx[p].pc = "check"
           /\ SameWrites(tx[p], tx'[p]) /\ tx'[p].months = tx[p].months /\ tx'[p].cur = tx[p].cur
           /\ tx'[p].todo = tx[p].todo \ {s}
           /\ tx'[p].pc = IF tx'[p].todo # {} THEN "check"
                          ELSE IF tx[p].op = "replay" /\ tx[p].entries # <<>> THEN "event" ELSE "commit"
<1>1. PICK s \in NextPostings(p) : /\ Skipped(p, s) /\ tx[p].pc = "check"
                                   /\ tx' = [tx EXCEPT ![p] = Advance(Without(tx[p], s))]
  BY DEF Skip
<1> DEFINE w == Without(tx[p], s)
<1>2. w \in Tx /\ SameWrites(tx[p], w) /\ w.months = tx[p].months /\ w.cur = tx[p].cur
      /\ w.todo = tx[p].todo \ {s} /\ w.pc = "check"
  BY <1>1 DEF TypeOK, Tx, Without, SameWrites
<1>3. tx'[p] = Advance(w)
  BY <1>1 DEF TypeOK
<1> HIDE DEF w
<1>4. SameWrites(w, Advance(w)) /\ SameCourse(w, Advance(w)) /\ Advance(w).pc = Continue(w)
  BY <1>2 DEF Advance, Tx, SameWrites, SameCourse
<1>5. Continue(w) = IF w.todo # {} THEN "check"
                    ELSE IF tx[p].op = "replay" /\ tx[p].entries # <<>> THEN "event" ELSE "commit"
  BY <1>2 DEF Continue, SameWrites
<1> QED BY <1>1, <1>2, <1>3, <1>4, <1>5 DEF SameWrites, SameCourse

\* A duplicate check changes what the request has seen and its place, nothing else.
LEMMA CheckTx ==
  ASSUME TypeOK, NEW p \in Proc, Check(p), ~Refuse(p)
  PROVE  \E s \in NextPostings(p) :
           /\ ~Skipped(p, s) /\ PeriodSeen(p, s.month) # "CLOSED" /\ tx[p].pc = "check"
           /\ SameWrites(tx[p], tx'[p]) /\ tx'[p].months = tx[p].months
           /\ tx'[p].cur = Resolved(p, s) /\ tx'[p].todo = tx[p].todo \ {s}
           /\ tx'[p].pc \in {"newPeriod", "ledger"}
<1>1. PICK s \in NextPostings(p), c \in {"newPeriod", "ledger"} :
        /\ ~Skipped(p, s) /\ PeriodSeen(p, s.month) # "CLOSED" /\ tx[p].pc = "check"
        /\ tx' = [tx EXCEPT ![p] = [Without(tx[p], s) EXCEPT !.cur = Resolved(p, s), !.pc = c]]
  BY DEF Check
<1>2. tx'[p] = [Without(tx[p], s) EXCEPT !.cur = Resolved(p, s), !.pc = c]
  BY <1>1 DEF TypeOK
<1>3. /\ SameWrites(tx[p], tx'[p]) /\ tx'[p].months = tx[p].months
      /\ tx'[p].cur = Resolved(p, s) /\ tx'[p].todo = tx[p].todo \ {s} /\ tx'[p].pc = c
  BY <1>2 DEF TypeOK, Tx, Without, SameWrites
<1> QED BY <1>1, <1>3

\* Inserting a missing month adds it to what the request is about to commit.
LEMMA InsertPeriodTx ==
  ASSUME TypeOK, NEW p \in Proc, InsertPeriod(p), ~Refuse(p)
  PROVE  LET m == tx[p].cur.month
             v == IF tx[p].op = "closeYear" THEN "CLOSED" ELSE "OPEN"
         IN  /\ SameWrites(tx[p], tx'[p]) /\ tx'[p].cur = tx[p].cur /\ tx'[p].todo = tx[p].todo
             /\ m \in Month /\ period[m] = "ABSENT" /\ tx[p].pc = "newPeriod"
             /\ tx'[p].months = [tx[p].months EXCEPT ![m] = v]
             /\ tx'[p].pc = IF tx[p].op = "open" THEN "commit" ELSE "ledger"
<1> DEFINE m == tx[p].cur.month
           v == IF tx[p].op = "closeYear" THEN "CLOSED" ELSE "OPEN"
           c == IF tx[p].op = "open" THEN "commit" ELSE "ledger"
<1>1. /\ period[m] = "ABSENT" /\ tx[p].pc = "newPeriod"
      /\ tx' = [tx EXCEPT ![p].months[m] = v, ![p].pc = c]
  BY DEF InsertPeriod
<1>2. tx[p] \in Tx /\ tx \in [Proc -> Tx]
  BY DEF TypeOK
<1>3. m \in Month
  BY <1>2 DEF Tx, Posting
<1> HIDE DEF m, v, c
<1>4. tx'[p] = [tx[p] EXCEPT !.months[m] = v, !.pc = c]
  BY <1>1, <1>2
<1>5. /\ SameWrites(tx[p], tx'[p]) /\ tx'[p].cur = tx[p].cur /\ tx'[p].todo = tx[p].todo
      /\ tx'[p].months = [tx[p].months EXCEPT ![m] = v] /\ tx'[p].pc = c
  BY <1>2, <1>4 DEF Tx, SameWrites
<1> QED BY <1>1, <1>3, <1>5 DEF m, v, c

\* Taking the heads changes what the request holds and its place.
LEMMA LockLedgerTx ==
  ASSUME TypeOK, NEW p \in Proc, LockLedger(p)
  PROVE  /\ SameWrites(tx[p], tx'[p]) /\ SameCourse(tx[p], tx'[p])
         /\ tx[p].pc = "ledger" /\ tx'[p].pc = "gl"
BY DEF TypeOK, LockLedger, SameWrites, SameCourse, Tx

\* Opening next year's months is the last step of a year close.
LEMMA OpenNextYearTx ==
  ASSUME TypeOK, NEW p \in Proc, OpenNextYear(p), ~Refuse(p)
  PROVE  /\ SameWrites(tx[p], tx'[p]) /\ tx'[p].cur = tx[p].cur /\ tx'[p].todo = tx[p].todo
         /\ tx'[p].months = Opened(p) /\ tx[p].pc = "nextYear" /\ tx'[p].pc = "commit"
<1>1. tx' = [tx EXCEPT ![p] = [tx[p] EXCEPT !.pc = "commit", !.months = Opened(p)]] /\ tx[p].pc = "nextYear"
  BY DEF OpenNextYear
<1>2. tx'[p] = [tx[p] EXCEPT !.pc = "commit", !.months = Opened(p)]
  BY <1>1 DEF TypeOK
<1> QED BY <1>1, <1>2 DEF TypeOK, Tx, SameWrites

Course(t) == EventFirstCourse(t) /\ ClosingCourse(t)

\* A handler with no request is on course.
LEMMA IdleCourse == Course(IdleTx)
BY DEF Course, EventFirstCourse, ClosingCourse, IdleTx, EventFirst, Unwritten, Posting3

\* Every request sets out on its course.
LEMMA RequestCourse ==
  ASSUME TypeOK, NEW p \in Proc, Request(p)
  PROVE  Course(tx'[p]) /\ ~PastEvent(p)'
<1>1. ASSUME NEW c \in {"event", "check"}, NEW o, NEW d, NEW s, Begin(p, Posts(c, o, d, s)),
             o \notin {"close", "closeYear"}, o \in {"autoOn", "autoOff"} => s = {} /\ c = "event",
             o \in EventFirst => /\ c = "event" /\ (o = "void" => s # {})
                                 /\ s = {} \/ \E m : s = {NewPosting(KindOf(o), d, m)}
      PROVE  Course(tx'[p]) /\ ~PastEvent(p)'
  <2> DEFINE t == Posts(c, o, d, s)
  <2>1. tx'[p] = t
    BY <1>1 DEF Begin, TypeOK
  <2>2. t.pc = c /\ t.op = o /\ t.doc = d /\ t.todo = s /\ t.months = Unwritten /\ t.entries = <<>>
    BY DEF Posts, IdleTx
  <2>3. \A m \in Month : t.months[m] # "CLOSED"
    BY <2>2 DEF Unwritten
  <2> HIDE DEF t
  <2>4. EventFirstCourse(t)
    BY <1>1, <2>2 DEF EventFirstCourse, NewPosting, Posting3
  <2>5. ClosingCourse(t)
    BY <1>1, <2>2, <2>3 DEF ClosingCourse
  <2>6. ~PastEvent(p)'
    BY <1>1, <2>1, <2>2 DEF PastEvent
  <2> QED BY <2>1, <2>4, <2>5, <2>6 DEF Course
<1>2. ASSUME NEW c \in {"event", "setPeriod", "newPeriod", "ledger"},
             NEW o \in {"close", "reopen", "open", "closeYear"}, NEW u, NEW w, Begin(p, WorksOn(c, o, u, w)),
             (\E m \in Month : w[m] = "CLOSED") => o = "close",
             o = "close" => c = "setPeriod", o = "closeYear" => c \in {"newPeriod", "ledger"}
      PROVE  Course(tx'[p]) /\ ~PastEvent(p)'
  <2> DEFINE t == WorksOn(c, o, u, w)
  <2>1. tx'[p] = t
    BY <1>2 DEF Begin, TypeOK
  <2>2. t.pc = c /\ t.op = o /\ t.todo = {} /\ t.months = w
    BY DEF WorksOn, IdleTx
  <2> HIDE DEF t
  <2>3. t.op \notin EventFirst
    BY <2>2 DEF EventFirst
  <2>4. ClosingCourse(t)
    BY <1>2, <2>2 DEF ClosingCourse, Posting3
  <2> QED BY <2>1, <2>3, <2>4 DEF Course, EventFirstCourse, PastEvent
<1>3. KindOf("sale") = "DOC" /\ KindOf("itemRefund") = "PARTIAL" /\ KindOf("void") = "UNDO"
  BY DEF KindOf
<1> USE DEF EventFirst
<1>4. CASE BeginManual(p)
  BY <1>1, <1>4 DEF BeginManual
<1>5. CASE BeginReverse(p)
  BY <1>1, <1>5 DEF BeginReverse
<1>6. CASE BeginSale(p)
  BY <1>1, <1>3, <1>6 DEF BeginSale
<1>7. ASSUME NEW op \in {"void", "itemRefund"}, BeginUndo(p, op) PROVE Course(tx'[p]) /\ ~PastEvent(p)'
  <2>1. PICK d \in Doc : Begin(p, Posts("event", op, d, {NewPosting(KindOf(op), d, today)}))
    BY <1>3, <1>7 DEF BeginUndo
  <2> QED BY <1>1, <2>1
<1>8. CASE BeginUndo(p, "refund")
  BY <1>1, <1>8 DEF BeginUndo
<1>9. CASE BeginReplay(p)
  BY <1>1, <1>9 DEF BeginReplay
<1>10. CASE BeginClose(p)
  BY <1>2, <1>10 DEF BeginClose
<1>11. CASE BeginReopen(p)
  <2>1. \A m, k \in Month : Unwritten[k] # "CLOSED" /\ [Unwritten EXCEPT ![m] = "OPEN"][k] # "CLOSED"
    BY DEF Unwritten
  <2> QED BY <1>2, <1>11, <2>1 DEF BeginReopen
<1>12. CASE BeginOpen(p) \/ BeginCloseYear(p)
  <2>1. \A k \in Month : Unwritten[k] # "CLOSED"
    BY DEF Unwritten
  <2> QED BY <1>2, <1>12, <2>1 DEF BeginOpen, BeginCloseYear
<1>13. CASE BeginSettings(p)
  BY <1>1, <1>13 DEF BeginSettings
<1> QED BY <1>4, <1>5, <1>6, <1>7, <1>8, <1>9, <1>10, <1>11, <1>12, <1>13 DEF Request

\* And every step keeps to it.
LEMMA StepCourse ==
  ASSUME TypeOK, NEW p \in Proc, Course(tx[p]), Step(p), ~Refuse(p)
  PROVE  Course(tx'[p])
<1>0. tx[p] \in Tx /\ tx \in [Proc -> Tx] /\ EventFirstCourse(tx[p]) /\ ClosingCourse(tx[p])
  BY DEF TypeOK, Course
<1> USE DEF EventFirstCourse, ClosingCourse, SameCourse, SameWrites, Posting3, EventFirst
<1>1. CASE RecordEvent(p)
  <2>1. tx[p].pc = "event"
    BY <1>1 DEF RecordEvent
  <2>2. PICK e : tx'[p].rows = Append(tx[p].rows, e)
    BY <1>1, RecordEventTx
  <2>3. tx'[p].rows # <<>>
    BY <1>0, <2>2 DEF Tx
  <2>4. SameCourse(tx[p], tx'[p]) /\ tx'[p].pc = Continue(tx[p]) /\ tx'[p].entries = tx[p].entries
    BY <1>1, RecordEventTx
  <2>5. tx'[p].pc = IF tx[p].todo # {} THEN "check" ELSE "commit"
    BY <2>1, <2>4 DEF Continue
  <2>6. EventFirstCourse(tx'[p])
    BY <1>0, <2>1, <2>3, <2>4, <2>5
  <2>7. ClosingCourse(tx'[p])
    BY <1>0, <2>1, <2>3, <2>4, <2>5
  <2> QED BY <2>6, <2>7 DEF Course
<1>2. CASE SetPeriod(p)
  BY <1>0, <1>2, SetPeriodTx DEF Course
<1>3. CASE Skip(p)
  <2>1. PICK s \in NextPostings(p) :
           /\ Skipped(p, s) /\ tx[p].pc = "check"
           /\ SameWrites(tx[p], tx'[p]) /\ tx'[p].months = tx[p].months /\ tx'[p].cur = tx[p].cur
           /\ tx'[p].todo = tx[p].todo \ {s}
           /\ tx'[p].pc = IF tx'[p].todo # {} THEN "check"
                          ELSE IF tx[p].op = "replay" /\ tx[p].entries # <<>> THEN "event" ELSE "commit"
    BY <1>3, SkipTx
  <2>2. tx[p].op \notin {"close", "autoOn", "autoOff", "closeYear"}
    BY <1>0, <2>1 DEF NextPostings
  <2>3. ClosingCourse(tx'[p])
    BY <1>0, <2>1, <2>2
  <2>4. s \in tx[p].todo
    BY DEF NextPostings
  <2>5. tx[p].op \in EventFirst => tx'[p].todo = {}
    BY <1>0, <2>1, <2>4
  <2>6. EventFirstCourse(tx'[p])
    BY <1>0, <2>1, <2>5
  <2> QED BY <2>3, <2>6 DEF Course
<1>4. CASE Check(p)
  <2>1. PICK s \in NextPostings(p) :
           /\ ~Skipped(p, s) /\ tx[p].pc = "check"
           /\ SameWrites(tx[p], tx'[p]) /\ tx'[p].months = tx[p].months
           /\ tx'[p].cur = Resolved(p, s) /\ tx'[p].todo = tx[p].todo \ {s}
           /\ tx'[p].pc \in {"newPeriod", "ledger"}
    BY <1>4, CheckTx
  <2>2. tx[p].op \notin {"close", "autoOn", "autoOff", "closeYear"}
    BY <1>0, <2>1
  <2>3. ClosingCourse(tx'[p])
    BY <1>0, <2>1, <2>2
  <2>4. s \in tx[p].todo /\ s \in Posting
    BY <1>0 DEF NextPostings, Tx
  <2>5. Resolved(p, s).kind = s.kind /\ Resolved(p, s).doc = s.doc
    BY <2>4 DEF Resolved, Posting
  <2>6. tx[p].op \in EventFirst => tx'[p].todo = {} /\ s.kind = KindOf(tx[p].op) /\ s.doc = tx[p].doc
    BY <1>0, <2>1, <2>4
  <2>7. tx[p].op \in EventFirst => tx[p].entries = <<>> /\ tx[p].rows # <<>>
    BY <1>0, <2>1, <2>4
  <2>8. EventFirstCourse(tx'[p])
    BY <2>1, <2>5, <2>6, <2>7
  <2> QED BY <2>3, <2>8 DEF Course
<1>5. CASE InsertPeriod(p)
  <2> DEFINE m == tx[p].cur.month
             v == IF tx[p].op = "closeYear" THEN "CLOSED" ELSE "OPEN"
  <2>1. /\ SameWrites(tx[p], tx'[p]) /\ tx'[p].cur = tx[p].cur /\ tx'[p].todo = tx[p].todo
        /\ tx'[p].months = [tx[p].months EXCEPT ![m] = v] /\ tx[p].pc = "newPeriod"
        /\ tx'[p].pc = IF tx[p].op = "open" THEN "commit" ELSE "ledger"
    BY <1>5, InsertPeriodTx
  <2>2. EventFirstCourse(tx'[p])
    BY <1>0, <2>1
  <2>3. (\E k \in Month : tx'[p].months[k] = "CLOSED") =>
          tx[p].op = "closeYear" \/ \E k \in Month : tx[p].months[k] = "CLOSED"
    BY <1>0, <2>1 DEF Tx
  <2> HIDE DEF v, m
  <2>4. ClosingCourse(tx'[p])
    BY <1>0, <2>1, <2>3
  <2> QED BY <2>2, <2>4 DEF Course
<1>6. CASE LockLedger(p)
  BY <1>0, <1>6, LockLedgerTx DEF Course
<1>7. CASE Post(p)
  <2>1. tx[p].pc = "gl"
    BY <1>7 DEF Post
  <2>2. SameCourse(tx[p], tx'[p]) /\ tx'[p].entries = Append(tx[p].entries, EntryFor(p))
    BY <1>7, PostTx
  <2>3. tx'[p].rows # <<>>
    <3>1. PICK e, f \in Row : tx'[p].rows \in {Append(tx[p].rows, e), Append(Append(tx[p].rows, e), f)}
      BY <1>7, PostTx
    <3>2. \A r \in Seq(Row), x \in Row : Append(r, x) \in Seq(Row) /\ Append(r, x) # <<>>
      OBVIOUS
    <3>3. tx[p].rows \in Seq(Row)
      BY <1>0 DEF Tx
    <3> QED BY <3>1, <3>2, <3>3
  <2>4. tx'[p].pc = IF tx[p].op = "closeYear" THEN "nextYear"
                    ELSE Continue([tx[p] EXCEPT !.entries = Append(@, EntryFor(p))])
    BY <1>7, PostTx
  <2>5. tx'[p].pc \in {"nextYear", "check", "event", "commit"} /\ (tx'[p].pc = "nextYear" <=> tx[p].op = "closeYear")
    BY <2>4 DEF Continue
  <2>6. tx[p].op \in EventFirst => tx'[p].pc = "commit"
    BY <1>0, <2>1, <2>4 DEF Continue, Tx
  <2>7. ClosingCourse(tx'[p])
    BY <1>0, <2>1, <2>2, <2>3, <2>5
  <2>8. EventFirstCourse(tx'[p])
    BY <1>0, <2>1, <2>2, <2>3, <2>6
  <2> QED BY <2>7, <2>8 DEF Course
<1>8. CASE OpenNextYear(p)
  <2>1. /\ SameWrites(tx[p], tx'[p]) /\ tx'[p].cur = tx[p].cur /\ tx'[p].todo = tx[p].todo
        /\ tx'[p].months = Opened(p) /\ tx[p].pc = "nextYear" /\ tx'[p].pc = "commit"
    BY <1>8, OpenNextYearTx
  <2>2. (\E k \in Month : tx'[p].months[k] = "CLOSED") => \E k \in Month : tx[p].months[k] = "CLOSED"
    BY <2>1 DEF Opened
  <2>3. EventFirstCourse(tx'[p]) /\ ClosingCourse(tx'[p])
    BY <1>0, <2>1, <2>2
  <2> QED BY <2>3 DEF Course
<1>9. CASE Commit(p)
  BY <1>0, <1>9, IdleCourse DEF Commit
<1> QED BY <1>1, <1>2, <1>3, <1>4, <1>5, <1>6, <1>7, <1>8, <1>9 DEF Step

\* What a handler past its event knows survives a step of others that adds no
\* entry, closes no month and does not turn the switch.
LEMMA KnowsKept ==
  ASSUME TypeOK, NEW q \in Proc, Knows(q), UNCHANGED <<journal, glHead, autoPost>>, tx'[q] = tx[q],
         \A m \in Month : period'[m] = "CLOSED" => period[m] = "CLOSED"
  PROVE  Knows(q)'
<1>0. tx[q].cur.month \in Month /\ tx[q].entries \in Seq(Entry)
  BY DEF TypeOK, Tx, Posting
<1>1. \A i \in DOMAIN tx[q].entries : tx[q].entries[i].month \in Month
  <2>1. \A i \in DOMAIN tx[q].entries : tx[q].entries[i] \in Entry
    BY <1>0
  <2> QED BY <2>1 DEF Entry
<1> SUFFICES ASSUME PastEvent(q)' PROVE Knows(q)'
  BY DEF Knows
<1>2. PastEvent(q)
  BY DEF PastEvent
<1>3. Seen(q)' = Seen(q) /\ EntryFor(q)' = EntryFor(q)
  BY DEF Seen, EntryFor
<1>4. DuplicatePosting(q, EntryFor(q))' <=> DuplicatePosting(q, EntryFor(q))
  BY <1>3 DEF DuplicatePosting
<1>5. \A m \in Month : tx'[q].months[m] \in {"SAME", "OPEN"} /\ (tx'[q].months[m] = "OPEN" => period'[m] # "CLOSED")
  BY <1>2 DEF Knows
<1>6. tx'[q].pc \in Posting3 =>
        /\ period'[tx'[q].cur.month] # "CLOSED"
        /\ ~DuplicatePosting(q, EntryFor(q))'
        /\ tx'[q].op = "void" => tx'[q].cur.target \in LiveEntries(Seen(q)', tx'[q].doc)
  BY <1>0, <1>2, <1>3, <1>4 DEF Knows
<1>7. \A i \in DOMAIN tx'[q].entries : period'[tx'[q].entries[i].month] # "CLOSED"
  BY <1>1, <1>2 DEF Knows
<1>8. /\ tx'[q].op = "itemRefund" /\ (tx'[q].pc \in Posting3 \/ tx'[q].entries # <<>>) =>
           \E i \in LiveEntries(journal', tx'[q].doc) : ~IsReversed(journal', i)
      /\ tx'[q].op = "void" /\ tx'[q].pc = "commit" /\ autoPost' =>
           \A i \in LiveEntries(Seen(q)', tx'[q].doc) : IsReversed(Seen(q)', i)
  BY <1>2, <1>3 DEF Knows
<1> QED BY <1>5, <1>6, <1>7, <1>8 DEF Knows

\* Whoever closes a month, turns the switch or adds an entry commits under the
\* audit head, which a handler past its event holds.
LEMMA CommitUndisturbing ==
  ASSUME CourseInv, NEW p \in Proc, NEW q \in Proc, p # q, Commit(p), PastEvent(q)
  PROVE  /\ UNCHANGED <<journal, glHead, autoPost>>
         /\ \A m \in Month : period'[m] = "CLOSED" => period[m] = "CLOSED"
<1>0. ChainInv /\ TypeOK /\ tx[p] \in Tx /\ journal \in Seq(Entry) /\ autoPost \in BOOLEAN
  BY DEF CourseInv, BooksInv, ChainInv, TypeOK
<1>1. tx[q].rows # <<>>
  BY DEF CourseInv, EventFirstCourse, PastEvent
<1>2. tx[p].rows = <<>> /\ tx[p].entries = <<>>
  BY <1>0, <1>1, NoneAssumption DEF ChainInv, LockDiscipline
<1>3. tx[p].op \notin {"close", "closeYear", "autoOn", "autoOff"}
  BY <1>2 DEF CourseInv, ClosingCourse, Commit
<1>4. journal' = journal /\ glHead' = glHead
  BY <1>0, <1>2 DEF Commit, LastPrev
<1>5. autoPost' = autoPost
  BY <1>0, <1>3 DEF Commit
<1>6. \A m \in Month : tx[p].months[m] # "CLOSED"
  BY <1>3 DEF CourseInv, ClosingCourse
<1>7. \A m \in Month : period'[m] = PeriodSeen(p, m)
  BY DEF Commit
<1> QED BY <1>4, <1>5, <1>6, <1>7 DEF PeriodSeen

\* The unlocked checks of a handler past its event: what it found stays so.
LEMMA CheckKnows ==
  ASSUME CourseInv, NEW p \in Proc, Check(p), ~Refuse(p)
  PROVE  Knows(p)'
<1>0. TypeOK /\ tx[p] \in Tx /\ ChainInv /\ EventFirstCourse(tx[p]) /\ Knows(p) /\ TodoSound(p) /\ Booked(Seen(p))
  BY DEF CourseInv, BooksInv, ChainInv, TypeOK
<1>1. PICK s \in NextPostings(p) :
         /\ ~Skipped(p, s) /\ PeriodSeen(p, s.month) # "CLOSED" /\ tx[p].pc = "check"
         /\ SameWrites(tx[p], tx'[p]) /\ tx'[p].months = tx[p].months
         /\ tx'[p].cur = Resolved(p, s) /\ tx'[p].todo = tx[p].todo \ {s}
         /\ tx'[p].pc \in {"newPeriod", "ledger"}
  BY <1>0, CheckTx
<1>2. UNCHANGED tables
  BY DEF Check
<1> SUFFICES ASSUME PastEvent(p)' PROVE Knows(p)'
  BY DEF Knows
<1>3. PastEvent(p)
  BY <1>1 DEF PastEvent, SameWrites
<1>4. s \in Posting /\ s \in tx[p].todo
  BY <1>0 DEF NextPostings, Tx
<1>5. /\ tx[p].op \in EventFirst /\ s.kind = KindOf(tx[p].op) /\ s.doc = tx[p].doc
      /\ tx[p].entries = <<>> /\ tx'[p].entries = <<>>
  BY <1>0, <1>1, <1>3, <1>4 DEF PastEvent, EventFirstCourse, SameWrites
<1>6. Seen(p) = journal /\ Seen(p)' = journal /\ journal \in Seq(Entry)
  <2>1. Seen(p) = journal
    BY <1>0, <1>5, SeenOf
  <2>2. Seen(p)' = Seen(p)
    BY <1>2, <1>5, QuietSeen DEF tables
  <2> QED BY <1>0, <2>1, <2>2 DEF TypeOK
<1>7. /\ Resolved(p, s).month = s.month /\ s.month \in Month
      /\ Resolved(p, s).kind = s.kind /\ Resolved(p, s).doc = s.doc
  BY <1>4 DEF Resolved, Posting
<1>8. period'[tx'[p].cur.month] # "CLOSED"
  BY <1>0, <1>1, <1>2, <1>3, <1>7 DEF Knows, PeriodSeen, tables
<1> DEFINE e == EntryFor(p)'
<1>9. /\ e.kind = IF s.kind \in {"UNDO", "REVERSE"} THEN "REVERSAL" ELSE s.kind
      /\ e.doc = IF s.kind = "UNDO" THEN NONE ELSE s.doc
      /\ e.reverses = Resolved(p, s).target
  BY <1>1, <1>7 DEF EntryFor
<1>10. DuplicatePosting(p, EntryFor(p))' <=>
         IF e.reverses # 0 THEN IsReversed(journal, e.reverses) ELSE SamePosted(journal, e)
  BY <1>6 DEF DuplicatePosting
<1> HIDE DEF e
<1>11. ~Settled(journal, s) /\ (s.kind # "DOC" => LiveEntries(journal, s.doc) # {})
  BY <1>1, <1>4, <1>5, <1>6 DEF Skipped, KindOf, EventFirst
<1>12. CASE tx[p].op = "void"
  <2>1. s.kind = "UNDO"
    BY <1>5, <1>12 DEF KindOf
  <2> DEFINE i == CHOOSE j \in LiveEntries(journal, s.doc) : TRUE
  <2>2. i \in LiveEntries(journal, s.doc)
    BY <1>11, <2>1
  <2>3. Resolved(p, s).target = i
    BY <1>4, <1>6, <2>1 DEF Resolved, Posting
  <2> HIDE DEF i
  <2>4. \A k \in LiveEntries(journal, s.doc) : k = i
    BY <1>0, <1>6, <2>2 DEF Booked, LiveEntries
  <2>5. ~IsReversed(journal, i)
    BY <1>11, <2>1, <2>2, <2>4 DEF Settled
  <2>6. i # 0
    BY <1>6, <2>2 DEF LiveEntries
  <2>7. ~DuplicatePosting(p, EntryFor(p))'
    BY <1>9, <1>10, <2>3, <2>5, <2>6
  <2>8. tx'[p].cur.target \in LiveEntries(Seen(p)', tx'[p].doc)
    BY <1>1, <1>5, <1>6, <2>2, <2>3 DEF SameWrites
  <2> QED BY <1>0, <1>1, <1>2, <1>3, <1>5, <1>8, <1>12, <2>7, <2>8
          DEF Knows, PastEvent, SameWrites, tables
<1>13. CASE tx[p].op \in {"sale", "itemRefund"}
  <2>1. s.kind \in {"DOC", "PARTIAL"} /\ (tx[p].op = "itemRefund" => s.kind = "PARTIAL")
    BY <1>5, <1>13 DEF KindOf
  <2>2. Resolved(p, s) = s /\ s.target = 0
    BY <1>0, <1>4, <2>1 DEF Resolved, TodoSound
  <2>3. ~SamePosted(journal, s)
    BY <1>11 DEF Settled
  <2>4. ~DuplicatePosting(p, EntryFor(p))'
    BY <1>9, <1>10, <2>1, <2>2, <2>3 DEF SamePosted
  <2>5. tx[p].op = "itemRefund" => \E i \in LiveEntries(journal, tx[p].doc) : ~IsReversed(journal, i)
    BY <1>5, <1>11, <2>1 DEF Settled
  <2> QED BY <1>0, <1>1, <1>2, <1>3, <1>5, <1>8, <1>13, <2>4, <2>5
          DEF Knows, PastEvent, SameWrites, tables
<1> QED BY <1>5, <1>12, <1>13 DEF EventFirst

\* Its own posting: under the locks nothing it knew has changed.
LEMMA PostKnows ==
  ASSUME CourseInv, NEW p \in Proc, Post(p), ~Refuse(p)
  PROVE  Knows(p)'
<1>0. TypeOK /\ tx[p] \in Tx /\ EventFirstCourse(tx[p]) /\ Knows(p) /\ BooksInv /\ Booked(Seen(p))
  BY DEF CourseInv, BooksInv, ChainInv, TypeOK
<1>1. /\ tx[p].pc = "gl" /\ UNCHANGED tables /\ SameCourse(tx[p], tx'[p])
      /\ tx'[p].entries = Append(tx[p].entries, EntryFor(p))
      /\ tx'[p].pc \notin Posting3
  BY <1>0, PostTx DEF Post, Continue, Posting3
<1> SUFFICES ASSUME PastEvent(p)' PROVE Knows(p)'
  BY DEF Knows
<1>2. PastEvent(p) /\ tx[p].pc \in Posting3 /\ tx[p].op \in EventFirst
  BY <1>1 DEF PastEvent, SameCourse, Posting3
<1>3. tx[p].entries = <<>> /\ tx[p].cur.kind = KindOf(tx[p].op)
  BY <1>0, <1>2 DEF EventFirstCourse
<1> DEFINE e == EntryFor(p)
<1>4. tx'[p].entries = <<e>>
  BY <1>1, <1>3
<1>5. e.month = tx[p].cur.month /\ e.reverses = tx[p].cur.target
      /\ (tx[p].op = "void" => e.kind = "REVERSAL")
  BY <1>3 DEF EntryFor, KindOf
<1>6. Seen(p) = journal /\ Seen(p)' = Append(journal, e) /\ journal \in Seq(Entry)
  BY <1>0, <1>1, <1>3, SeenOf, PostBooked DEF TypeOK
<1> HIDE DEF e
<1>7. \A i \in DOMAIN tx'[p].entries : period'[tx'[p].entries[i].month] # "CLOSED"
  BY <1>0, <1>1, <1>2, <1>4, <1>5 DEF Knows, tables
<1>8. tx'[p].op = "itemRefund" =>
        \E i \in LiveEntries(journal', tx'[p].doc) : ~IsReversed(journal', i)
  BY <1>0, <1>1, <1>2 DEF Knows, SameCourse, tables
<1>9. tx'[p].op = "void" => \A i \in LiveEntries(Seen(p)', tx'[p].doc) : IsReversed(Seen(p)', i)
  <2> SUFFICES ASSUME tx[p].op = "void", NEW i \in LiveEntries(Append(journal, e), tx[p].doc)
               PROVE  IsReversed(Append(journal, e), i)
    BY <1>1, <1>6 DEF SameCourse
  <2>1. /\ DOMAIN Append(journal, e) = DOMAIN journal \cup {Len(journal) + 1}
        /\ Append(journal, e)[Len(journal) + 1] = e
        /\ \A k \in DOMAIN journal : Append(journal, e)[k] = journal[k]
    BY <1>6
  <2>2. i \in LiveEntries(journal, tx[p].doc)
    BY <1>5, <2>1 DEF LiveEntries
  <2>3. tx[p].cur.target \in LiveEntries(journal, tx[p].doc)
    BY <1>0, <1>2, <1>6 DEF Knows
  <2>4. i = tx[p].cur.target
    BY <1>0, <1>6, <2>2, <2>3 DEF Booked, LiveEntries
  <2> QED BY <1>5, <2>1, <2>4 DEF IsReversed
<1>10. \A m \in Month :
         tx'[p].months[m] \in {"SAME", "OPEN"} /\ (tx'[p].months[m] = "OPEN" => period'[m] # "CLOSED")
  BY <1>0, <1>1, <1>2 DEF Knows, SameCourse, tables
<1> QED BY <1>1, <1>7, <1>8, <1>9, <1>10 DEF Knows

\* And its other steps.
LEMMA StepKnows ==
  ASSUME CourseInv, NEW p \in Proc, Step(p), ~Refuse(p)
  PROVE  Knows(p)'
<1>0. TypeOK /\ tx[p] \in Tx /\ EventFirstCourse(tx[p]) /\ Knows(p) /\ BooksInv
  BY DEF CourseInv, BooksInv, ChainInv, TypeOK
<1>1. CASE RecordEvent(p)
  <2>1. /\ tx[p].pc = "event" /\ SameCourse(tx[p], tx'[p]) /\ tx'[p].entries = tx[p].entries
        /\ tx'[p].pc = Continue(tx[p])
    BY <1>0, <1>1, RecordEventTx DEF RecordEvent
  <2> SUFFICES ASSUME PastEvent(p)' PROVE Knows(p)'
    BY DEF Knows
  <2>2. tx[p].op \in EventFirst /\ tx[p].entries = <<>> /\ tx[p].months = Unwritten
    BY <1>0, <2>1 DEF PastEvent, EventFirstCourse, SameCourse
  <2>3. tx'[p].pc \notin Posting3 /\ (tx[p].op = "void" => tx'[p].pc = "check")
    BY <1>0, <2>1, <2>2 DEF EventFirstCourse, Continue, Posting3
  <2> QED BY <2>1, <2>2, <2>3 DEF Knows, SameCourse, Unwritten
<1>2. CASE SetPeriod(p) \/ OpenNextYear(p)
  <2>1. tx[p].op \notin EventFirst
    BY <1>0, <1>2 DEF EventFirstCourse, SetPeriod, OpenNextYear
  <2> QED BY <1>0, <1>2, <2>1, SetPeriodTx, OpenNextYearTx DEF Knows, PastEvent, SameWrites
<1>3. CASE Skip(p)
  <2>1. PICK s \in NextPostings(p) :
           /\ Skipped(p, s) /\ tx[p].pc = "check"
           /\ SameWrites(tx[p], tx'[p]) /\ tx'[p].months = tx[p].months
           /\ tx'[p].todo = tx[p].todo \ {s}
           /\ tx'[p].pc = IF tx'[p].todo # {} THEN "check"
                          ELSE IF tx[p].op = "replay" /\ tx[p].entries # <<>> THEN "event" ELSE "commit"
    BY <1>0, <1>3, SkipTx
  <2>2. UNCHANGED tables
    BY <1>3 DEF Skip
  <2> SUFFICES ASSUME PastEvent(p)' PROVE Knows(p)'
    BY DEF Knows
  <2>3. PastEvent(p) /\ s \in tx[p].todo /\ tx[p].op \in EventFirst
    BY <2>1 DEF PastEvent, NextPostings, SameWrites
  <2>4. tx[p].entries = <<>> /\ s.kind = KindOf(tx[p].op) /\ s.doc = tx[p].doc
    BY <1>0, <2>3 DEF EventFirstCourse
  <2>5. Seen(p)' = Seen(p)
    BY <2>1, <2>2, QuietSeen DEF SameWrites, tables
  <2>6. tx[p].op = "void" /\ autoPost => \A i \in LiveEntries(Seen(p), tx[p].doc) : IsReversed(Seen(p), i)
    BY <2>1, <2>4 DEF Skipped, Settled, SamePosted, KindOf
  <2>7. tx'[p].pc \notin Posting3
    BY <2>1 DEF Posting3
  <2>8. \A m \in Month :
         tx'[p].months[m] \in {"SAME", "OPEN"} /\ (tx'[p].months[m] = "OPEN" => period'[m] # "CLOSED")
    BY <1>0, <2>1, <2>2, <2>3 DEF Knows, tables
  <2> QED BY <2>1, <2>2, <2>4, <2>5, <2>6, <2>7, <2>8 DEF Knows, SameWrites, tables
<1>4. CASE Check(p)
  BY <1>4, CheckKnows
<1>5. CASE InsertPeriod(p)
  <2> DEFINE m == tx[p].cur.month
             v == IF tx[p].op = "closeYear" THEN "CLOSED" ELSE "OPEN"
  <2>1. /\ SameWrites(tx[p], tx'[p]) /\ tx'[p].cur = tx[p].cur /\ m \in Month
        /\ period[m] = "ABSENT" /\ tx'[p].months = [tx[p].months EXCEPT ![m] = v]
        /\ tx[p].pc = "newPeriod" /\ tx'[p].pc \in {"commit", "ledger"}
        /\ (tx[p].op # "open" => tx'[p].pc = "ledger")
    BY <1>0, <1>5, InsertPeriodTx
  <2>2. UNCHANGED <<journal, glHead, period, autoPost>>
    BY <1>5 DEF InsertPeriod, tables
  <2> SUFFICES ASSUME PastEvent(p)' PROVE Knows(p)'
    BY DEF Knows
  <2>3. PastEvent(p) /\ tx[p].op \in EventFirst /\ v = "OPEN" /\ tx'[p].pc = "ledger"
    BY <2>1 DEF PastEvent, SameWrites, EventFirst
  <2>4. Seen(p)' = Seen(p) /\ EntryFor(p)' = EntryFor(p)
    BY <2>1, <2>2 DEF Seen, EntryFor, SameWrites
  <2>5. DuplicatePosting(p, EntryFor(p))' <=> DuplicatePosting(p, EntryFor(p))
    BY <2>4 DEF DuplicatePosting
  <2>6. tx[p].months \in [Month -> Status \cup {"SAME"}]
    BY <1>0 DEF Tx
  <2>7. \A k \in Month :
         tx'[p].months[k] \in {"SAME", "OPEN"} /\ (tx'[p].months[k] = "OPEN" => period'[k] # "CLOSED")
    BY <1>0, <2>1, <2>2, <2>3, <2>6 DEF Knows
  <2> HIDE DEF m, v
  <2> QED BY <1>0, <2>1, <2>2, <2>3, <2>4, <2>5, <2>7 DEF Knows, SameWrites, Posting3
<1>6. CASE LockLedger(p)
  <2>1. /\ SameWrites(tx[p], tx'[p]) /\ SameCourse(tx[p], tx'[p])
        /\ tx[p].pc = "ledger" /\ tx'[p].pc = "gl"
    BY <1>0, <1>6, LockLedgerTx
  <2>2. UNCHANGED <<journal, glHead, period, autoPost>>
    BY <1>6 DEF LockLedger, tables
  <2> SUFFICES ASSUME PastEvent(p)' PROVE Knows(p)'
    BY DEF Knows
  <2>3. PastEvent(p)
    BY <2>1 DEF PastEvent, SameWrites
  <2>4. Seen(p)' = Seen(p) /\ EntryFor(p)' = EntryFor(p)
    BY <2>1, <2>2 DEF Seen, EntryFor, SameWrites, SameCourse
  <2>5. DuplicatePosting(p, EntryFor(p))' <=> DuplicatePosting(p, EntryFor(p))
    BY <2>4 DEF DuplicatePosting
  <2> QED BY <1>0, <2>1, <2>2, <2>3, <2>4, <2>5 DEF Knows, SameWrites, SameCourse, Posting3
<1>7. CASE Post(p)
  BY <1>7, PostKnows
<1>8. CASE Commit(p)
  BY <1>0, <1>8 DEF Commit, IdleTx, Knows, PastEvent, TypeOK
<1> QED BY <1>1, <1>2, <1>3, <1>4, <1>5, <1>6, <1>7, <1>8 DEF Step

\* Every handler starts idle, so on course.
LEMMA InitCourse == Init => CourseInv
<1> SUFFICES ASSUME Init PROVE CourseInv
  OBVIOUS
<1>1. \A p \in Proc : tx[p] = IdleTx /\ ~PastEvent(p)
  BY DEF Init, PastEvent, IdleTx, EventFirst
<1> QED BY <1>1, InitBooks, IdleCourse DEF CourseInv, Course, Knows

\* Every step keeps every handler on course.
LEMMA NextCourse == CourseInv /\ [Next]_vars => CourseInv'
<1> SUFFICES ASSUME CourseInv, [Next]_vars PROVE CourseInv'
  OBVIOUS
<1>0. BooksInv' /\ TypeOK /\ ChainInv /\ tx \in [Proc -> Tx]
  BY NextBooks DEF CourseInv, BooksInv, ChainInv, TypeOK
<1>1. ASSUME NEW p \in Proc, Course(tx'[p]), Knows(p)', \A q \in Proc \ {p} : tx'[q] = tx[q],
             \A q \in Proc \ {p} : PastEvent(q) =>
               /\ UNCHANGED <<journal, glHead, autoPost>>
               /\ \A m \in Month : period'[m] = "CLOSED" => period[m] = "CLOSED"
      PROVE  CourseInv'
  <2>1. ASSUME NEW q \in Proc PROVE Course(tx'[q]) /\ Knows(q)'
    <3>1. CASE q = p
      BY <1>1, <3>1
    <3>2. CASE q # p /\ PastEvent(q)
      <4>1. Knows(q) /\ Course(tx[q])
        BY DEF CourseInv, Course
      <4> QED BY <1>0, <1>1, <3>2, <4>1, KnowsKept
    <3>3. CASE q # p /\ ~PastEvent(q)
      BY <1>1, <3>3 DEF CourseInv, Course, Knows, PastEvent
    <3> QED BY <3>1, <3>2, <3>3
  <2> QED BY <1>0, <2>1 DEF CourseInv, Course
<1>2. ASSUME NEW p \in Proc, Refuse(p) PROVE CourseInv'
  <2>1. tx'[p] = IdleTx /\ UNCHANGED tables /\ \A q \in Proc \ {p} : tx'[q] = tx[q]
    BY <1>0, <1>2 DEF Refuse
  <2>2. Knows(p)'
    BY <2>1 DEF Knows, PastEvent, IdleTx
  <2> QED BY <1>1, <2>1, <2>2, IdleCourse DEF tables
<1>3. ASSUME NEW p \in Proc, Request(p) PROVE CourseInv'
  <2>1. UNCHANGED <<journal, glHead, autoPost, period>> /\ \A q \in Proc \ {p} : tx'[q] = tx[q]
    BY <1>0, <1>3 DEF Request, BeginManual, BeginReverse, BeginSale, BeginUndo, BeginReplay,
                      BeginClose, BeginReopen, BeginOpen, BeginCloseYear, BeginSettings, Begin, tables
  <2>2. Course(tx'[p]) /\ Knows(p)'
    BY <1>0, <1>3, RequestCourse DEF Knows
  <2> QED BY <1>1, <2>1, <2>2
<1>4. ASSUME NEW p \in Proc, Step(p), ~Refuse(p) PROVE CourseInv'
  <2>1. Course(tx'[p]) /\ Knows(p)'
    BY <1>0, <1>4, StepCourse, StepKnows DEF CourseInv, Course
  <2>2. \A q \in Proc \ {p} : tx'[q] = tx[q]
    BY <1>0, <1>4, StepQuiet DEF Step, Quiet, RecordEvent, LockLedger, Post, Commit
  <2>3. CASE Commit(p)
    BY <1>1, <2>1, <2>2, <2>3, CommitUndisturbing
  <2>4. CASE ~Commit(p)
    <3>1. UNCHANGED <<journal, glHead, autoPost, period>>
      BY <1>4, <2>4 DEF Step, RecordEvent, SetPeriod, Skip, Check, InsertPeriod, LockLedger, Post,
                        OpenNextYear, tables
    <3> QED BY <1>1, <2>1, <2>2, <3>1
  <2> QED BY <2>3, <2>4
<1>5. CASE Tick \/ ShopIdle \/ UNCHANGED vars
  <2>1. UNCHANGED <<journal, glHead, autoPost, period, tx>>
    BY <1>5 DEF Tick, ShopIdle, vars, tables
  <2>2. ASSUME NEW q \in Proc PROVE Course(tx'[q]) /\ Knows(q)'
    <3>1. Course(tx[q]) /\ Knows(q)
      BY DEF CourseInv, Course
    <3>2. Knows(q)'
      BY <1>0, <2>1, <3>1, KnowsKept
    <3> QED BY <2>1, <3>1, <3>2
  <2> QED BY <1>0, <2>2 DEF CourseInv, Course
<1> QED BY <1>2, <1>3, <1>4, <1>5 DEF Next, DeadlockAbort

\* The handlers that record their event first, and those that close a month or
\* turn the switch, keep to their course.
THEOREM CourseHolds == Spec => []CourseInv
<1> QED BY InitCourse, NextCourse, PTL DEF Spec

\* A sale, void or line refund never finds its month closed over what it posted,
\* and never fails because somebody else posted or reversed first: it records its
\* event, and so holds the audit-ledger head, before it looks (gl_postings.post_sale).
THEOREM EventFirstWins == Spec => []EventFirstSafe
<1>1. CourseInv => EventFirstSafe
  <2> SUFFICES ASSUME CourseInv PROVE EventFirstSafe
    OBVIOUS
  <2>1. ASSUME NEW p \in Proc, tx[p].op \in EventFirst, tx[p].entries # <<>> PROVE PastEvent(p)
    <3>1. EventFirstCourse(tx[p])
      BY DEF CourseInv
    <3>2. tx[p].pc # "idle"
      BY <2>1 DEF CourseInv, BooksInv, ChainInv, LockDiscipline
    <3> QED BY <2>1, <3>1, <3>2 DEF EventFirstCourse, PastEvent
  <2>2. EventFirstRespectsClose
    <3> SUFFICES ASSUME NEW p \in Proc, tx[p].op \in EventFirst, NEW i \in DOMAIN tx[p].entries
                 PROVE  period[tx[p].entries[i].month] # "CLOSED"
      BY DEF EventFirstRespectsClose
    <3>1. tx[p].entries # <<>>
      OBVIOUS
    <3> QED BY <2>1, <3>1 DEF CourseInv, Knows
  <2>3. EventFirstNeverRefused
    BY DEF EventFirstNeverRefused, CourseInv, Knows, PastEvent, Posting3
  <2> QED BY <2>2, <2>3 DEF EventFirstSafe
<1> QED BY <1>1, CourseHolds, PTL

\* Undoing a sale leaves its accounts neither standing nor past zero, even when
\* the replay, the reverse button or the switch raced it (orders.void_order,
\* gl_postings.post_order_refund).
THEOREM UndoneCompletely == Spec => []ReversalsComplete
<1>1. CourseInv => ReversalsComplete
  <2> SUFFICES ASSUME CourseInv PROVE ReversalsComplete
    OBVIOUS
  <2>1. ASSUME NEW p \in Proc, tx[p].op = "itemRefund", tx[p].entries # <<>>
        PROVE  \E i \in LiveEntries(journal, tx[p].doc) : ~IsReversed(journal, i)
    <3>1. EventFirstCourse(tx[p]) /\ tx[p].pc # "idle"
      BY <2>1 DEF CourseInv, BooksInv, ChainInv, LockDiscipline
    <3>2. PastEvent(p)
      BY <2>1, <3>1 DEF EventFirstCourse, PastEvent, EventFirst
    <3> QED BY <2>1, <3>2 DEF CourseInv, Knows
  <2>2. ASSUME NEW p \in Proc, tx[p].op = "void", tx[p].pc = "commit", autoPost
        PROVE  \A i \in LiveEntries(Seen(p), tx[p].doc) : IsReversed(Seen(p), i)
    BY <2>2 DEF CourseInv, Knows, PastEvent, EventFirst
  <2> QED BY <2>1, <2>2 DEF ReversalsComplete, RefundOnLiveSale, VoidSettlesBooks
<1> QED BY <1>1, CourseHolds, PTL
=============================================================================
