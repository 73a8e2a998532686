------------------------------ MODULE StockTake ------------------------------
(***************************************************************************)
(* Physical stock takes (app/api/stock_takes.py) and the one function they *)
(* change stock through, apply_unit_stock_adjustment_core                  *)
(* (app/api/adjustments.py).  Counted lines are entered while the take is  *)
(* DRAFT, submitting freezes the expected quantities, and each variance is *)
(* then approved or rejected until the take closes.                        *)
(*                                                                         *)
(* A process is a request handler.  Submit, approve and reject hold the    *)
(* take's row FOR UPDATE from their first statement to their commit; the   *)
(* three handlers of DRAFT lines read the take without a lock.  The unit's *)
(* row and the audit-ledger head are taken last and nothing is waited for  *)
(* under them, so taking them and committing is one step.                  *)
(***************************************************************************)
EXTENDS Integers, Sequences, FiniteSets, FiniteSetsExt

CONSTANTS
  Proc,     \* request handlers that may be in flight at once
  Take,     \* stock takes
  Unit,     \* coin and ounce types
  Counts,   \* quantities an operator may count
  InitQty,  \* stock of each unit when the model starts
  MaxLines, \* bound: lines ever entered
  MaxMoved, \* bound: net quantity bought or sold meanwhile, either way
  NONE      \* no process; a quantity not yet known

ASSUME NoneAssumption == NONE \notin Proc /\ NONE \notin Int
ASSUME QuantityAssumption ==
  Counts \subseteq Nat /\ InitQty \in Nat /\ MaxLines \in Nat /\ MaxMoved \in Nat

VARIABLES
  status,       \* stock_takes.status, ABSENT before the take is created
  lines,        \* stock_take_lines in the order they were inserted
  onHand,       \* coin_types / ounce_types.on_hand_qty
  moved,        \* net quantity every other operation moved
  adjustments,  \* manual_adjustments posted by approvals: line and delta
  closings,     \* STOCK_TAKE_CLOSED events of each take
  takeLock,     \* holder of the take's row
  tx            \* what each handler has read and flushed

vars == <<status, lines, onHand, moved, adjustments, closings, takeLock, tx>>

-----------------------------------------------------------------------------
Statuses == {"ABSENT", "DRAFT", "SUBMITTED", "CLOSED"}
Resolved == {"APPROVED", "REJECTED", "NO_VARIANCE"}

\* A line; REMOVED once its row is deleted.
Line == [take : Take, unit : Unit, counted : Nat,
         expected : Int \cup {NONE}, variance : Int \cup {NONE},
         resolution : Resolved \cup {"PENDING", "REMOVED"}]

NewLine(t, u, n) == [take |-> t, unit |-> u, counted |-> n,
                     expected |-> NONE, variance |-> NONE, resolution |-> "PENDING"]

\* The rows of take t in the lines s.
LinesOf(s, t) == {l \in DOMAIN s : s[l].take = t /\ s[l].resolution # "REMOVED"}

\* Mutant: a resolution that does not ask whether the line is pending.
AnyOf(s, t) == LinesOf(s, t)

PendingOf(s, t) == {l \in LinesOf(s, t) : s[l].resolution = "PENDING"}

\* A handler between two statements: the line it works on, the values it will
\* write, and for a submit the counts it read and the lines it has updated.
IdleTx == [pc |-> "idle", take |-> NONE, line |-> 0, unit |-> NONE, count |-> 0,
           read |-> <<>>, frozen |-> <<>>]

Idle(p) == tx[p].pc = "idle"

\* Rows a submit has updated and not committed.
RowLocked(l) == \E q \in Proc : l \in DOMAIN tx[q].frozen

Done(p) ==
  /\ tx' = [tx EXCEPT ![p] = IdleTx]
  /\ takeLock' = [t \in Take |-> IF takeLock[t] = p THEN NONE ELSE takeLock[t]]

\* A request refused or failed: the session is rolled back.
Refuse(p) == Done(p) /\ UNCHANGED <<status, lines, onHand, moved, adjustments, closings>>

\* The process dies, or a statement fails, before the commit.
Abort(p) == ~Idle(p) /\ Refuse(p)

Begin(p, t) ==
  /\ Idle(p)
  /\ tx' = [tx EXCEPT ![p] = t]
  /\ UNCHANGED <<status, lines, onHand, moved, adjustments, closings, takeLock>>

-----------------------------------------------------------------------------
(* Lines of a draft. *)

\* POST /stock-takes.
CreateTake(t) ==
  /\ status[t] = "ABSENT"
  /\ status' = [status EXCEPT ![t] = "DRAFT"]
  /\ UNCHANGED <<lines, onHand, moved, adjustments, closings, takeLock, tx>>

\* The three handlers read the take without a lock and refuse unless it is DRAFT;
\* edit and remove then read the line.
ReadAdd(p) == \E t \in Take, u \in Unit, n \in Counts :
  /\ status[t] = "DRAFT" /\ Len(lines) < MaxLines
  /\ Begin(p, [IdleTx EXCEPT !.pc = "add", !.take = t, !.unit = u, !.count = n])

ReadEdit(p) == \E t \in Take, n \in Counts : \E l \in LinesOf(lines, t) :
  /\ status[t] = "DRAFT" /\ n # lines[l].counted
  /\ Begin(p, [IdleTx EXCEPT !.pc = "edit", !.take = t, !.line = l, !.count = n])

ReadRemove(p) == \E t \in Take : \E l \in LinesOf(lines, t) :
  /\ status[t] = "DRAFT"
  /\ Begin(p, [IdleTx EXCEPT !.pc = "remove", !.take = t, !.line = l])

\* The unique index: a unit appears once in a take.
Counted(t, u) == \E l \in LinesOf(lines, t) : lines[l].unit = u

\* INSERT and commit.  The foreign key makes it wait while the take's row is held
\* FOR UPDATE, and then it goes ahead whatever the take has become.
AddLine(p) ==
  LET t == tx[p].take IN
  /\ tx[p].pc = "add" /\ takeLock[t] = NONE
  /\ IF Counted(t, tx[p].unit) \/ Len(lines) >= MaxLines THEN Refuse(p)
     ELSE /\ lines' = Append(lines, NewLine(t, tx[p].unit, tx[p].count))
          /\ Done(p)
          /\ UNCHANGED <<status, onHand, moved, adjustments, closings>>

\* UPDATE and commit: waits for a submit that updated the row; fails when the row
\* is gone (StaleDataError).
EditLine(p) ==
  LET l == tx[p].line IN
  /\ tx[p].pc = "edit" /\ ~RowLocked(l)
  /\ IF lines[l].resolution = "REMOVED" THEN Refuse(p)
     ELSE /\ lines' = [lines EXCEPT ![l].counted = tx[p].count]
          /\ Done(p)
          /\ UNCHANGED <<status, onHand, moved, adjustments, closings>>

\* DELETE and commit; a row already gone is only warned about.
RemoveLine(p) ==
  LET l == tx[p].line IN
  /\ tx[p].pc = "remove" /\ ~RowLocked(l)
  /\ lines' = [lines EXCEPT ![l].resolution = "REMOVED"]
  /\ Done(p)
  /\ UNCHANGED <<status, onHand, moved, adjustments, closings>>

-----------------------------------------------------------------------------
(* Submit. *)

\* A request that waits for the take's row, or is refused once it has it, changes
\* nothing: it begins when the row is granted.
Lock(p, t) == takeLock[t] = NONE /\ takeLock' = [takeLock EXCEPT ![t] = p]

\* SELECT ... FOR UPDATE of the take, then its lines.
BeginSubmit(p) == \E t \in Take :
  /\ Idle(p) /\ Lock(p, t)
  /\ status[t] = "DRAFT" /\ LinesOf(lines, t) # {}
  /\ tx' = [tx EXCEPT ![p] = [IdleTx EXCEPT !.pc = "freeze", !.take = t,
                                !.read = [l \in LinesOf(lines, t) |-> lines[l].counted]]]
  /\ UNCHANGED <<status, lines, onHand, moved, adjustments, closings>>

\* One line: read the unit's stock without a lock and update the line, which fails
\* when the line was removed meanwhile.
Freeze(p) == \E l \in DOMAIN tx[p].read \ DOMAIN tx[p].frozen :
  /\ tx[p].pc = "freeze"
  /\ IF lines[l].resolution = "REMOVED" THEN Refuse(p)
     ELSE /\ tx' = [tx EXCEPT ![p].frozen = [k \in DOMAIN @ \cup {l} |->
                                               IF k = l THEN onHand[lines[l].unit] ELSE @[k]]]
          /\ UNCHANGED <<status, lines, onHand, moved, adjustments, closings, takeLock>>

\* The lines as the submit leaves them.
Frozen(p) == [l \in DOMAIN lines |->
  IF l \notin DOMAIN tx[p].frozen THEN lines[l]
  ELSE LET v == tx[p].read[l] - tx[p].frozen[l] IN
       [lines[l] EXCEPT !.expected = tx[p].frozen[l], !.variance = v,
                        !.resolution = IF v = 0 THEN "NO_VARIANCE" ELSE "PENDING"]]

\* _maybe_close_take: no line of the take is pending.
Closes(s, t) == PendingOf(s, t) = {}

\* Mutant: the closing event recorded each time a line is resolved.
CloseEach(t, was) == closings' = [closings EXCEPT ![t] = @ + 1]

\* STOCK_TAKE_CLOSED is recorded by the step that closes the take.
CountClosing(t, was) ==
  closings' = IF Closes(lines', t) /\ was # "CLOSED" THEN [closings EXCEPT ![t] = @ + 1] ELSE closings

Submit(p) ==
  LET t == tx[p].take IN
  /\ tx[p].pc = "freeze" /\ DOMAIN tx[p].read = DOMAIN tx[p].frozen
  /\ lines' = Frozen(p)
  /\ status' = [status EXCEPT ![t] = IF Closes(lines', t) THEN "CLOSED" ELSE "SUBMITTED"]
  /\ CountClosing(t, "DRAFT")
  /\ Done(p)
  /\ UNCHANGED <<onHand, moved, adjustments>>

-----------------------------------------------------------------------------
(* Approve and reject. *)

\* SELECT ... FOR UPDATE of the take, then the line, which must be pending.
BeginResolve(p, how) == \E t \in Take : \E l \in PendingOf(lines, t) :
  /\ Idle(p) /\ Lock(p, t)
  /\ status[t] = "SUBMITTED"
  /\ how = "approve" => lines[l].variance \notin {NONE, 0}
  /\ tx' = [tx EXCEPT ![p] = [IdleTx EXCEPT !.pc = how, !.take = t, !.line = l]]
  /\ UNCHANGED <<status, lines, onHand, moved, adjustments, closings>>

\* The line resolved as r and the take closed if it was the last.
Resolve(p, r) ==
  LET t == tx[p].take  l == tx[p].line IN
  /\ lines' = [lines EXCEPT ![l].resolution = r]
  /\ status' = [status EXCEPT ![t] = IF Closes(lines', t) THEN "CLOSED" ELSE @]
  /\ CountClosing(t, status[t])
  /\ Done(p)

\* apply_unit_stock_adjustment_core under the unit's lock.
Adjusted(l) == onHand[lines[l].unit] + lines[l].variance

BelowZero(l) == Adjusted(l) < 0

Approve(p) ==
  LET l == tx[p].line IN
  /\ tx[p].pc = "approve"
  /\ IF lines[l].resolution = "REMOVED" \/ BelowZero(l) THEN Refuse(p)
     ELSE /\ onHand' = [onHand EXCEPT ![lines[l].unit] = Adjusted(l)]
          /\ adjustments' = Append(adjustments, [line |-> l, delta |-> lines[l].variance])
          /\ Resolve(p, "APPROVED")
          /\ UNCHANGED moved

Reject(p) ==
  /\ tx[p].pc = "reject"
  /\ IF lines[tx[p].line].resolution = "REMOVED" THEN Refuse(p)
     ELSE Resolve(p, "REJECTED") /\ UNCHANGED <<onHand, moved, adjustments>>

\* Sales, buybacks, purchases and manual adjustments of a unit, each under its lock.
Move(u) == \E d \in {-1, 1} :
  /\ onHand[u] + d >= 0 /\ moved[u] + d \in -MaxMoved..MaxMoved
  /\ onHand' = [onHand EXCEPT ![u] = @ + d]
  /\ moved' = [moved EXCEPT ![u] = @ + d]
  /\ UNCHANGED <<status, lines, adjustments, closings, takeLock, tx>>

-----------------------------------------------------------------------------
Init ==
  /\ status = [t \in Take |-> "ABSENT"]
  /\ lines = <<>>
  /\ onHand = [u \in Unit |-> InitQty]
  /\ moved = [u \in Unit |-> 0]
  /\ adjustments = <<>>
  /\ closings = [t \in Take |-> 0]
  /\ takeLock = [t \in Take |-> NONE]
  /\ tx = [p \in Proc |-> IdleTx]

Request(p) ==
  \/ ReadAdd(p) \/ ReadEdit(p) \/ ReadRemove(p)
  \/ BeginSubmit(p) \/ BeginResolve(p, "approve") \/ BeginResolve(p, "reject")

Step(p) ==
  \/ AddLine(p) \/ EditLine(p) \/ RemoveLine(p)
  \/ Freeze(p) \/ Submit(p) \/ Approve(p) \/ Reject(p)

\* Nobody asks for anything.
ShopIdle == (\A p \in Proc : Idle(p)) /\ UNCHANGED vars

Next ==
  \/ \E t \in Take : CreateTake(t)
  \/ \E u \in Unit : Move(u)
  \/ \E p \in Proc : Request(p) \/ Step(p) \/ Abort(p)
  \/ ShopIdle

Spec == Init /\ [][Next]_vars
-----------------------------------------------------------------------------
(* Properties. *)

OnLines(f) == DOMAIN f \subseteq DOMAIN lines /\ \A l \in DOMAIN f : f[l] \in Nat

TxOK(t) ==
  /\ t.pc \in {"idle", "add", "edit", "remove", "freeze", "approve", "reject"}
  /\ t.take \in Take \cup {NONE} /\ t.unit \in Unit \cup {NONE}
  /\ t.line \in Nat /\ t.count \in Nat
  /\ OnLines(t.read) /\ OnLines(t.frozen)

\* Every variable keeps its type; on_hand_qty never goes below zero.
TypeOK ==
  /\ status \in [Take -> Statuses]
  /\ lines \in Seq(Line)
  /\ onHand \in [Unit -> Nat]
  /\ moved \in [Unit -> Int]
  /\ adjustments \in Seq([line : DOMAIN lines, delta : Int \ {0}])
  /\ closings \in [Take -> Nat]
  /\ takeLock \in [Take -> Proc \cup {NONE}]
  /\ \A p \in Proc : TxOK(tx[p])

UnitOf(i) == lines[adjustments[i].line].unit
AdjustedBy(u) == SumFunctionOnSet([i \in DOMAIN adjustments |-> adjustments[i].delta],
                                  {i \in DOMAIN adjustments : UnitOf(i) = u})

\* Stock is explained to the last unit: whatever handlers interleave with sales,
\* it is what other operations moved plus the variances approved
\* (apply_unit_stock_adjustment_core is the only writer of a stock take).
StockExplained == \A u \in Unit : onHand[u] = InitQty + moved[u] + AdjustedBy(u)

\* One take adjusts a unit at most once, even when a line is removed and another
\* added for the same unit while the take is submitted and approved.
AdjustedOncePerTake == \A i, k \in DOMAIN adjustments :
  /\ lines[adjustments[i].line].take = lines[adjustments[k].line].take
  /\ UnitOf(i) = UnitOf(k)
  => i = k

\* A line is approved exactly when its own variance was posted: a rejected, settled
\* or late line never moves stock (approve_line, reject_line).
VarianceApplied ==
  /\ \A i \in DOMAIN adjustments :
       LET l == lines[adjustments[i].line] IN
       l.resolution \in {"APPROVED", "REMOVED"} /\ l.variance = adjustments[i].delta
  /\ \A l \in DOMAIN lines : lines[l].resolution = "APPROVED" =>
       \E i \in DOMAIN adjustments : adjustments[i].line = l

\* A variance reaches the stock once, only by the approval of its line, and
\* nothing else of a take moves stock; the state is well typed.
VariancePostedOnce == TypeOK /\ StockExplained /\ AdjustedOncePerTake /\ VarianceApplied

\* What a submit froze and what an approver decided never changes afterwards, though
\* a row may be deleted by a handler that still took the take for a draft.
DecisionFinal == [][\A l \in DOMAIN lines :
  /\ lines[l].variance # NONE =>
       lines'[l].variance = lines[l].variance /\ lines'[l].expected = lines[l].expected
  /\ lines[l].resolution \in Resolved =>
       lines'[l].resolution \in {lines[l].resolution, "REMOVED"}]_vars

\* At the moment a take closes all of its lines are resolved, it never opens again
\* (_maybe_close_take under the take's lock), and approvers of the last lines cannot
\* both close it: STOCK_TAKE_CLOSED is recorded by the step that closes it and by no
\* other (the close-race note of the module).
ClosesResolved == [][\A t \in Take :
  LET closing == status[t] # "CLOSED" /\ status'[t] = "CLOSED" IN
  /\ status[t] = "CLOSED" => status'[t] = "CLOSED"
  /\ closing => status[t] # "ABSENT" /\ PendingOf(lines', t) = {}
  /\ closings'[t] = closings[t] + (IF closing THEN 1 ELSE 0)]_vars

\* The course of a take: closed once, when everything is resolved, and nothing that was
\* frozen or decided on the way is decided again.
TakeRunsOneWay == DecisionFinal /\ ClosesResolved
=============================================================================
