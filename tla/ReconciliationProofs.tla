------------------------ MODULE ReconciliationProofs ------------------------
(***************************************************************************)
(* Proofs about StockTake and Bank, where the books are held against what  *)
(* is counted and against what the bank says.                              *)
(*                                                                         *)
(* StockTake, for any handlers, takes, units and bounds: a variance        *)
(* reaches the stock once and nothing else of a take does, and a take runs *)
(* one way and closes once.  Bank, for any clerks, entries, statements and *)
(* window: an automatic match clears one line by one, and the books differ *)
(* from what was cleared by what is in transit and by what statement lines *)
(* of 0.00 have swallowed.                                                 *)
(***************************************************************************)
EXTENDS StockTake, Bank, SumTheorems, SequenceTheorems

-----------------------------------------------------------------------------
(* The inductive invariant. *)

\* The handlers that hold the row of their take.
Holding == {"freeze", "approve", "reject"}

IsSession(x) == x = [pc |-> x.pc, take |-> x.take, line |-> x.line, unit |-> x.unit,
                     count |-> x.count, read |-> x.read, frozen |-> x.frozen]

Shaped ==
  /\ tx = [p \in Proc |-> tx[p]]
  /\ \A p \in Proc : IsSession(tx[p])

\* What a handler knows of the take and the line it works on: whoever holds the
\* take finds them as they were when it began, but for a line deleted meanwhile,
\* and a line it has updated cannot be deleted.
AtWork(p) ==
  LET x == tx[p] IN
  /\ x.pc # "idle" => x.take \in Take
  /\ x.pc = "add" => x.unit \in Unit
  /\ x.pc \in {"edit", "remove", "approve", "reject"} => x.line \in DOMAIN lines
  /\ x.pc \in Holding => takeLock[x.take] = p
  /\ x.pc = "freeze" =>
       /\ status[x.take] = "DRAFT" /\ DOMAIN x.frozen \subseteq DOMAIN x.read
       /\ \A l \in DOMAIN x.read : lines[l].take = x.take
       /\ \A l \in DOMAIN x.frozen : lines[l].resolution # "REMOVED"
  /\ x.pc \in {"approve", "reject"} =>
       /\ status[x.take] = "SUBMITTED" /\ lines[x.line].take = x.take
       /\ lines[x.line].resolution \in {"PENDING", "REMOVED"}
  /\ x.pc = "approve" => lines[x.line].variance \in Int \ {0}

\* Nothing is frozen or decided before the submit.
DraftUntouched == \A l \in DOMAIN lines :
  status[lines[l].take] \in {"ABSENT", "DRAFT"} =>
    lines[l].variance = NONE /\ lines[l].resolution \in {"PENDING", "REMOVED"}

SameUnit(l, m) == lines[l].take = lines[m].take /\ lines[l].unit = lines[m].unit

\* The unique index, and what it makes of the frozen lines: they were all there
\* at the submit, and a line added after it is never frozen.
UnitOnce == \A l, m \in DOMAIN lines : SameUnit(l, m) =>
  /\ lines[l].resolution # "REMOVED" /\ lines[m].resolution # "REMOVED" => l = m
  /\ lines[l].variance # NONE /\ lines[m].variance # NONE => l = m

LineOnce == \A i, k \in DOMAIN adjustments : adjustments[i].line = adjustments[k].line => i = k

TakeInv ==
  /\ TypeOK /\ Shaped
  /\ \A p \in Proc : AtWork(p)
  /\ DraftUntouched /\ UnitOnce
  /\ VarianceApplied /\ LineOnce
  /\ StockExplained

-----------------------------------------------------------------------------
(* What a step of p leaves of the others. *)

\* A line keeps its take and its unit; it is deleted only when nobody else has updated
\* it, and decided only by the holder of its take.
LineKept(p, l) ==
  /\ lines'[l].take = lines[l].take /\ lines'[l].unit = lines[l].unit
  /\ \/ lines'[l].resolution = lines[l].resolution /\ lines'[l].variance = lines[l].variance
     \/ /\ lines'[l].resolution = "REMOVED" /\ lines'[l].variance = lines[l].variance
        /\ \A q \in Proc : q # p => l \notin DOMAIN tx[q].frozen
     \/ takeLock[lines[l].take] = p

LeavesOthers(p) ==
  /\ \A q \in Proc : q # p =>
       /\ tx'[q] = tx[q]
       /\ tx[q].pc \in Holding =>
            takeLock'[tx[q].take] = q /\ status'[tx[q].take] = status[tx[q].take]
  /\ DOMAIN lines \subseteq DOMAIN lines'
  /\ \A l \in DOMAIN lines : LineKept(p, l)

\* What the others know stays true.
LEMMA OthersAtWork ==
  ASSUME TakeInv, NEW p \in Proc, LeavesOthers(p), NEW q \in Proc, q # p
  PROVE  AtWork(q)'
<1> DEFINE x == tx[q]
<1>1. tx'[q] = x /\ AtWork(q)
  BY DEF LeavesOthers, TakeInv
<1>2. DOMAIN x.read \subseteq DOMAIN lines /\ DOMAIN x.frozen \subseteq DOMAIN lines
  BY DEF TakeInv, TypeOK, TxOK, OnLines
<1>3. x.pc \in Holding =>
        /\ takeLock'[x.take] = q /\ takeLock[x.take] # p
        /\ status'[x.take] = status[x.take]
  BY <1>1 DEF LeavesOthers, AtWork
<1>4. ASSUME NEW l \in DOMAIN lines, x.pc \in Holding, lines[l].take = x.take
      PROVE  /\ l \in DOMAIN lines' /\ lines'[l].take = x.take
             /\ lines'[l].variance = lines[l].variance
             /\ lines'[l].resolution \in {lines[l].resolution, "REMOVED"}
             /\ l \in DOMAIN x.frozen => lines'[l].resolution = lines[l].resolution
  BY <1>3, <1>4 DEF LeavesOthers, LineKept
<1>5. x.pc = "freeze" => (x.pc = "freeze" /\ status[x.take] = "DRAFT")'
  BY <1>1, <1>3 DEF AtWork, Holding
<1>6. CASE x.pc \notin Holding
  BY <1>1, <1>6 DEF AtWork, Holding, LeavesOthers
<1>7. CASE x.pc = "freeze"
  <2>1. \A l \in DOMAIN x.read : lines'[l].take = x.take
    BY <1>1, <1>2, <1>4, <1>7 DEF AtWork, Holding
  <2>2. \A l \in DOMAIN x.frozen : lines'[l].resolution # "REMOVED"
    BY <1>1, <1>2, <1>4, <1>7 DEF AtWork, Holding
  <2> QED BY <1>1, <1>3, <1>7, <2>1, <2>2 DEF AtWork, Holding
<1>8. CASE x.pc \in {"approve", "reject"}
  <2>1. x.line \in DOMAIN lines /\ lines[x.line].take = x.take
    BY <1>1, <1>8 DEF AtWork
  <2>2. /\ x.line \in DOMAIN lines' /\ lines'[x.line].take = x.take
        /\ lines'[x.line].variance = lines[x.line].variance
        /\ lines'[x.line].resolution \in {lines[x.line].resolution, "REMOVED"}
    BY <1>4, <1>8, <2>1 DEF Holding
  <2> QED BY <1>1, <1>3, <1>8, <2>2 DEF AtWork, Holding
<1> QED BY <1>6, <1>7, <1>8 DEF Holding

\* A handler given a record of the right fields.
LEMMA Given ==
  ASSUME Shaped, NEW p \in Proc, NEW x, tx' = [tx EXCEPT ![p] = x],
         IsSession(x)
  PROVE  Shaped' /\ tx'[p] = x /\ \A q \in Proc : q # p => tx'[q] = tx[q]
BY DEF Shaped, IsSession

\* The session that ended, and the locks that are left.
LEMMA Ended ==
  ASSUME TakeInv, NEW p \in Proc, Done(p)
  PROVE  /\ Shaped' /\ AtWork(p)' /\ takeLock' \in [Take -> Proc \cup {NONE}]
         /\ TxOK(tx[p])'
         /\ \A q \in Proc : q # p =>
              tx'[q] = tx[q] /\ (tx[q].pc \in Holding => takeLock'[tx[q].take] = q)
<1>1. IsSession(IdleTx)
  BY DEF IsSession, IdleTx
<1>2. Shaped' /\ tx'[p] = IdleTx /\ \A q \in Proc : q # p => tx'[q] = tx[q]
  BY <1>1, Given DEF Done, TakeInv
<1>3. AtWork(p)' /\ TxOK(tx[p])'
  BY <1>2 DEF AtWork, TxOK, OnLines, IdleTx, Holding
<1>4. takeLock' \in [Take -> Proc \cup {NONE}]
  BY DEF Done, TakeInv, TypeOK
<1>5. \A q \in Proc : q # p /\ tx[q].pc \in Holding => takeLock'[tx[q].take] = q
  BY DEF Done, TakeInv, AtWork, Holding
<1> QED BY <1>2, <1>3, <1>4, <1>5

-----------------------------------------------------------------------------
(* Steps that write nothing but the session. *)

\* Rows that stay as they are keep everything that is said of rows.
LEMMA Quiet ==
  ASSUME TakeInv, NEW p \in Proc,
         UNCHANGED <<status, lines, onHand, moved, adjustments, closings>>,
         Shaped', AtWork(p)', TxOK(tx[p])', takeLock' \in [Take -> Proc \cup {NONE}],
         \A q \in Proc : q # p =>
           tx'[q] = tx[q] /\ (tx[q].pc \in Holding => takeLock'[tx[q].take] = q)
  PROVE  TakeInv'
<1>1. LeavesOthers(p)
  BY DEF LeavesOthers, LineKept
<1>2. \A q \in Proc : AtWork(q)'
  BY <1>1, OthersAtWork
<1>3. \A q \in Proc : TxOK(tx[q])'
  <2> SUFFICES ASSUME NEW q \in Proc, q # p PROVE TxOK(tx[q])'
    OBVIOUS
  <2>1. TxOK(tx[q])
    BY DEF TakeInv, TypeOK
  <2> QED BY <2>1 DEF TxOK, OnLines
<1>4. TypeOK'
  BY <1>3 DEF TakeInv, TypeOK
<1>5. DraftUntouched' /\ UnitOnce' /\ VarianceApplied' /\ LineOnce'
  BY DEF TakeInv, DraftUntouched, UnitOnce, SameUnit, VarianceApplied, LineOnce
<1>6. StockExplained'
  BY DEF TakeInv, StockExplained, AdjustedBy, UnitOf
<1> QED BY <1>2, <1>4, <1>5, <1>6 DEF TakeInv

\* A refused request writes nothing and lets go of its lock.
LEMMA RefuseTake == ASSUME TakeInv, NEW p \in Proc, Refuse(p) PROVE TakeInv'
BY Ended, Quiet DEF Refuse

\* What the columns of a line hold.
LEMMA LineTypes ==
  ASSUME TypeOK, NEW l \in DOMAIN lines
  PROVE  /\ l \in Nat /\ l \in 1..Len(lines) /\ lines[l] \in Line
         /\ lines[l].take \in Take /\ lines[l].unit \in Unit /\ lines[l].counted \in Nat
         /\ lines[l].expected \in Int \cup {NONE} /\ lines[l].variance \in Int \cup {NONE}
         /\ lines[l].resolution \in Resolved \cup {"PENDING", "REMOVED"}
<1>1. lines \in Seq(Line)
  BY DEF TypeOK
<1>2. l \in 1..Len(lines) /\ lines[l] \in Line
  BY <1>1
<1> QED BY <1>2 DEF Line

\* A request begins with what it read; a lock it takes was free.
LEMMA RequestTake == ASSUME TakeInv, NEW p \in Proc, Request(p) PROVE TakeInv'
<1>0. TypeOK /\ Shaped /\ AtWork(p)
  BY DEF TakeInv
<1>1. ASSUME NEW x,
             IsSession(x),
             x.pc \in {"add", "edit", "remove"}, x.take \in Take,
             x.pc = "add" => x.unit \in Unit,
             x.pc # "add" => x.line \in DOMAIN lines,
             x.unit \in Unit \cup {NONE}, x.line \in Nat, x.count \in Nat,
             x.read = <<>>, x.frozen = <<>>, Begin(p, x)
      PROVE  TakeInv'
  <2>1. Shaped' /\ tx'[p] = x /\ \A q \in Proc : q # p => tx'[q] = tx[q]
    BY <1>0, <1>1, Given DEF Begin
  <2>2. AtWork(p)' /\ TxOK(tx[p])'
    BY <1>1, <2>1 DEF AtWork, TxOK, OnLines, Holding, Begin
  <2>3. \A q \in Proc : q # p /\ tx[q].pc \in Holding => takeLock'[tx[q].take] = q
    BY <1>1 DEF Begin, TakeInv, AtWork
  <2>4. takeLock' \in [Take -> Proc \cup {NONE}]
    BY <1>0, <1>1 DEF Begin, TypeOK
  <2>5. UNCHANGED <<status, lines, onHand, moved, adjustments, closings>>
    BY <1>1 DEF Begin
  <2> QED BY <2>1, <2>2, <2>3, <2>4, <2>5, Quiet
<1>2. CASE ReadAdd(p)
  <2>1. PICK t \in Take, u \in Unit, n \in Counts :
          Begin(p, [IdleTx EXCEPT !.pc = "add", !.take = t, !.unit = u, !.count = n])
    BY <1>2 DEF ReadAdd
  <2>2. n \in Nat
    BY QuantityAssumption
  <2>7. PICK x : x = [IdleTx EXCEPT !.pc = "add", !.take = t, !.unit = u, !.count = n]
    OBVIOUS
  <2>8. /\ IsSession(x)
        /\ x.pc = "add" /\ x.take = t /\ x.unit = u /\ x.count = n /\ x.line = 0 /\ x.read = <<>> /\ x.frozen = <<>>
    BY <2>7 DEF IdleTx, IsSession
  <2>9. Begin(p, x)
    BY <2>1, <2>7
  <2> QED BY <1>1, <2>2, <2>8, <2>9
<1>3. CASE ReadEdit(p)
  <2>1. PICK t \in Take, n \in Counts, l \in DOMAIN lines :
          Begin(p, [IdleTx EXCEPT !.pc = "edit", !.take = t, !.line = l, !.count = n])
    BY <1>3 DEF ReadEdit, LinesOf
  <2>2. n \in Nat /\ l \in Nat
    BY <1>0, LineTypes, QuantityAssumption
  <2>7. PICK x : x = [IdleTx EXCEPT !.pc = "edit", !.take = t, !.line = l, !.count = n]
    OBVIOUS
  <2>8. /\ IsSession(x)
        /\ x.pc = "edit" /\ x.take = t /\ x.unit = NONE /\ x.count = n /\ x.line = l /\ x.read = <<>> /\ x.frozen = <<>>
    BY <2>7 DEF IdleTx, IsSession
  <2>9. Begin(p, x)
    BY <2>1, <2>7
  <2> QED BY <1>1, <2>2, <2>8, <2>9
<1>4. CASE ReadRemove(p)
  <2>1. PICK t \in Take, l \in DOMAIN lines :
          Begin(p, [IdleTx EXCEPT !.pc = "remove", !.take = t, !.line = l])
    BY <1>4 DEF ReadRemove, LinesOf
  <2>2. l \in Nat
    BY <1>0, LineTypes
  <2>7. PICK x : x = [IdleTx EXCEPT !.pc = "remove", !.take = t, !.line = l]
    OBVIOUS
  <2>8. /\ IsSession(x)
        /\ x.pc = "remove" /\ x.take = t /\ x.unit = NONE /\ x.count = 0 /\ x.line = l /\ x.read = <<>> /\ x.frozen = <<>>
    BY <2>7 DEF IdleTx, IsSession
  <2>9. Begin(p, x)
    BY <2>1, <2>7
  <2> QED BY <1>1, <2>2, <2>8, <2>9
<1>5. ASSUME NEW t \in Take, Lock(p, t), Idle(p), NEW x,
             IsSession(x),
             tx' = [tx EXCEPT ![p] = x], x.take = t, x.pc \in Holding,
             x.unit = NONE, x.count = 0, x.frozen = <<>>,
             UNCHANGED <<status, lines, onHand, moved, adjustments, closings>>,
             x.line \in Nat, OnLines(x.read),
             x.pc = "freeze" =>
               status[t] = "DRAFT" /\ \A l \in DOMAIN x.read : lines[l].take = t,
             x.pc # "freeze" =>
               /\ status[t] = "SUBMITTED" /\ x.line \in DOMAIN lines /\ lines[x.line].take = t
               /\ lines[x.line].resolution = "PENDING",
             x.pc = "approve" => lines[x.line].variance \in Int \ {0}
      PROVE  TakeInv'
  <2>1. Shaped' /\ tx'[p] = x /\ \A q \in Proc : q # p => tx'[q] = tx[q]
    BY <1>0, <1>5, Given
  <2>2. takeLock' \in [Take -> Proc \cup {NONE}] /\ takeLock'[t] = p
    BY <1>0, <1>5 DEF Lock, TypeOK
  <2>3. AtWork(p)' /\ TxOK(tx[p])'
    BY <1>5, <2>1, <2>2 DEF AtWork, TxOK, OnLines, Holding
  <2>4. ASSUME NEW q \in Proc, q # p, tx[q].pc \in Holding PROVE takeLock'[tx[q].take] = q
    <3>1. takeLock[tx[q].take] = q /\ tx[q].take \in Take
      BY <2>4 DEF TakeInv, AtWork, Holding
    <3>2. tx[q].take # t
      BY <1>5, <3>1, NoneAssumption DEF Lock
    <3> QED BY <1>0, <1>5, <3>1, <3>2 DEF Lock, TypeOK
  <2> QED BY <1>5, <2>1, <2>2, <2>3, <2>4, Quiet
<1>6. CASE BeginSubmit(p)
  <2>1. PICK t \in Take :
          /\ Idle(p) /\ Lock(p, t) /\ status[t] = "DRAFT"
          /\ tx' = [tx EXCEPT ![p] = [IdleTx EXCEPT !.pc = "freeze", !.take = t,
                                        !.read = [l \in LinesOf(lines, t) |-> lines[l].counted]]]
          /\ UNCHANGED <<status, lines, onHand, moved, adjustments, closings>>
    BY <1>6 DEF BeginSubmit
  <2> DEFINE r == [l \in LinesOf(lines, t) |-> lines[l].counted]
  <2>2. OnLines(r)
    <3>1. \A l \in LinesOf(lines, t) : l \in DOMAIN lines /\ lines[l].counted \in Nat
      BY <1>0, LineTypes DEF LinesOf
    <3> QED BY <3>1 DEF OnLines
  <2>3. \A l \in DOMAIN r : lines[l].take = t
    BY DEF LinesOf
  <2> HIDE DEF r
  <2>4. tx' = [tx EXCEPT ![p] = [IdleTx EXCEPT !.pc = "freeze", !.take = t, !.read = r]]
    BY <2>1 DEF r
  <2>7. PICK x : x = [IdleTx EXCEPT !.pc = "freeze", !.take = t, !.read = r]
    OBVIOUS
  <2>8. /\ IsSession(x)
        /\ x.pc = "freeze" /\ x.take = t /\ x.unit = NONE /\ x.count = 0 /\ x.line = 0 /\ x.read = r /\ x.frozen = <<>>
    BY <2>7 DEF IdleTx, IsSession
  <2>9. tx' = [tx EXCEPT ![p] = x]
    BY <2>4, <2>7
  <2>10. OnLines(x.read) /\ (\A l \in DOMAIN x.read : lines[l].take = t) /\ x.line \in Nat
    BY <2>2, <2>3, <2>8
  <2>11. x.pc \in Holding
    BY <2>8 DEF Holding
  <2> HIDE DEF r
  <2> QED BY <1>5, <2>1, <2>8, <2>9, <2>10, <2>11
<1>7. ASSUME NEW how \in {"approve", "reject"}, BeginResolve(p, how) PROVE TakeInv'
  <2>1. PICK t \in Take : \E l \in PendingOf(lines, t) :
          /\ Idle(p) /\ Lock(p, t) /\ status[t] = "SUBMITTED"
          /\ how = "approve" => lines[l].variance \notin {NONE, 0}
          /\ tx' = [tx EXCEPT ![p] = [IdleTx EXCEPT !.pc = how, !.take = t, !.line = l]]
          /\ UNCHANGED <<status, lines, onHand, moved, adjustments, closings>>
    BY <1>7 DEF BeginResolve
  <2>3. PICK l \in PendingOf(lines, t) :
          /\ how = "approve" => lines[l].variance \notin {NONE, 0}
          /\ tx' = [tx EXCEPT ![p] = [IdleTx EXCEPT !.pc = how, !.take = t, !.line = l]]
    BY <2>1
  <2>2. /\ l \in DOMAIN lines /\ l \in Nat /\ lines[l].take = t /\ lines[l].resolution = "PENDING"
        /\ lines[l].variance \in Int \cup {NONE}
    BY <1>0, LineTypes DEF PendingOf, LinesOf
  <2>4. OnLines(<<>>)
    BY DEF OnLines
  <2>7. PICK x : x = [IdleTx EXCEPT !.pc = how, !.take = t, !.line = l]
    OBVIOUS
  <2>8. /\ IsSession(x)
        /\ x.pc = how /\ x.take = t /\ x.unit = NONE /\ x.count = 0 /\ x.line = l /\ x.read = <<>> /\ x.frozen = <<>>
    BY <2>7 DEF IdleTx, IsSession
  <2>9. tx' = [tx EXCEPT ![p] = x]
    BY <2>3, <2>7
  <2>10. how = "approve" => lines[l].variance \in Int \ {0}
    BY <2>2, <2>3
  <2> QED BY <1>5, <1>7, <2>1, <2>2, <2>4, <2>8, <2>9, <2>10 DEF Holding
<1> QED BY <1>2, <1>3, <1>4, <1>6, <1>7 DEF Request

\* A submit reads the stock of one more line, which nobody can delete from then on.
LEMMA FreezeTake == ASSUME TakeInv, NEW p \in Proc, Freeze(p) PROVE TakeInv'
<1>0. TypeOK /\ Shaped /\ AtWork(p)
  BY DEF TakeInv
<1>1. PICK l \in DOMAIN tx[p].read \ DOMAIN tx[p].frozen :
        /\ tx[p].pc = "freeze"
        /\ IF lines[l].resolution = "REMOVED" THEN Refuse(p)
           ELSE /\ tx' = [tx EXCEPT ![p].frozen = [k \in DOMAIN @ \cup {l} |->
                                                     IF k = l THEN onHand[lines[l].unit] ELSE @[k]]]
                /\ UNCHANGED <<status, lines, onHand, moved, adjustments, closings, takeLock>>
  BY DEF Freeze
<1>2. CASE lines[l].resolution = "REMOVED"
  BY <1>1, <1>2, RefuseTake
<1>3. CASE lines[l].resolution # "REMOVED"
  <2>1. PICK f : f = [k \in DOMAIN tx[p].frozen \cup {l} |->
                        IF k = l THEN onHand[lines[l].unit] ELSE tx[p].frozen[k]]
    OBVIOUS
  <2>2. PICK x : x = [tx[p] EXCEPT !.frozen = f]
    OBVIOUS
  <2>3. tx' = [tx EXCEPT ![p] = x]
    BY <1>1, <1>3, <2>1, <2>2
  <2>4. /\ IsSession(x) /\ x.pc = "freeze" /\ x.take = tx[p].take /\ x.line = tx[p].line
        /\ x.unit = tx[p].unit /\ x.count = tx[p].count /\ x.read = tx[p].read /\ x.frozen = f
    BY <1>0, <1>1, <2>2 DEF Shaped, IsSession
  <2>5. Shaped' /\ tx'[p] = x /\ \A q \in Proc : q # p => tx'[q] = tx[q]
    BY <1>0, <2>3, <2>4, Given
  <2>6. OnLines(tx[p].read) /\ OnLines(tx[p].frozen) /\ TxOK(tx[p])
    BY <1>0 DEF TypeOK, TxOK
  <2>7. l \in DOMAIN lines /\ onHand[lines[l].unit] \in Nat
    BY <1>0, <1>1, <2>6, LineTypes DEF OnLines, TypeOK
  <2>8. OnLines(f)
    BY <2>1, <2>6, <2>7 DEF OnLines
  <2>9. UNCHANGED <<status, lines, onHand, moved, adjustments, closings, takeLock>>
    BY <1>1, <1>3
  <2>10. TxOK(tx[p])'
    BY <2>4, <2>5, <2>6, <2>8, <2>9 DEF TxOK, OnLines
  <2>11. DOMAIN f = DOMAIN tx[p].frozen \cup {l}
    BY <2>1
  <2>12. AtWork(p)'
    BY <1>0, <1>1, <1>3, <2>4, <2>5, <2>9, <2>11 DEF AtWork, Holding
  <2>13. \A q \in Proc : q # p /\ tx[q].pc \in Holding => takeLock'[tx[q].take] = q
    BY <2>9 DEF TakeInv, AtWork
  <2>14. takeLock' \in [Take -> Proc \cup {NONE}]
    BY <1>0, <2>9 DEF TypeOK
  <2> QED BY <2>5, <2>9, <2>10, <2>12, <2>13, <2>14, Quiet
<1> QED BY <1>2, <1>3

-----------------------------------------------------------------------------
(* Steps that write lines and end the session. *)

\* What such a step has to show.
LEMMA Written ==
  ASSUME TakeInv, NEW p \in Proc, Done(p), LeavesOthers(p),
         lines' \in Seq(Line), status' \in [Take -> Statuses], onHand' \in [Unit -> Nat],
         moved' = moved, closings' \in [Take -> Nat],
         adjustments' \in Seq([line : DOMAIN lines, delta : Int \ {0}]),
         DraftUntouched', UnitOnce', VarianceApplied', LineOnce', StockExplained'
  PROVE  TakeInv'
<1>1. \A q \in Proc : AtWork(q)'
  BY Ended, OthersAtWork
<1>2. ASSUME NEW q \in Proc PROVE TxOK(tx[q])'
  <2>1. CASE q = p
    BY <2>1, Ended
  <2>2. CASE q # p
    <3>1. TxOK(tx[q]) /\ tx'[q] = tx[q] /\ DOMAIN lines \subseteq DOMAIN lines'
      BY <2>2 DEF TakeInv, TypeOK, LeavesOthers
    <3> QED BY <3>1 DEF TxOK, OnLines
  <2> QED BY <2>1, <2>2
<1>3. adjustments' \in Seq([line : DOMAIN lines', delta : Int \ {0}])
  <2>1. [line : DOMAIN lines, delta : Int \ {0}] \subseteq [line : DOMAIN lines', delta : Int \ {0}]
    BY DEF LeavesOthers
  <2> QED BY <2>1, SeqMonotonic
<1>4. moved' \in [Unit -> Int]
  BY DEF TakeInv, TypeOK
<1>5. TypeOK'
  BY <1>2, <1>3, <1>4, Ended DEF TypeOK
<1> QED BY <1>1, <1>5, Ended DEF TakeInv

\* What the columns of an adjustment hold.
LEMMA AdjustmentTypes ==
  ASSUME TypeOK, NEW i \in DOMAIN adjustments
  PROVE  /\ i \in Nat /\ i \in 1..Len(adjustments)
         /\ adjustments[i].line \in DOMAIN lines /\ adjustments[i].delta \in Int \ {0}
<1> DEFINE R == [line : DOMAIN lines, delta : Int \ {0}]
<1>1. adjustments \in Seq(R)
  BY DEF TypeOK
<1> HIDE DEF R
<1>2. i \in 1..Len(adjustments) /\ adjustments[i] \in R
  BY <1>1
<1> QED BY <1>2 DEF R

\* Sums are over finitely many of them.
LEMMA AdjustmentsFinite ==
  ASSUME TypeOK, NEW S, S \subseteq DOMAIN adjustments
  PROVE  IsFiniteSet(S)
<1>1. DOMAIN adjustments = 1..Len(adjustments) /\ Len(adjustments) \in Nat
  BY DEF TypeOK
<1>2. IsFiniteSet(1..Len(adjustments))
  BY <1>1, FS_Interval
<1> QED BY <1>1, <1>2, FS_Subset

\* Lines keep their unit, so stock stays explained by the adjustments it had.
LEMMA SameStock ==
  ASSUME TakeInv, NEW p \in Proc, LeavesOthers(p), UNCHANGED <<onHand, moved, adjustments>>
  PROVE  StockExplained'
<1>1. ASSUME NEW i \in DOMAIN adjustments PROVE UnitOf(i)' = UnitOf(i)
  <2>1. adjustments[i].line \in DOMAIN lines
    BY AdjustmentTypes DEF TakeInv
  <2> QED BY <2>1 DEF UnitOf, LeavesOthers, LineKept
<1>2. ASSUME NEW u \in Unit PROVE AdjustedBy(u)' = AdjustedBy(u)
  <2>1. {i \in DOMAIN adjustments : UnitOf(i)' = u} = {i \in DOMAIN adjustments : UnitOf(i) = u}
    BY <1>1
  <2> QED BY <2>1 DEF AdjustedBy
<1> QED BY <1>2 DEF TakeInv, StockExplained

\* A row replaced by another.
LEMMA RowWritten ==
  ASSUME lines \in Seq(Line), NEW l \in DOMAIN lines, NEW r \in Line,
         lines' = [lines EXCEPT ![l] = r]
  PROVE  /\ lines' \in Seq(Line) /\ DOMAIN lines' = DOMAIN lines /\ lines'[l] = r
         /\ \A k \in DOMAIN lines : k # l => lines'[k] = lines[k]
OBVIOUS

\* A line is added with an id nobody used and the stock as it is, to a take still in draft.
LEMMA AddTake == ASSUME TakeInv, NEW p \in Proc, AddLine(p) PROVE TakeInv'
<1> DEFINE t == tx[p].take
           u == tx[p].unit
<1>0. TypeOK /\ AtWork(p) /\ tx[p].pc = "add" /\ TxOK(tx[p])
  BY DEF TakeInv, AddLine, TypeOK
<1>1. CASE Refuse(p)
  BY <1>1, RefuseTake
<1>2. CASE /\ ~Counted(t, u) /\ lines' = Append(lines, NewLine(t, u, tx[p].count))
           /\ Done(p) /\ UNCHANGED <<status, onHand, moved, adjustments, closings>>
  <2>1. PICK r : r = NewLine(t, u, tx[p].count)
    OBVIOUS
  <2>2. /\ r \in Line /\ r.take = t /\ r.unit = u
        /\ r.variance = NONE /\ r.resolution = "PENDING"
    BY <1>0, <2>1 DEF NewLine, Line, AtWork, TxOK
  <2>3. lines \in Seq(Line) /\ lines' = Append(lines, r)
    BY <1>0, <1>2, <2>1 DEF TypeOK
  <2> DEFINE n == Len(lines) + 1
  <2>4. /\ lines' \in Seq(Line) /\ DOMAIN lines' = DOMAIN lines \cup {n} /\ lines'[n] = r
        /\ \A l \in DOMAIN lines : lines'[l] = lines[l]
    BY <2>2, <2>3
  <2> HIDE DEF n
  <2>5. LeavesOthers(p)
    <3>1. \A l \in DOMAIN lines : LineKept(p, l)
      BY <2>4 DEF LineKept
    <3> QED BY <1>2, <2>4, <3>1, Ended DEF LeavesOthers
  <2>6. DraftUntouched'
    BY <1>2, <2>2, <2>4 DEF TakeInv, DraftUntouched
  <2>7. UnitOnce'
    <3> SUFFICES ASSUME NEW l \in DOMAIN lines', NEW m \in DOMAIN lines', SameUnit(l, m)'
                 PROVE  /\ lines'[l].resolution # "REMOVED" /\ lines'[m].resolution # "REMOVED" => l = m
                        /\ lines'[l].variance # NONE /\ lines'[m].variance # NONE => l = m
      BY DEF UnitOnce
    <3>1. CASE l \in DOMAIN lines /\ m \in DOMAIN lines
      BY <2>4, <3>1 DEF TakeInv, UnitOnce, SameUnit
    <3>2. ASSUME NEW k \in DOMAIN lines, lines[k].take = t, lines[k].unit = u
          PROVE  lines[k].resolution = "REMOVED"
      BY <1>2, <3>2 DEF Counted, LinesOf
    <3>3. CASE l = n \/ m = n
      BY <2>2, <2>4, <3>2, <3>3 DEF SameUnit
    <3> QED BY <2>4, <3>1, <3>3
  <2>8. VarianceApplied' /\ LineOnce'
    <3>1. \A i \in DOMAIN adjustments : adjustments[i].line \in DOMAIN lines
      BY <1>0, AdjustmentTypes
    <3> QED BY <1>2, <2>2, <2>4, <3>1 DEF TakeInv, VarianceApplied, LineOnce
  <2>9. StockExplained'
    BY <1>2, <2>5, SameStock
  <2> QED BY <1>0, <1>2, <2>4, <2>5, <2>6, <2>7, <2>8, <2>9, Written DEF TypeOK
<1> QED BY <1>1, <1>2 DEF AddLine

\* Columns that only one handler writes are left as they are by the edit of a count
\* and by a deletion, which the submit that updated the row makes wait.
LEMMA RowTake ==
  ASSUME TakeInv, NEW p \in Proc, Done(p), UNCHANGED <<status, onHand, moved, adjustments, closings>>,
         NEW l \in DOMAIN lines, ~RowLocked(l), NEW r \in Line, lines' = [lines EXCEPT ![l] = r],
         r.take = lines[l].take, r.unit = lines[l].unit, r.variance = lines[l].variance,
         r.resolution \in {lines[l].resolution, "REMOVED"}
  PROVE  TakeInv'
<1>0. TypeOK
  BY DEF TakeInv
<1>1. /\ lines' \in Seq(Line) /\ DOMAIN lines' = DOMAIN lines /\ lines'[l] = r
      /\ \A k \in DOMAIN lines : k # l => lines'[k] = lines[k]
  BY <1>0, RowWritten DEF TypeOK
<1>2. LeavesOthers(p)
  <2>1. \A k \in DOMAIN lines : LineKept(p, k)
    BY <1>1 DEF LineKept, RowLocked
  <2> QED BY <1>1, <2>1, Ended DEF LeavesOthers
<1>3. DraftUntouched'
  BY <1>1 DEF TakeInv, DraftUntouched
<1>4. UnitOnce'
  BY <1>1 DEF TakeInv, UnitOnce, SameUnit
<1>5. VarianceApplied' /\ LineOnce'
  <2>1. \A i \in DOMAIN adjustments : adjustments[i].line \in DOMAIN lines
    BY <1>0, AdjustmentTypes
  <2>2. /\ \A i \in DOMAIN adjustments :
             /\ lines[adjustments[i].line].resolution \in {"APPROVED", "REMOVED"}
             /\ lines[adjustments[i].line].variance = adjustments[i].delta
        /\ \A k \in DOMAIN lines : lines[k].resolution = "APPROVED" =>
             \E i \in DOMAIN adjustments : adjustments[i].line = k
        /\ LineOnce
    BY DEF TakeInv, VarianceApplied
  <2> QED BY <1>1, <2>1, <2>2 DEF VarianceApplied, LineOnce
<1>6. StockExplained'
  BY <1>2, SameStock
<1> QED BY <1>0, <1>1, <1>2, <1>3, <1>4, <1>5, <1>6, Written DEF TypeOK

\* Counting a line again changes that line alone, in draft.
LEMMA EditTake == ASSUME TakeInv, NEW p \in Proc, EditLine(p) PROVE TakeInv'
<1> DEFINE l == tx[p].line
<1>0. TypeOK /\ l \in DOMAIN lines /\ ~RowLocked(l) /\ tx[p].count \in Nat
  BY DEF TakeInv, EditLine, AtWork, TypeOK, TxOK
<1>1. CASE Refuse(p)
  BY <1>1, RefuseTake
<1>2. CASE /\ lines' = [lines EXCEPT ![l].counted = tx[p].count]
           /\ Done(p) /\ UNCHANGED <<status, onHand, moved, adjustments, closings>>
  <2>1. PICK r : r = [lines[l] EXCEPT !.counted = tx[p].count]
    OBVIOUS
  <2>2. lines' = [lines EXCEPT ![l] = r]
    BY <1>2, <2>1
  <2>3. /\ r \in Line /\ r.take = lines[l].take /\ r.unit = lines[l].unit
        /\ r.variance = lines[l].variance /\ r.resolution = lines[l].resolution
    BY <1>0, <2>1, LineTypes DEF Line
  <2> QED BY <1>0, <1>2, <2>2, <2>3, RowTake
<1> QED BY <1>1, <1>2 DEF EditLine

\* A line removed in draft had no adjustment, and its id is not given out again.
LEMMA RemoveTake == ASSUME TakeInv, NEW p \in Proc, RemoveLine(p) PROVE TakeInv'
<1> DEFINE l == tx[p].line
<1>0. TypeOK /\ l \in DOMAIN lines /\ ~RowLocked(l)
  BY DEF TakeInv, RemoveLine, AtWork
<1>1. PICK r : r = [lines[l] EXCEPT !.resolution = "REMOVED"]
  OBVIOUS
<1>2. lines' = [lines EXCEPT ![l] = r]
  BY <1>1 DEF RemoveLine
<1>3. /\ r \in Line /\ r.take = lines[l].take /\ r.unit = lines[l].unit
      /\ r.variance = lines[l].variance /\ r.resolution = "REMOVED"
  BY <1>0, <1>1, LineTypes DEF Line
<1> QED BY <1>0, <1>2, <1>3, RowTake DEF RemoveLine

\* The lines a submit leaves: those it read carry what it froze.
LEMMA FrozenLines ==
  ASSUME TakeInv, NEW p \in Proc, Submit(p)
  PROVE  /\ lines' \in Seq(Line) /\ DOMAIN lines' = DOMAIN lines
         /\ \A l \in DOMAIN lines : l \notin DOMAIN tx[p].frozen => lines'[l] = lines[l]
         /\ \A l \in DOMAIN tx[p].frozen :
              /\ l \in DOMAIN lines /\ lines[l].take = tx[p].take
              /\ lines[l].resolution # "REMOVED"
              /\ lines'[l].take = lines[l].take /\ lines'[l].unit = lines[l].unit
              /\ lines'[l].variance \in Int
              /\ lines'[l].resolution \in {"NO_VARIANCE", "PENDING"}
<1>0. /\ TypeOK /\ AtWork(p) /\ tx[p].pc = "freeze" /\ DOMAIN tx[p].read = DOMAIN tx[p].frozen
      /\ OnLines(tx[p].read) /\ OnLines(tx[p].frozen)
  BY DEF TakeInv, Submit, TypeOK, TxOK
<1> DEFINE New(l) == LET v == tx[p].read[l] - tx[p].frozen[l] IN
                     [lines[l] EXCEPT !.expected = tx[p].frozen[l], !.variance = v,
                                      !.resolution = IF v = 0 THEN "NO_VARIANCE" ELSE "PENDING"]
<1>1. lines' = [l \in DOMAIN lines |-> IF l \notin DOMAIN tx[p].frozen THEN lines[l] ELSE New(l)]
  BY DEF Submit, Frozen
<1>2. ASSUME NEW l \in DOMAIN tx[p].frozen
      PROVE  /\ l \in DOMAIN lines /\ lines[l].take = tx[p].take
             /\ lines[l].resolution # "REMOVED" /\ New(l) \in Line
             /\ New(l).take = lines[l].take /\ New(l).unit = lines[l].unit
             /\ New(l).variance \in Int
             /\ New(l).resolution \in {"NO_VARIANCE", "PENDING"}
  <2>1. /\ l \in DOMAIN lines /\ lines[l].take = tx[p].take /\ lines[l].resolution # "REMOVED"
        /\ tx[p].read[l] \in Nat /\ tx[p].frozen[l] \in Nat
    BY <1>0 DEF AtWork, OnLines
  <2>2. PICK v : v = tx[p].read[l] - tx[p].frozen[l]
    OBVIOUS
  <2>3. PICK e : e = tx[p].frozen[l]
    OBVIOUS
  <2>4. PICK w : w = IF v = 0 THEN "NO_VARIANCE" ELSE "PENDING"
    OBVIOUS
  <2>5. v \in Int /\ e \in Int /\ w \in {"NO_VARIANCE", "PENDING"}
    BY <2>1, <2>2, <2>3, <2>4
  <2>6. PICK r : r = [lines[l] EXCEPT !.expected = e, !.variance = v, !.resolution = w]
    OBVIOUS
  <2>7. New(l) = r
    BY <2>2, <2>3, <2>4, <2>6
  <2>8. /\ r \in Line /\ r.take = lines[l].take /\ r.unit = lines[l].unit
        /\ r.variance = v /\ r.resolution = w
    BY <1>0, <2>1, <2>5, <2>6, LineTypes DEF Line, Resolved
  <2> QED BY <2>1, <2>5, <2>7, <2>8
<1> HIDE DEF New
<1>3. \A l \in DOMAIN lines : lines[l] \in Line
  BY <1>0, LineTypes
<1>4. lines' \in [DOMAIN lines -> Line]
  BY <1>1, <1>2, <1>3
<1>5. lines' \in Seq(Line)
  <2>1. DOMAIN lines = 1..Len(lines) /\ Len(lines) \in Nat
    BY <1>0 DEF TypeOK
  <2> QED BY <1>4, <2>1
<1> QED BY <1>1, <1>2, <1>5

\* A submit freezes the counts of every line, and posts at most one adjustment for each.
LEMMA SubmitTake == ASSUME TakeInv, NEW p \in Proc, Submit(p) PROVE TakeInv'
<1> DEFINE t == tx[p].take
           F == DOMAIN tx[p].frozen
<1>0. /\ TypeOK /\ t \in Take /\ takeLock[t] = p /\ status[t] = "DRAFT"
      /\ Done(p) /\ UNCHANGED <<onHand, moved, adjustments>>
  BY DEF TakeInv, Submit, AtWork, Holding
<1>1. /\ lines' \in Seq(Line) /\ DOMAIN lines' = DOMAIN lines
      /\ \A l \in DOMAIN lines : l \notin F => lines'[l] = lines[l]
      /\ \A l \in F :
           /\ l \in DOMAIN lines /\ lines[l].take = t /\ lines[l].resolution # "REMOVED"
           /\ lines'[l].take = t /\ lines'[l].unit = lines[l].unit
           /\ lines'[l].variance \in Int /\ lines'[l].resolution \in {"NO_VARIANCE", "PENDING"}
  BY FrozenLines
<1>2. /\ status' \in [Take -> Statuses] /\ status'[t] \in {"CLOSED", "SUBMITTED"}
      /\ \A s \in Take : s # t => status'[s] = status[s]
  BY <1>0 DEF Submit, TypeOK, Statuses
<1>3. closings' \in [Take -> Nat]
  BY <1>0 DEF Submit, CountClosing, TypeOK
<1>4. LeavesOthers(p)
  <2>1. \A l \in DOMAIN lines : LineKept(p, l)
    BY <1>0, <1>1 DEF LineKept
  <2>2. ASSUME NEW q \in Proc, q # p, tx[q].pc \in Holding
        PROVE  status'[tx[q].take] = status[tx[q].take]
    <3>1. takeLock[tx[q].take] = q /\ tx[q].take \in Take
      BY <2>2 DEF TakeInv, AtWork, Holding
    <3> QED BY <1>0, <1>2, <2>2, <3>1
  <2> QED BY <1>0, <1>1, <2>1, <2>2, Ended DEF LeavesOthers
<1>5. DraftUntouched'
  <2> SUFFICES ASSUME NEW l \in DOMAIN lines, status'[lines'[l].take] \in {"ABSENT", "DRAFT"}
               PROVE  lines'[l].variance = NONE /\ lines'[l].resolution \in {"PENDING", "REMOVED"}
    BY <1>1 DEF DraftUntouched
  <2>1. lines[l].take \in Take /\ lines'[l].take = lines[l].take
    BY <1>0, <1>1, LineTypes
  <2>2. lines[l].take # t /\ l \notin F
    BY <1>1, <1>2, <2>1
  <2> QED BY <1>1, <1>2, <2>1, <2>2 DEF TakeInv, DraftUntouched
<1>6. UnitOnce'
  <2> SUFFICES ASSUME NEW l \in DOMAIN lines, NEW m \in DOMAIN lines, SameUnit(l, m)'
               PROVE  /\ lines'[l].resolution # "REMOVED" /\ lines'[m].resolution # "REMOVED" => l = m
                      /\ lines'[l].variance # NONE /\ lines'[m].variance # NONE => l = m
    BY <1>1 DEF UnitOnce
  <2>1. SameUnit(l, m)
    BY <1>1 DEF SameUnit
  <2>2. \A k \in DOMAIN lines : lines'[k].resolution # "REMOVED" => lines[k].resolution # "REMOVED"
    BY <1>1
  <2>3. \A k \in DOMAIN lines : lines[k].take = t => lines[k].variance = NONE
    BY <1>0 DEF TakeInv, DraftUntouched
  <2>4. CASE lines[l].take = t
    <3>1. lines[m].take = t
      BY <2>1, <2>4 DEF SameUnit
    <3>2. \A k \in {l, m} : lines'[k].variance # NONE => k \in F
      BY <1>1, <2>3, <2>4, <3>1
    <3> QED BY <1>1, <2>1, <2>2, <3>2 DEF TakeInv, UnitOnce
  <2>5. CASE lines[l].take # t
    <3>1. l \notin F /\ m \notin F
      BY <1>1, <2>1, <2>5 DEF SameUnit
    <3> QED BY <1>1, <2>1, <3>1 DEF TakeInv, UnitOnce
  <2> QED BY <2>4, <2>5
<1>7. VarianceApplied' /\ LineOnce'
  <2>1. ASSUME NEW i \in DOMAIN adjustments
        PROVE  /\ adjustments[i].line \in DOMAIN lines /\ adjustments[i].line \notin F
               /\ lines[adjustments[i].line].resolution \in {"APPROVED", "REMOVED"}
               /\ lines[adjustments[i].line].variance = adjustments[i].delta
    <3>1. adjustments[i].line \in DOMAIN lines
      BY <1>0, AdjustmentTypes
    <3>2. /\ lines[adjustments[i].line].resolution \in {"APPROVED", "REMOVED"}
          /\ lines[adjustments[i].line].variance = adjustments[i].delta
      BY DEF TakeInv, VarianceApplied
    <3>3. adjustments[i].line \notin F
      BY <1>0, <1>1, <3>2 DEF TakeInv, DraftUntouched
    <3> QED BY <3>1, <3>2, <3>3
  <2>2. ASSUME NEW l \in DOMAIN lines, lines'[l].resolution = "APPROVED"
        PROVE  \E i \in DOMAIN adjustments : adjustments[i].line = l
    BY <1>1, <2>2 DEF TakeInv, VarianceApplied
  <2>3. LineOnce'
    BY <1>0 DEF TakeInv, LineOnce
  <2> QED BY <1>0, <1>1, <2>1, <2>2, <2>3 DEF VarianceApplied
<1>8. StockExplained'
  BY <1>0, <1>4, SameStock
<1> QED BY <1>0, <1>1, <1>2, <1>3, <1>4, <1>5, <1>6, <1>7, <1>8, Written DEF TypeOK

\* The line resolved and its take closed if it was the last.
LEMMA LineResolved ==
  ASSUME TakeInv, NEW p \in Proc, tx[p].pc \in {"approve", "reject"}, NEW how \in Resolved,
         lines[tx[p].line].resolution # "REMOVED", Resolve(p, how)
  PROVE  LET t == tx[p].take
             l == tx[p].line IN
         /\ l \in DOMAIN lines /\ t \in Take /\ lines[l].take = t
         /\ lines[l].resolution = "PENDING" /\ status[t] = "SUBMITTED"
         /\ lines' \in Seq(Line) /\ DOMAIN lines' = DOMAIN lines
         /\ \A k \in DOMAIN lines : k # l => lines'[k] = lines[k]
         /\ lines'[l].take = t /\ lines'[l].unit = lines[l].unit
         /\ lines'[l].variance = lines[l].variance /\ lines'[l].expected = lines[l].expected
         /\ lines'[l].resolution = how
         /\ status' \in [Take -> Statuses] /\ closings' \in [Take -> Nat]
         /\ status'[t] \in {"CLOSED", "SUBMITTED"}
         /\ \A s \in Take : s # t => status'[s] = status[s]
         /\ LeavesOthers(p) /\ DraftUntouched' /\ UnitOnce'
<1> DEFINE t == tx[p].take
           l == tx[p].line
<1>0. /\ TypeOK /\ Done(p) /\ t \in Take /\ l \in DOMAIN lines /\ takeLock[t] = p
      /\ lines[l].take = t /\ lines[l].resolution = "PENDING" /\ status[t] = "SUBMITTED"
  BY DEF TakeInv, Resolve, AtWork, Holding
<1>1. PICK r : r = [lines[l] EXCEPT !.resolution = how]
  OBVIOUS
<1>2. lines' = [lines EXCEPT ![l] = r]
  BY <1>1 DEF Resolve
<1>3. /\ r \in Line /\ r.take = t /\ r.unit = lines[l].unit
      /\ r.variance = lines[l].variance /\ r.expected = lines[l].expected /\ r.resolution = how
  BY <1>0, <1>1, LineTypes DEF Line
<1>4. /\ lines' \in Seq(Line) /\ DOMAIN lines' = DOMAIN lines /\ lines'[l] = r
      /\ \A k \in DOMAIN lines : k # l => lines'[k] = lines[k]
  BY <1>0, <1>2, <1>3, RowWritten DEF TypeOK
<1>5. /\ status' \in [Take -> Statuses] /\ status'[t] \in {"CLOSED", "SUBMITTED"}
      /\ \A s \in Take : s # t => status'[s] = status[s]
  BY <1>0 DEF Resolve, TypeOK, Statuses
<1>6. closings' \in [Take -> Nat]
  BY <1>0 DEF Resolve, CountClosing, TypeOK
<1>7. LeavesOthers(p)
  <2>1. \A k \in DOMAIN lines : LineKept(p, k)
    BY <1>0, <1>3, <1>4 DEF LineKept
  <2>2. ASSUME NEW q \in Proc, q # p, tx[q].pc \in Holding
        PROVE  status'[tx[q].take] = status[tx[q].take]
    <3>1. takeLock[tx[q].take] = q /\ tx[q].take \in Take
      BY <2>2 DEF TakeInv, AtWork, Holding
    <3> QED BY <1>0, <1>5, <2>2, <3>1
  <2> QED BY <1>0, <1>4, <2>1, <2>2, Ended DEF LeavesOthers
<1>8. DraftUntouched'
  <2> SUFFICES ASSUME NEW k \in DOMAIN lines, status'[lines'[k].take] \in {"ABSENT", "DRAFT"}
               PROVE  lines'[k].variance = NONE /\ lines'[k].resolution \in {"PENDING", "REMOVED"}
    BY <1>4 DEF DraftUntouched
  <2>1. lines[k].take \in Take /\ lines'[k].take = lines[k].take
    BY <1>0, <1>3, <1>4, LineTypes
  <2>2. lines[k].take # t /\ k # l
    BY <1>0, <1>5, <2>1
  <2> QED BY <1>4, <1>5, <2>1, <2>2 DEF TakeInv, DraftUntouched
<1>9. UnitOnce'
  <2>1. \A k \in DOMAIN lines :
          /\ lines'[k].take = lines[k].take /\ lines'[k].unit = lines[k].unit
          /\ lines'[k].variance = lines[k].variance
          /\ lines'[k].resolution # "REMOVED" => lines[k].resolution # "REMOVED"
    BY <1>0, <1>3, <1>4
  <2> QED BY <1>4, <2>1 DEF TakeInv, UnitOnce, SameUnit
<1> QED BY <1>0, <1>3, <1>4, <1>5, <1>6, <1>7, <1>8, <1>9

\* A rejection closes what was pending and moves no stock.
LEMMA RejectTake == ASSUME TakeInv, NEW p \in Proc, Reject(p) PROVE TakeInv'
<1> DEFINE l == tx[p].line
<1>1. CASE Refuse(p)
  BY <1>1, RefuseTake
<1>2. CASE /\ lines[l].resolution # "REMOVED" /\ Resolve(p, "REJECTED")
           /\ UNCHANGED <<onHand, moved, adjustments>>
  <2>1. "REJECTED" \in Resolved /\ tx[p].pc \in {"approve", "reject"}
    BY DEF Resolved, Reject
  <2>2. /\ l \in DOMAIN lines /\ lines[l].resolution = "PENDING"
        /\ lines' \in Seq(Line) /\ DOMAIN lines' = DOMAIN lines
        /\ \A k \in DOMAIN lines : k # l => lines'[k] = lines[k]
        /\ lines'[l].resolution = "REJECTED"
        /\ status' \in [Take -> Statuses] /\ closings' \in [Take -> Nat]
        /\ LeavesOthers(p) /\ DraftUntouched' /\ UnitOnce'
    BY <1>2, <2>1, LineResolved
  <2>3. VarianceApplied' /\ LineOnce'
    <3>1. ASSUME NEW i \in DOMAIN adjustments
          PROVE  /\ adjustments[i].line \in DOMAIN lines /\ adjustments[i].line # l
                 /\ lines[adjustments[i].line].resolution \in {"APPROVED", "REMOVED"}
                 /\ lines[adjustments[i].line].variance = adjustments[i].delta
      BY <2>2, AdjustmentTypes DEF TakeInv, VarianceApplied
    <3>2. ASSUME NEW k \in DOMAIN lines, lines'[k].resolution = "APPROVED"
          PROVE  \E i \in DOMAIN adjustments : adjustments[i].line = k
      BY <2>2, <3>2 DEF TakeInv, VarianceApplied
    <3> QED BY <1>2, <2>2, <3>1, <3>2 DEF TakeInv, VarianceApplied, LineOnce
  <2>4. StockExplained'
    BY <1>2, <2>2, SameStock
  <2>5. /\ onHand' \in [Unit -> Nat] /\ moved' = moved
        /\ adjustments' \in Seq([line : DOMAIN lines, delta : Int \ {0}])
    BY <1>2 DEF TakeInv, TypeOK
  <2> QED BY <1>2, <2>2, <2>3, <2>4, <2>5, Written DEF Resolve
<1> QED BY <1>1, <1>2 DEF Reject

\* An approval adds its variance to the stock and to what the adjustments explain.
LEMMA ApproveTake == ASSUME TakeInv, NEW p \in Proc, Approve(p) PROVE TakeInv'
<1> DEFINE l == tx[p].line
           d == lines[l].variance
           w == lines[l].unit
<1>0. TypeOK /\ tx[p].pc = "approve" /\ d \in Int \ {0} /\ l \in DOMAIN lines /\ w \in Unit
  BY LineTypes DEF TakeInv, Approve, AtWork
<1>1. CASE Refuse(p)
  BY <1>1, RefuseTake
<1>2. CASE /\ ~(lines[l].resolution = "REMOVED" \/ BelowZero(l))
           /\ onHand' = [onHand EXCEPT ![w] = Adjusted(l)]
           /\ adjustments' = Append(adjustments, [line |-> l, delta |-> d])
           /\ Resolve(p, "APPROVED") /\ UNCHANGED moved
  <2> PICK n : n = Len(adjustments) + 1
    OBVIOUS
  <2>1. "APPROVED" \in Resolved /\ tx[p].pc \in {"approve", "reject"}
    BY <1>0 DEF Resolved
  <2>2. /\ lines[l].resolution = "PENDING"
        /\ lines' \in Seq(Line) /\ DOMAIN lines' = DOMAIN lines
        /\ \A k \in DOMAIN lines : k # l => lines'[k] = lines[k]
        /\ lines'[l].take = lines[l].take /\ lines'[l].unit = w
        /\ lines'[l].variance = d /\ lines'[l].resolution = "APPROVED"
        /\ status' \in [Take -> Statuses] /\ closings' \in [Take -> Nat]
        /\ LeavesOthers(p) /\ DraftUntouched' /\ UnitOnce'
    BY <1>2, <2>1, LineResolved
  <2>3. /\ adjustments' \in Seq([line : DOMAIN lines, delta : Int \ {0}])
        /\ DOMAIN adjustments' = DOMAIN adjustments \cup {n} /\ n \notin DOMAIN adjustments
        /\ adjustments'[n] = [line |-> l, delta |-> d]
        /\ \A i \in DOMAIN adjustments : adjustments'[i] = adjustments[i]
    <3> DEFINE R == [line : DOMAIN lines, delta : Int \ {0}]
    <3>1. PICK a : a = [line |-> l, delta |-> d]
      OBVIOUS
    <3>2. a \in R
      BY <1>0, <3>1
    <3>3. adjustments \in Seq(R) /\ adjustments' = Append(adjustments, a)
      BY <1>0, <1>2, <3>1 DEF TypeOK
    <3> HIDE DEF R
    <3>4. /\ adjustments' \in Seq(R)
          /\ DOMAIN adjustments' = DOMAIN adjustments \cup {n} /\ n \notin DOMAIN adjustments
          /\ adjustments'[n] = a
          /\ \A i \in DOMAIN adjustments : adjustments'[i] = adjustments[i]
      BY <3>2, <3>3
    <3> QED BY <3>1, <3>4 DEF R
  <2>4. /\ onHand' \in [Unit -> Nat] /\ onHand'[w] = onHand[w] + d
        /\ \A u \in Unit : u # w => onHand'[u] = onHand[u]
    <3>1. onHand[w] \in Nat /\ ~(onHand[w] + d < 0)
      BY <1>0, <1>2 DEF TypeOK, BelowZero, Adjusted
    <3> QED BY <1>0, <1>2, <3>1 DEF TypeOK, Adjusted
  <2>5. ASSUME NEW i \in DOMAIN adjustments
        PROVE  /\ adjustments[i].line \in DOMAIN lines /\ adjustments[i].line # l
               /\ lines[adjustments[i].line].resolution \in {"APPROVED", "REMOVED"}
               /\ lines[adjustments[i].line].variance = adjustments[i].delta
    BY <1>0, <2>2, AdjustmentTypes DEF TakeInv, VarianceApplied
  <2>6. VarianceApplied'
    <3>1. ASSUME NEW k \in DOMAIN lines, lines'[k].resolution = "APPROVED"
          PROVE  \E i \in DOMAIN adjustments' : adjustments'[i].line = k
      <4>1. CASE k = l
        BY <2>3, <4>1
      <4>2. CASE k # l
        <5>1. lines[k].resolution = "APPROVED"
          BY <2>2, <3>1, <4>2
        <5>2. PICK i \in DOMAIN adjustments : adjustments[i].line = k
          BY <2>2, <3>1, <5>1 DEF TakeInv, VarianceApplied
        <5> QED BY <2>3, <5>2
      <4> QED BY <4>1, <4>2
    <3>2. ASSUME NEW i \in DOMAIN adjustments'
          PROVE  /\ lines'[adjustments'[i].line].resolution \in {"APPROVED", "REMOVED"}
                 /\ lines'[adjustments'[i].line].variance = adjustments'[i].delta
      <4>1. CASE i = n
        BY <2>2, <2>3, <4>1
      <4>2. CASE i \in DOMAIN adjustments
        BY <2>2, <2>3, <2>5, <4>2
      <4> QED BY <2>3, <4>1, <4>2
    <3> QED BY <2>2, <3>1, <3>2 DEF VarianceApplied
  <2>7. LineOnce'
    BY <2>3, <2>5 DEF TakeInv, LineOnce
  <2>8. StockExplained'
    <3> SUFFICES ASSUME NEW u \in Unit
                 PROVE  onHand'[u] = InitQty + moved[u] + AdjustedBy(u)'
      BY <1>2 DEF StockExplained
    <3> DEFINE f == [i \in DOMAIN adjustments |-> adjustments[i].delta]
               g == [i \in DOMAIN adjustments' |-> adjustments'[i].delta]
               S == {i \in DOMAIN adjustments : UnitOf(i) = u}
               T == {i \in DOMAIN adjustments' : UnitOf(i)' = u}
    <3>1. T = IF u = w THEN S \cup {n} ELSE S
      <4>1. \A i \in DOMAIN adjustments : UnitOf(i)' = UnitOf(i)
        BY <2>2, <2>3, <2>5 DEF UnitOf
      <4>2. UnitOf(n)' = w
        BY <2>2, <2>3 DEF UnitOf
      <4> QED BY <2>3, <4>1, <4>2
    <3>2. \A i \in S : f[i] \in Int /\ g[i] = f[i]
      BY <1>0, <2>3, AdjustmentTypes
    <3>3. IsFiniteSet(S) /\ n \notin S
      <4>1. S \subseteq DOMAIN adjustments
        OBVIOUS
      <4> HIDE DEF S
      <4> QED BY <1>0, <2>3, <4>1, AdjustmentsFinite
    <3>4. g[n] = d
      BY <2>3
    <3>5. /\ AdjustedBy(u) = SumFunctionOnSet(f, S) /\ AdjustedBy(u)' = SumFunctionOnSet(g, T)
          /\ onHand[u] = InitQty + moved[u] + AdjustedBy(u)
      BY DEF AdjustedBy, TakeInv, StockExplained
    <3> HIDE DEF f, g, S, T
    <3>6. SumFunctionOnSet(f, S) = SumFunctionOnSet(g, S) /\ SumFunctionOnSet(f, S) \in Int
      BY <3>2, <3>3, SumSame, SumType
    <3>7. SumFunctionOnSet(g, S \cup {n}) = g[n] + SumFunctionOnSet(g, S)
      BY <1>0, <3>2, <3>3, <3>4, SumAdd
    <3>8. moved[u] \in Int /\ onHand[u] \in Int /\ InitQty \in Int
      BY <1>0, QuantityAssumption DEF TypeOK
    <3>9. CASE u = w
      <4>1. AdjustedBy(u)' = d + AdjustedBy(u) /\ onHand'[u] = onHand[u] + d
        BY <2>4, <3>1, <3>4, <3>5, <3>6, <3>7, <3>9
      <4>2. d \in Int /\ AdjustedBy(u) \in Int
        BY <1>0, <3>5, <3>6
      <4> HIDE DEF d
      <4> QED BY <3>5, <3>8, <4>1, <4>2
    <3>10. CASE u # w
      BY <2>4, <3>1, <3>5, <3>6, <3>10
    <3> QED BY <3>9, <3>10
  <2> QED BY <1>2, <2>2, <2>3, <2>4, <2>6, <2>7, <2>8, Written DEF Resolve
<1> QED BY <1>1, <1>2 DEF Approve

-----------------------------------------------------------------------------
(* Steps without a session, and the invariant. *)

\* A new take has no line and no adjustment.
LEMMA CreateTakeKeeps == ASSUME TakeInv, NEW t \in Take, CreateTake(t) PROVE TakeInv'
<1>1. /\ status[t] = "ABSENT" /\ status' \in [Take -> Statuses] /\ status'[t] = "DRAFT"
      /\ \A s \in Take : s # t => status'[s] = status[s]
      /\ UNCHANGED <<lines, onHand, moved, adjustments, closings, takeLock, tx>>
  BY DEF CreateTake, TakeInv, TypeOK, Statuses
<1>2. ASSUME NEW p \in Proc PROVE AtWork(p)'
  <2>1. AtWork(p)
    BY DEF TakeInv
  <2>2. tx[p].pc \in Holding => status'[tx[p].take] = status[tx[p].take]
    BY <1>1, <2>1 DEF AtWork, Holding
  <2> QED BY <1>1, <2>1, <2>2 DEF AtWork, Holding
<1>3. TypeOK'
  BY <1>1 DEF TakeInv, TypeOK, TxOK, OnLines
<1>4. DraftUntouched'
  <2> SUFFICES ASSUME NEW l \in DOMAIN lines, status'[lines[l].take] \in {"ABSENT", "DRAFT"}
               PROVE  lines[l].variance = NONE /\ lines[l].resolution \in {"PENDING", "REMOVED"}
    BY <1>1 DEF DraftUntouched
  <2>1. lines[l].take \in Take
    BY LineTypes DEF TakeInv
  <2>2. status[lines[l].take] \in {"ABSENT", "DRAFT"}
    BY <1>1, <2>1
  <2> QED BY <2>2 DEF TakeInv, DraftUntouched
<1>5. Shaped' /\ UnitOnce' /\ VarianceApplied' /\ LineOnce' /\ StockExplained'
  BY <1>1 DEF TakeInv, Shaped, UnitOnce, SameUnit, VarianceApplied, LineOnce, StockExplained,
              AdjustedBy, UnitOf
<1> QED BY <1>2, <1>3, <1>4, <1>5 DEF TakeInv

\* A sale or a delivery moves the stock and nothing of the takes.
LEMMA MoveTake == ASSUME TakeInv, NEW u \in Unit, Move(u) PROVE TakeInv'
<1>1. PICK d \in {-1, 1} :
        /\ onHand[u] + d >= 0
        /\ onHand' = [onHand EXCEPT ![u] = @ + d] /\ moved' = [moved EXCEPT ![u] = @ + d]
        /\ UNCHANGED <<status, lines, adjustments, closings, takeLock, tx>>
  BY DEF Move
<1>2. onHand \in [Unit -> Nat] /\ moved \in [Unit -> Int]
  BY DEF TakeInv, TypeOK
<1>3. onHand' \in [Unit -> Nat] /\ moved' \in [Unit -> Int]
  BY <1>1, <1>2
<1>4. TypeOK'
  BY <1>1, <1>3 DEF TakeInv, TypeOK, TxOK, OnLines
<1>5. StockExplained'
  <2> SUFFICES ASSUME NEW v \in Unit PROVE onHand'[v] = InitQty + moved'[v] + AdjustedBy(v)
    BY <1>1 DEF StockExplained, AdjustedBy, UnitOf
  <2>1. onHand[v] = InitQty + moved[v] + AdjustedBy(v)
    BY DEF TakeInv, StockExplained
  <2>2. AdjustedBy(v) \in Int
    <3> DEFINE f == [i \in DOMAIN adjustments |-> adjustments[i].delta]
               S == {i \in DOMAIN adjustments : UnitOf(i) = v}
    <3>1. \A i \in S : f[i] \in Int
      BY AdjustmentTypes DEF TakeInv
    <3>2. IsFiniteSet(S)
      <4>1. TypeOK /\ S \subseteq DOMAIN adjustments
        BY DEF TakeInv
      <4> HIDE DEF S
      <4> QED BY <4>1, AdjustmentsFinite
    <3> HIDE DEF f, S
    <3>3. SumFunctionOnSet(f, S) \in Int
      BY <3>1, <3>2, SumType
    <3> QED BY <3>3 DEF AdjustedBy, f, S
  <2> QED BY <1>1, <1>2, <2>1, <2>2, QuantityAssumption
<1>6. /\ Shaped' /\ (\A p \in Proc : AtWork(p)')
      /\ DraftUntouched' /\ UnitOnce' /\ VarianceApplied' /\ LineOnce'
  BY <1>1 DEF TakeInv, Shaped, AtWork, DraftUntouched, UnitOnce, SameUnit, VarianceApplied, LineOnce
<1> QED BY <1>4, <1>5, <1>6 DEF TakeInv

\* The invariant holds before the first request.
LEMMA InitTake == Init => TakeInv
<1> SUFFICES ASSUME Init PROVE TakeInv
  OBVIOUS
<1>1. tx = [p \in Proc |-> IdleTx] /\ lines = <<>> /\ adjustments = <<>>
  BY DEF Init
<1>2. Shaped /\ \A p \in Proc : AtWork(p) /\ TxOK(tx[p])
  BY <1>1 DEF Shaped, IsSession, AtWork, Holding, IdleTx, TxOK, OnLines
<1>3. lines \in Seq(Line) /\ adjustments \in Seq([line : DOMAIN lines, delta : Int \ {0}])
  BY <1>1
<1>4. TypeOK
  BY <1>2, <1>3, QuantityAssumption DEF Init, TypeOK, Statuses
<1>5. DraftUntouched /\ UnitOnce /\ VarianceApplied /\ LineOnce
  BY <1>1 DEF DraftUntouched, UnitOnce, VarianceApplied, LineOnce
<1>6. StockExplained
  <2> SUFFICES ASSUME NEW u \in Unit PROVE onHand[u] = InitQty + moved[u] + AdjustedBy(u)
    BY DEF StockExplained
  <2> DEFINE f == [i \in DOMAIN adjustments |-> adjustments[i].delta]
  <2>1. {i \in DOMAIN adjustments : UnitOf(i) = u} = {}
    BY <1>1
  <2> HIDE DEF f
  <2>2. SumFunctionOnSet(f, {}) = 0
    BY SumStep, FS_EmptySet
  <2>3. AdjustedBy(u) = 0
    BY <2>1, <2>2 DEF AdjustedBy, f
  <2> QED BY <2>3, QuantityAssumption DEF Init
<1> QED BY <1>2, <1>4, <1>5, <1>6 DEF TakeInv

\* Every step keeps the invariant.
LEMMA NextTake == TakeInv /\ [Next]_vars => TakeInv'
<1> SUFFICES ASSUME TakeInv, [Next]_vars PROVE TakeInv'
  OBVIOUS
<1>1. CASE \E t \in Take : CreateTake(t)
  BY <1>1, CreateTakeKeeps
<1>2. CASE \E u \in Unit : Move(u)
  BY <1>2, MoveTake
<1>3. ASSUME NEW p \in Proc, Request(p) \/ Step(p) \/ Abort(p) PROVE TakeInv'
  BY <1>3, RequestTake, AddTake, EditTake, RemoveTake, FreezeTake, SubmitTake, ApproveTake,
     RejectTake, RefuseTake DEF Step, Abort
<1>4. CASE ShopIdle \/ UNCHANGED vars
  <2>1. UNCHANGED <<status, lines, onHand, moved, adjustments, closings, takeLock, tx>>
    BY <1>4 DEF ShopIdle, vars
  <2>2. TypeOK' /\ Shaped' /\ \A p \in Proc : AtWork(p)'
    BY <2>1 DEF TakeInv, TypeOK, TxOK, OnLines, Shaped, AtWork
  <2>3. DraftUntouched' /\ UnitOnce' /\ VarianceApplied' /\ LineOnce'
    BY <2>1 DEF TakeInv, DraftUntouched, UnitOnce, SameUnit, VarianceApplied, LineOnce
  <2>4. StockExplained'
    BY <2>1 DEF TakeInv, StockExplained, AdjustedBy, UnitOf
  <2> QED BY <2>2, <2>3, <2>4 DEF TakeInv
<1> QED BY <1>1, <1>2, <1>3, <1>4 DEF Next

\* The lines of a take stay what their handlers took them for: the invariant behind
\* VarianceOnce and OneWay.
THEOREM TakeHolds == Spec => []TakeInv
<1> QED BY InitTake, NextTake, PTL DEF Spec

\* A variance reaches the stock once, by the approval of its line, and a unit is
\* adjusted once by a take, whatever is added, removed, sold or bought meanwhile
\* (approve_line, apply_unit_stock_adjustment_core).
THEOREM VarianceOnce == Spec => []VariancePostedOnce
<1>1. TakeInv => VariancePostedOnce
  <2> SUFFICES ASSUME TakeInv PROVE AdjustedOncePerTake
    BY DEF VariancePostedOnce, TakeInv
  <2> SUFFICES ASSUME NEW i \in DOMAIN adjustments, NEW k \in DOMAIN adjustments,
                      lines[adjustments[i].line].take = lines[adjustments[k].line].take,
                      UnitOf(i) = UnitOf(k)
               PROVE  i = k
    BY DEF AdjustedOncePerTake
  <2>1. /\ adjustments[i].line \in DOMAIN lines /\ adjustments[k].line \in DOMAIN lines
        /\ adjustments[i].delta \in Int /\ adjustments[k].delta \in Int
    BY AdjustmentTypes DEF TakeInv
  <2>2. /\ lines[adjustments[i].line].variance # NONE /\ lines[adjustments[k].line].variance # NONE
    BY <2>1, NoneAssumption DEF TakeInv, VarianceApplied
  <2>3. adjustments[i].line = adjustments[k].line
    BY <2>1, <2>2 DEF TakeInv, UnitOnce, SameUnit, UnitOf
  <2> QED BY <2>3 DEF TakeInv, LineOnce
<1> QED BY <1>1, TakeHolds, PTL

-----------------------------------------------------------------------------
(* The course of a take. *)

\* What DecisionFinal and ClosesResolved say of a step.
DecisionKept == \A l \in DOMAIN lines :
  /\ lines[l].variance # NONE =>
       lines'[l].variance = lines[l].variance /\ lines'[l].expected = lines[l].expected
  /\ lines[l].resolution \in Resolved =>
       lines'[l].resolution \in {lines[l].resolution, "REMOVED"}

CloseKept == \A t \in Take :
  LET closing == status[t] # "CLOSED" /\ status'[t] = "CLOSED" IN
  /\ status[t] = "CLOSED" => status'[t] = "CLOSED"
  /\ closing => status[t] # "ABSENT" /\ PendingOf(lines', t) = {}
  /\ closings'[t] = closings[t] + (IF closing THEN 1 ELSE 0)

\* A step that closes nothing and leaves the lines' decisions.
LEMMA NoClosing ==
  ASSUME TakeInv, UNCHANGED <<status, closings>> \/ (\E t \in Take : CreateTake(t))
  PROVE  CloseKept
<1>1. closings' = closings /\ closings \in [Take -> Nat] /\ status \in [Take -> Statuses]
  BY DEF TakeInv, TypeOK, CreateTake
<1>2. \A t \in Take : status'[t] = "CLOSED" <=> status[t] = "CLOSED"
  BY <1>1 DEF CreateTake
<1> QED BY <1>1, <1>2 DEF CloseKept

\* Adding, counting and removing lines of a draft decides no line and closes no take.
LEMMA RowDecision ==
  ASSUME TakeInv, NEW p \in Proc, AddLine(p) \/ EditLine(p) \/ RemoveLine(p)
  PROVE  DecisionKept /\ CloseKept
<1>0. TypeOK /\ AtWork(p) /\ lines \in Seq(Line)
  BY DEF TakeInv, TypeOK
<1>1. CASE Refuse(p)
  BY <1>1, NoClosing DEF Refuse, DecisionKept
<1>2. CASE AddLine(p) /\ ~Refuse(p)
  <2>1. PICK r : r = NewLine(tx[p].take, tx[p].unit, tx[p].count)
    OBVIOUS
  <2>2. lines' = Append(lines, r) /\ UNCHANGED <<status, closings>>
    BY <1>2, <2>1 DEF AddLine
  <2>3. \A l \in DOMAIN lines : lines'[l] = lines[l]
    BY <1>0, <2>2
  <2> QED BY <2>2, <2>3, NoClosing DEF DecisionKept
<1>3. CASE EditLine(p) /\ ~Refuse(p)
  <2>1. lines' = [lines EXCEPT ![tx[p].line].counted = tx[p].count] /\ UNCHANGED <<status, closings>>
    BY <1>3 DEF EditLine
  <2>2. ASSUME NEW l \in DOMAIN lines
        PROVE  /\ lines'[l].variance = lines[l].variance /\ lines'[l].expected = lines[l].expected
               /\ lines'[l].resolution = lines[l].resolution
    <3>1. lines[l] \in Line
      BY <1>0, LineTypes
    <3> QED BY <2>1, <3>1 DEF Line
  <2> QED BY <2>1, <2>2, NoClosing DEF DecisionKept
<1>4. CASE RemoveLine(p)
  <2>1. lines' = [lines EXCEPT ![tx[p].line].resolution = "REMOVED"] /\ UNCHANGED <<status, closings>>
    BY <1>4 DEF RemoveLine
  <2>2. ASSUME NEW l \in DOMAIN lines
        PROVE  /\ lines'[l].variance = lines[l].variance /\ lines'[l].expected = lines[l].expected
               /\ lines'[l].resolution \in {lines[l].resolution, "REMOVED"}
    <3>1. lines[l] \in Line
      BY <1>0, LineTypes
    <3> QED BY <2>1, <3>1 DEF Line
  <2> QED BY <2>1, <2>2, NoClosing DEF DecisionKept
<1> QED BY <1>1, <1>2, <1>3, <1>4

\* The step of a take that may close it, by the holder of its row.
LEMMA MayClose ==
  ASSUME TakeInv, NEW t \in Take, NEW was, was # "CLOSED", was # "ABSENT",
         status[t] = was, CountClosing(t, was), NEW keep, keep # "CLOSED",
         status' = [status EXCEPT ![t] = IF Closes(lines', t) THEN "CLOSED" ELSE keep]
  PROVE  CloseKept
<1>1. closings \in [Take -> Nat] /\ status \in [Take -> Statuses]
  BY DEF TakeInv, TypeOK
<1>2. CASE Closes(lines', t)
  <2>1. closings' = [closings EXCEPT ![t] = @ + 1] /\ status' = [status EXCEPT ![t] = "CLOSED"]
    BY <1>2 DEF CountClosing
  <2>2. PendingOf(lines', t) = {}
    BY <1>2 DEF Closes
  <2> QED BY <1>1, <2>1, <2>2 DEF CloseKept
<1>3. CASE ~Closes(lines', t)
  <2>1. closings' = closings /\ status' = [status EXCEPT ![t] = keep]
    BY <1>3 DEF CountClosing
  <2> QED BY <1>1, <2>1 DEF CloseKept
<1> QED BY <1>2, <1>3

\* A submit moves a take forward only.
LEMMA SubmitDecision ==
  ASSUME TakeInv, NEW p \in Proc, Submit(p)
  PROVE  DecisionKept /\ CloseKept
<1> DEFINE t == tx[p].take
<1>1. t \in Take /\ status[t] = "DRAFT" /\ CountClosing(t, "DRAFT")
      /\ status' = [status EXCEPT ![t] = IF Closes(lines', t) THEN "CLOSED" ELSE "SUBMITTED"]
  BY DEF TakeInv, Submit, AtWork, Holding
<1>2. CloseKept
  BY <1>1, MayClose
<1>3. \A l \in DOMAIN lines : lines[l].take = t =>
        lines[l].variance = NONE /\ lines[l].resolution \notin Resolved
  BY <1>1 DEF TakeInv, DraftUntouched, Resolved
<1>4. \A l \in DOMAIN lines : l \notin DOMAIN tx[p].frozen => lines'[l] = lines[l]
  BY FrozenLines
<1>5. \A l \in DOMAIN tx[p].frozen : lines[l].take = t
  BY FrozenLines
<1> QED BY <1>2, <1>3, <1>4, <1>5 DEF DecisionKept

\* An approval or a rejection is of a take still submitted, and final.
LEMMA ResolveDecision ==
  ASSUME TakeInv, NEW p \in Proc, Approve(p) \/ Reject(p)
  PROVE  DecisionKept /\ CloseKept
<1> DEFINE t == tx[p].take
           l == tx[p].line
<1>1. CASE Refuse(p)
  BY <1>1, NoClosing DEF Refuse, DecisionKept
<1>2. ASSUME NEW how \in Resolved, Resolve(p, how), lines[l].resolution # "REMOVED",
             tx[p].pc \in {"approve", "reject"}
      PROVE  DecisionKept /\ CloseKept
  <2>1. /\ l \in DOMAIN lines /\ t \in Take /\ lines[l].resolution = "PENDING"
        /\ status[t] = "SUBMITTED"
        /\ \A k \in DOMAIN lines : k # l => lines'[k] = lines[k]
        /\ lines'[l].variance = lines[l].variance /\ lines'[l].expected = lines[l].expected
    BY <1>2, LineResolved
  <2>2. DecisionKept
    BY <2>1 DEF DecisionKept, Resolved
  <2>3. CountClosing(t, "SUBMITTED")
        /\ status' = [status EXCEPT ![t] = IF Closes(lines', t) THEN "CLOSED" ELSE "SUBMITTED"]
    BY <1>2, <2>1 DEF Resolve
  <2> QED BY <2>1, <2>2, <2>3, MayClose
<1>3. CASE ~Refuse(p)
  <2>1. lines[l].resolution # "REMOVED" /\ tx[p].pc \in {"approve", "reject"}
    BY <1>3 DEF Approve, Reject
  <2>2. Resolve(p, "APPROVED") \/ Resolve(p, "REJECTED")
    BY <1>3 DEF Approve, Reject
  <2> QED BY <1>2, <2>1, <2>2 DEF Resolved
<1> QED BY <1>1, <1>3

\* Every other step leaves the takes, or only begins one.
LEMMA NextDecision == TakeInv /\ [Next]_vars => DecisionKept /\ CloseKept
<1> SUFFICES ASSUME TakeInv, [Next]_vars PROVE DecisionKept /\ CloseKept
  OBVIOUS
<1>1. ASSUME lines' = lines,
             UNCHANGED <<status, closings>> \/ (\E t \in Take : CreateTake(t))
      PROVE  DecisionKept /\ CloseKept
  BY <1>1, NoClosing DEF DecisionKept
<1>2. CASE (\E t \in Take : CreateTake(t)) \/ (\E u \in Unit : Move(u)) \/ ShopIdle \/ UNCHANGED vars
  BY <1>1, <1>2 DEF CreateTake, Move, ShopIdle, vars
<1>3. ASSUME NEW p \in Proc, Request(p) \/ Abort(p) \/ Freeze(p) PROVE DecisionKept /\ CloseKept
  <2>1. lines' = lines /\ UNCHANGED <<status, closings>>
    BY <1>3 DEF Request, ReadAdd, ReadEdit, ReadRemove, BeginSubmit, BeginResolve, Begin, Abort,
                Refuse, Freeze
  <2> QED BY <1>1, <2>1
<1>4. ASSUME NEW p \in Proc, Step(p) PROVE DecisionKept /\ CloseKept
  BY <1>3, <1>4, RowDecision, SubmitDecision, ResolveDecision DEF Step
<1> QED BY <1>2, <1>3, <1>4 DEF Next

\* A take closes once, when all of its lines are resolved, and what was frozen or
\* decided on the way is never decided again, however approvers and late edits of its
\* lines interleave (submit_stock_take, _maybe_close_take).
THEOREM OneWay == Spec => TakeRunsOneWay
<1>1. TakeInv /\ [Next]_vars => [DecisionKept]_vars /\ [CloseKept]_vars
  BY NextDecision
<1>2. Spec => [][DecisionKept]_vars /\ [][CloseKept]_vars
  BY <1>1, TakeHolds, PTL DEF Spec
<1> QED BY <1>2 DEF TakeRunsOneWay, DecisionFinal, ClosesResolved, DecisionKept, CloseKept

-----------------------------------------------------------------------------
(* The invariant of the bank. *)

Hands == {"AUTO", "HAND"}

\* Requests so far, and those they met.
Made == [by : Hands \cup {None}, met : SUBSET Nat]
MadeOK == made \in Seq(Made)

\* Imported lines: those that are matched say by which request.
LinesOK ==
  /\ imported = [i \in DOMAIN imported |-> imported[i]] /\ DOMAIN imported \subseteq DOMAIN Statement
  /\ \A i \in DOMAIN imported :
       /\ imported[i] = [match |-> imported[i].match, rec |-> imported[i].rec, by |-> imported[i].by]
       /\ imported[i].match \in DOMAIN Booked \cup {None} /\ imported[i].rec \in DOMAIN recs \cup {None}
       /\ IF imported[i].match = None THEN imported[i].by = None
          ELSE imported[i].by \in DOMAIN made /\ made[imported[i].by].by \in Hands

Row == [day : Cutoffs, gl : Int, cleared : Int]
RecsOK ==
  /\ recs \in Seq(Row)
  /\ ledger \subseteq DOMAIN Booked

\* The last reconciliation has the lines to its day, unless some came late.
LastHasLines == Len(recs) # 0 /\ Len(recs) \notin late =>
  \A i \in DOMAIN imported : imported[i].rec = Len(recs) <=> Statement[i].day <= recs[Len(recs)].day

IsRequest(t) ==
  /\ t = [pc |-> t.pc, no |-> t.no, rec |-> t.rec, writes |-> t.writes, loaded |-> t.loaded,
          figures |-> t.figures, still |-> t.still]
  /\ t.pc \in {"read", "computed"} /\ t.rec \in DOMAIN recs
  /\ t.no \in DOMAIN made /\ t.still \in BOOLEAN
  /\ DOMAIN t.writes \subseteq DOMAIN imported /\ \A i \in DOMAIN t.writes : t.writes[i] \in DOMAIN Booked
  /\ made[t.no].by = None => DOMAIN t.writes = {}
  /\ t.loaded \in Row \cup {None}
  /\ t.pc = "computed" => t.loaded \in Row /\ t.figures.gl \in Int /\ t.figures.cleared \in Int

\* What request m chose fits, and only a request it met has cleared by it since.
ChoiceFree(w, m) ==
  \A i \in DOMAIN w :
    /\ Fits(i, w[i])
    /\ \A k \in DOMAIN w : w[i] = w[k] => k = i
    /\ \A k \in DOMAIN imported : ByAuto(k) /\ imported[k].match = w[i] => Overlapped(m, imported[k].by)

\* What a request read and computed is still so while nothing else happened.
Current(t) ==
  /\ t.pc = "read" => t.loaded \in {None, recs[t.rec]}
  /\ t.pc = "computed" => t.loaded = recs[t.rec] /\ t.figures = Figures(t.rec, Mine(t))

RequestOK(p) == req[p] # NoRequest =>
  /\ IsRequest(req[p])
  /\ made[req[p].no].by = "AUTO" => ChoiceFree(req[p].writes, req[p].no)
  /\ req[p].still => Current(req[p])

\* Requests in flight together have met, and disturbed each other.
Together == \A p, q \in Busy : p # q => Overlapped(req[p].no, req[q].no) /\ ~req[p].still

\* The figures are right that were just computed with nothing else in flight.
SureRight == sure # None =>
  /\ sure \in DOMAIN recs
  /\ recs[sure].gl = Figures(sure, imported).gl /\ recs[sure].cleared = Figures(sure, imported).cleared

\* An automatic match fits, and none but overlapping ones share an entry.
MatchesFit == \A i \in DOMAIN imported : ByAuto(i) =>
  /\ Fits(i, imported[i].match)
  /\ \A k \in DOMAIN imported \ {i} :
       ByAuto(k) /\ imported[i].match = imported[k].match => Overlapped(imported[i].by, imported[k].by)

BankInv ==
  /\ MadeOK /\ LinesOK /\ RecsOK /\ LastHasLines /\ SureRight /\ MatchesFit /\ Together
  /\ req = [p \in Staff |-> req[p]] /\ \A p \in Staff : RequestOK(p)

-----------------------------------------------------------------------------
(* Sums of amounts. *)

\* A sum of some amounts is a number.
LEMMA SumOf ==
  ASSUME NEW s, IsFiniteSet(DOMAIN s), \A i \in DOMAIN s : s[i].amount \in Int,
         NEW S, S \subseteq DOMAIN s
  PROVE  IsFiniteSet(S) /\ AmountIn(s, S) \in Int
<1> DEFINE f == [i \in DOMAIN s |-> s[i].amount]
<1>1. IsFiniteSet(S)
  BY FS_Subset
<1>2. \A i \in S : f[i] \in Int
  OBVIOUS
<1> HIDE DEF f
<1>3. SumFunctionOnSet(f, S) \in Int
  BY <1>1, <1>2, SumType
<1> QED BY <1>1, <1>3 DEF AmountIn, f

\* What two sets have in common cancels in the difference of their sums.
LEMMA SumDifference ==
  ASSUME NEW s, IsFiniteSet(DOMAIN s), \A i \in DOMAIN s : s[i].amount \in Int,
         NEW S, S \subseteq DOMAIN s, NEW T, T \subseteq DOMAIN s
  PROVE  AmountIn(s, S) - AmountIn(s, T) = AmountIn(s, S \ T) - AmountIn(s, T \ S)
<1>1. ASSUME NEW U, NEW V, U \subseteq DOMAIN s, V \subseteq DOMAIN s
      PROVE  AmountIn(s, U) = AmountIn(s, U \ V) + AmountIn(s, U \cap V)
  <2> DEFINE f == [i \in DOMAIN s |-> s[i].amount]
  <2>1. U = (U \ V) \cup (U \cap V) /\ (U \ V) \cap (U \cap V) = {}
    OBVIOUS
  <2>2. IsFiniteSet(U \ V) /\ IsFiniteSet(U \cap V)
    BY <1>1, FS_Subset
  <2>3. \A i \in (U \ V) \cup (U \cap V) : f[i] \in Int
    BY <1>1
  <2> HIDE DEF f
  <2>4. SumFunctionOnSet(f, (U \ V) \cup (U \cap V)) = SumFunctionOnSet(f, U \ V) + SumFunctionOnSet(f, U \cap V)
    BY <2>1, <2>2, <2>3, SumUnion
  <2> QED BY <2>1, <2>4 DEF AmountIn, f
<1>2. PICK a, b, c : a = AmountIn(s, S \ T) /\ b = AmountIn(s, T \ S) /\ c = AmountIn(s, S \cap T)
  OBVIOUS
<1>3. a \in Int /\ b \in Int /\ c \in Int
  BY <1>2, SumOf
<1>4. AmountIn(s, S) = a + c
  BY <1>1, <1>2
<1>5. AmountIn(s, T) = b + c
  <2>1. T \cap S = S \cap T
    OBVIOUS
  <2>2. AmountIn(s, T) = AmountIn(s, T \ S) + AmountIn(s, T \cap S)
    BY <1>1
  <2> QED BY <1>2, <2>1, <2>2
<1> QED BY <1>2, <1>3, <1>4, <1>5

\* Figures are numbers.
LEMMA FiguresType ==
  ASSUME ledger \subseteq DOMAIN Booked, NEW n, NEW seen, DOMAIN seen \subseteq DOMAIN Statement
  PROVE  Figures(n, seen).gl \in Int /\ Figures(n, seen).cleared \in Int
<1>1. AmountIn(Booked, UpTo(Booked, ledger, recs[n].day)) \in Int
  <2>1. UpTo(Booked, ledger, recs[n].day) \subseteq DOMAIN Booked
    BY DEF UpTo
  <2> QED BY <2>1, AmountAssumption, SumOf
<1>2. AmountIn(Statement, {i \in DOMAIN seen : seen[i].rec = n /\ seen[i].match # None}) \in Int
  <2>1. {i \in DOMAIN seen : seen[i].rec = n /\ seen[i].match # None} \subseteq DOMAIN Statement
    OBVIOUS
  <2> QED BY <2>1, AmountAssumption, SumOf
<1> QED BY <1>1, <1>2 DEF Figures

-----------------------------------------------------------------------------
(* What a step of one request, or of none, leaves of the others. *)

\* Requests are only added.
MadeKept == made' \in Seq(Made) /\ DOMAIN made \subseteq DOMAIN made' /\ \A n \in DOMAIN made : made'[n] = made[n]

\* A line is matched as it was, or not, or by a request that request m met.
MatchesKept(m) == \A i \in DOMAIN imported' :
  \/ i \in DOMAIN imported /\ imported'[i].match = imported[i].match /\ imported'[i].by = imported[i].by
  \/ imported'[i].by = None
  \/ imported'[i].by \in DOMAIN made /\ Overlapped(m, imported'[i].by)

\* A request goes on as it was; it is still undisturbed only if nothing changed.
Later(q) ==
  \/ req'[q] = NoRequest
  \/ /\ req[q] # NoRequest
     /\ \E s \in BOOLEAN :
          /\ req'[q] = [req[q] EXCEPT !.still = s]
          /\ s => req[q].still /\ UNCHANGED <<ledger, imported, recs>>
     /\ MatchesKept(req[q].no)

\* Lines and reconciliations are never taken away.
Grows == DOMAIN recs \subseteq DOMAIN recs' /\ DOMAIN imported \subseteq DOMAIN imported' /\ MadeKept

\* A request in flight is not idle.
LEMMA InFlight == ASSUME NEW t, t.pc \in {"read", "computed"} PROVE t # NoRequest
BY DEF NoRequest

\* Two requests have met after the step.
OverlappedNow(m, n) == m \in made'[n].met \/ n \in made'[m].met

\* Who has met stays so.
LEMMA MetStays ==
  ASSUME MadeKept, NEW m \in DOMAIN made, NEW n \in DOMAIN made
  PROVE  OverlappedNow(m, n) <=> Overlapped(m, n)
BY DEF MadeKept, Overlapped, OverlappedNow

\* What an automatic match chose is cleared by no other but those it met.
LEMMA ChoiceStays ==
  ASSUME LinesOK, MadeKept, NEW m \in DOMAIN made, NEW w, ChoiceFree(w, m), MatchesKept(m)
  PROVE  ChoiceFree(w, m)'
<1> SUFFICES ASSUME NEW i \in DOMAIN w
             PROVE  /\ Fits(i, w[i])' /\ \A k \in DOMAIN w : w[i] = w[k] => k = i
                    /\ \A k \in DOMAIN imported' :
                         ByAuto(k)' /\ imported'[k].match = w[i] => OverlappedNow(m, imported'[k].by)
  BY DEF ChoiceFree, Overlapped, OverlappedNow
<1>1. /\ Fits(i, w[i]) /\ \A k \in DOMAIN w : w[i] = w[k] => k = i
      /\ \A k \in DOMAIN imported : ByAuto(k) /\ imported[k].match = w[i] => Overlapped(m, imported[k].by)
  BY DEF ChoiceFree
<1>2. Fits(i, w[i])'
  BY <1>1 DEF Fits, Size, InWindow, Debit, Credit
<1>3. ASSUME NEW k \in DOMAIN imported', ByAuto(k)', imported'[k].match = w[i]
      PROVE  OverlappedNow(m, imported'[k].by)
  <2>1. CASE k \in DOMAIN imported /\ imported'[k].match = imported[k].match /\ imported'[k].by = imported[k].by
    <3>1. imported[k].by # None /\ imported[k].by \in DOMAIN made
      BY <1>3, <2>1 DEF ByAuto, LinesOK
    <3>2. ByAuto(k)
      BY <1>3, <2>1, <3>1 DEF ByAuto, MadeKept
    <3>3. Overlapped(m, imported[k].by)
      BY <1>1, <1>3, <2>1, <3>2
    <3> QED BY <2>1, <3>1, <3>3, MetStays
  <2>2. CASE imported'[k].by = None
    BY <1>3, <2>2 DEF ByAuto
  <2>3. CASE imported'[k].by \in DOMAIN made /\ Overlapped(m, imported'[k].by)
    BY <2>3, MetStays
  <2> QED BY <2>1, <2>2, <2>3 DEF MatchesKept
<1> QED BY <1>1, <1>2, <1>3

\* What was read and computed stays so while nothing happens.
LEMMA CurrentStays ==
  ASSUME NEW t, Current(t), UNCHANGED <<ledger, imported, recs>>
  PROVE  Current(t)'
BY DEF Current, Figures, Mine, UpTo

\* A request that goes on is sound.
LEMMA LaterOK ==
  ASSUME BankInv, NEW q \in Staff, Later(q), Grows
  PROVE  RequestOK(q)'
<1>1. CASE req'[q] = NoRequest
  BY <1>1 DEF RequestOK
<1>2. CASE req'[q] # NoRequest
  <2>1. PICK t : t = req[q]
    OBVIOUS
  <2>2. PICK s \in BOOLEAN :
          /\ req'[q] = [t EXCEPT !.still = s] /\ t # NoRequest /\ MatchesKept(t.no)
          /\ s => t.still /\ UNCHANGED <<ledger, imported, recs>>
    BY <1>2, <2>1 DEF Later
  <2>3. IsRequest(t) /\ (made[t.no].by = "AUTO" => ChoiceFree(t.writes, t.no)) /\ (t.still => Current(t))
    BY <2>1, <2>2 DEF BankInv, RequestOK
  <2>4. PICK u : u = [t EXCEPT !.still = s]
    OBVIOUS
  <2>5. /\ u = [pc |-> u.pc, no |-> u.no, rec |-> u.rec, writes |-> u.writes, loaded |-> u.loaded,
               figures |-> u.figures, still |-> u.still]
        /\ u.pc = t.pc /\ u.rec = t.rec /\ u.writes = t.writes /\ u.no = t.no /\ u.loaded = t.loaded
        /\ u.figures = t.figures /\ u.still = s
    BY <2>3, <2>4 DEF IsRequest
  <2>6. t.no \in DOMAIN made /\ made'[t.no] = made[t.no] /\ MadeKept /\ t.no \in DOMAIN made'
    BY <2>3 DEF IsRequest, Grows, MadeKept
  <2>7. IsRequest(u)'
    BY <2>2, <2>3, <2>5, <2>6 DEF IsRequest, Grows
  <2>8. made'[u.no].by = "AUTO" => ChoiceFree(u.writes, u.no)'
    <3> SUFFICES ASSUME made'[u.no].by = "AUTO" PROVE ChoiceFree(u.writes, u.no)'
      OBVIOUS
    <3>1. LinesOK /\ ChoiceFree(t.writes, t.no)
      BY <2>3, <2>5, <2>6 DEF BankInv
    <3>2. ChoiceFree(t.writes, t.no)'
      BY <2>2, <2>6, <3>1, ChoiceStays
    <3> QED BY <2>5, <3>2 DEF ChoiceFree
  <2>9. u.still => Current(u)'
    <3> SUFFICES ASSUME u.still PROVE Current(u)'
      OBVIOUS
    <3>1. Current(t)'
      BY <2>2, <2>3, <2>5, CurrentStays
    <3> QED BY <2>5, <3>1 DEF Current, Mine
  <2>10. req'[q] = u
    BY <2>2, <2>4
  <2> QED BY <2>7, <2>8, <2>9, <2>10 DEF RequestOK
<1> QED BY <1>1, <1>2

\* Requests that go on have met.
LEMMA TogetherStays ==
  ASSUME BankInv, \A q \in Staff : Later(q), MadeKept
  PROVE  Together'
<1> SUFFICES ASSUME NEW p \in Busy', NEW q \in Busy', p # q
             PROVE  OverlappedNow(req'[p].no, req'[q].no) /\ ~req'[p].still
  BY DEF Together, Overlapped, OverlappedNow
<1>1. ASSUME NEW r \in Busy'
      PROVE  /\ r \in Busy /\ req'[r].no = req[r].no /\ req[r].no \in DOMAIN made
             /\ req'[r].still => req[r].still
  <2>1. r \in Staff /\ req'[r] # NoRequest
    BY <1>1 DEF Busy
  <2>2. PICK t : t = req[r]
    OBVIOUS
  <2>3. PICK s \in BOOLEAN : req'[r] = [t EXCEPT !.still = s] /\ t # NoRequest /\ (s => t.still)
    BY <2>1, <2>2 DEF Later
  <2>4. IsRequest(t)
    BY <2>1, <2>2, <2>3 DEF BankInv, RequestOK
  <2>5. [t EXCEPT !.still = s].no = t.no /\ [t EXCEPT !.still = s].still = s
    BY <2>4 DEF IsRequest
  <2> QED BY <2>1, <2>2, <2>3, <2>4, <2>5 DEF Busy, IsRequest
<1>2. Overlapped(req[p].no, req[q].no) /\ ~req[p].still
  BY <1>1 DEF BankInv, Together
<1> QED BY <1>1, <1>2, MetStays

\* Requests in flight when something else happens.
LEMMA DisturbedLater ==
  ASSUME BankInv, req' = Disturbed, \A m : MatchesKept(m), NEW q \in Staff
  PROVE  Later(q)
<1>1. CASE req[q] = NoRequest
  BY <1>1 DEF Later, Disturbed
<1>2. CASE req[q] # NoRequest
  <2>1. req'[q] = [req[q] EXCEPT !.still = FALSE]
    BY <1>2 DEF Disturbed
  <2> QED BY <1>2, <2>1 DEF Later
<1> QED BY <1>1, <1>2

\* A step that is none of a request leaves those in flight sound.
LEMMA RequestsDisturbed ==
  ASSUME BankInv, req' = Disturbed, \A m : MatchesKept(m), Grows
  PROVE  /\ \A q \in Staff : RequestOK(q)'
         /\ Together' /\ req' = [q \in Staff |-> req'[q]]
<1>1. \A q \in Staff : Later(q)
  BY DisturbedLater
<1>2. \A q \in Staff : RequestOK(q)'
  BY <1>1, LaterOK
<1>3. Together'
  BY <1>1, TogetherStays DEF Grows
<1> QED BY <1>2, <1>3 DEF Disturbed

-----------------------------------------------------------------------------
(* Posting, importing and starting. *)

\* Lines and reconciliations left alone stay sound.
LEMMA LinesKept ==
  ASSUME BankInv, UNCHANGED <<imported, recs>>, late \subseteq late', MadeKept
  PROVE  MadeOK' /\ LinesOK' /\ LastHasLines' /\ MatchesFit'
<1>1. LinesOK' /\ LastHasLines' /\ MadeOK'
  BY DEF BankInv, LinesOK, LastHasLines, MadeOK, MadeKept
<1>2. \A i \in DOMAIN imported : ByAuto(i)' => ByAuto(i) /\ imported[i].by \in DOMAIN made
  BY DEF BankInv, LinesOK, ByAuto, MadeKept
<1>3. MatchesFit'
  <2> SUFFICES ASSUME NEW i \in DOMAIN imported, ByAuto(i)'
               PROVE  /\ Fits(i, imported[i].match)'
                      /\ \A k \in DOMAIN imported \ {i} :
                           ByAuto(k)' /\ imported[i].match = imported[k].match => OverlappedNow(imported[i].by, imported[k].by)
    BY DEF MatchesFit, Overlapped, OverlappedNow
  <2>1. Fits(i, imported[i].match)'
    BY <1>2 DEF BankInv, MatchesFit, Fits, Size, InWindow, Debit, Credit
  <2>2. ASSUME NEW k \in DOMAIN imported \ {i}, ByAuto(k)', imported[i].match = imported[k].match
        PROVE  OverlappedNow(imported[i].by, imported[k].by)
    <3>1. Overlapped(imported[i].by, imported[k].by)
      BY <1>2, <2>2 DEF BankInv, MatchesFit
    <3> QED BY <1>2, <2>2, <3>1, MetStays
  <2> QED BY <2>1, <2>2
<1> QED BY <1>1, <1>3

\* Posting an entry.
LEMMA PostEntryOK == ASSUME BankInv, NEW l \in DOMAIN Booked, PostEntry(l) PROVE BankInv'
<1>1. MadeKept /\ UNCHANGED <<imported, recs, late>> /\ req' = Disturbed
  BY DEF PostEntry, MadeKept, BankInv, MadeOK
<1>2. MadeOK' /\ LinesOK' /\ LastHasLines' /\ MatchesFit'
  BY <1>1, LinesKept
<1>3. RecsOK' /\ SureRight'
  BY DEF PostEntry, BankInv, RecsOK, SureRight
<1>4. \A m : MatchesKept(m)
  BY <1>1 DEF MatchesKept
<1>5. Grows
  BY <1>1 DEF Grows
<1>6. (\A q \in Staff : RequestOK(q)') /\ Together' /\ req' = [q \in Staff |-> req'[q]]
  BY <1>1, <1>4, <1>5, RequestsDisturbed
<1> QED BY <1>2, <1>3, <1>6 DEF BankInv

\* Importing a line.
LEMMA ImportOK == ASSUME BankInv, NEW i \in DOMAIN Statement, Import(i) PROVE BankInv'
<1>1. /\ i \notin DOMAIN imported /\ DOMAIN imported' = DOMAIN imported \cup {i}
      /\ imported'[i] = [match |-> None, rec |-> None, by |-> None]
      /\ \A k \in DOMAIN imported : imported'[k] = imported[k]
      /\ imported' = [k \in DOMAIN imported' |-> imported'[k]]
  BY DEF Import
<1>2. LinesOK /\ recs' = recs /\ ledger' = ledger /\ made' = made
  BY DEF BankInv, Import
<1>3. LinesOK' /\ MadeOK'
  BY <1>1, <1>2 DEF LinesOK, BankInv, MadeOK
<1>4. LastHasLines'
  <2> SUFFICES ASSUME Len(recs) # 0, Len(recs) \notin late', NEW k \in DOMAIN imported'
               PROVE  imported'[k].rec = Len(recs) <=> Statement[k].day <= recs[Len(recs)].day
    BY <1>2 DEF LastHasLines
  <2>1. Len(recs) \in DOMAIN recs /\ Len(recs) \in Nat
    BY DEF BankInv, RecsOK
  <2>2. CASE k = i
    <3>1. imported'[k].rec # Len(recs)
      BY <1>1, <2>1, <2>2, NoMatchAssumption
    <3>2. ~(Statement[i].day <= recs[Len(recs)].day)
      BY <2>1 DEF Import
    <3> QED BY <2>2, <3>1, <3>2
  <2>3. CASE k # i
    BY <1>1, <2>3 DEF BankInv, LastHasLines, Import
  <2> QED BY <2>2, <2>3
<1>5. MatchesFit'
  <2>1. \A k \in DOMAIN imported' : ByAuto(k)' => k \in DOMAIN imported /\ ByAuto(k) /\ imported'[k] = imported[k]
    BY <1>1, <1>2 DEF ByAuto
  <2>2. ASSUME NEW k \in DOMAIN imported PROVE Fits(k, imported[k].match)' <=> Fits(k, imported'[k].match)
    BY <1>1 DEF Fits, Size, InWindow, Debit, Credit
  <2> QED BY <1>1, <1>2, <2>1, <2>2 DEF BankInv, MatchesFit, Overlapped, Fits, Size, InWindow, Debit, Credit
<1>6. RecsOK' /\ SureRight'
  BY DEF Import, BankInv, RecsOK, SureRight
<1>7. (\A m : MatchesKept(m)) /\ req' = Disturbed
  BY <1>1, <1>2 DEF Import, MatchesKept
<1>8. Grows
  BY <1>1, <1>2 DEF Grows, MadeKept, BankInv, MadeOK
<1>9. (\A q \in Staff : RequestOK(q)') /\ Together' /\ req' = [q \in Staff |-> req'[q]]
  BY <1>7, <1>8, RequestsDisturbed
<1> QED BY <1>3, <1>4, <1>5, <1>6, <1>9 DEF BankInv

\* A row of a new reconciliation.
LEMMA StartRow ==
  ASSUME BankInv, NEW day \in Cutoffs
  PROVE  [day |-> day, gl |-> AmountIn(Booked, UpTo(Booked, ledger, day)),
          cleared |-> AmountIn(Statement, {i \in Claimed(day) : imported[i].match # None})] \in Row
<1>1. UpTo(Booked, ledger, day) \subseteq DOMAIN Booked
  BY DEF BankInv, RecsOK, UpTo
<1>2. AmountIn(Booked, UpTo(Booked, ledger, day)) \in Int
  BY <1>1, AmountAssumption, SumOf
<1>3. {i \in Claimed(day) : imported[i].match # None} \subseteq DOMAIN Statement
  BY DEF BankInv, LinesOK, Claimed, UpTo
<1>4. AmountIn(Statement, {i \in Claimed(day) : imported[i].match # None}) \in Int
  BY <1>3, AmountAssumption, SumOf
<1> QED BY <1>2, <1>4 DEF Row

\* Starting a reconciliation.
LEMMA StartOK == ASSUME BankInv, NEW day \in Cutoffs, Start(day) PROVE BankInv'
<1>1. PICK n : n = Len(recs) + 1
  OBVIOUS
<1>2. PICK row : row = [day |-> day, gl |-> AmountIn(Booked, UpTo(Booked, ledger, day)),
                        cleared |-> AmountIn(Statement, {i \in Claimed(day) : imported[i].match # None})]
  OBVIOUS
<1>3. recs' = Append(recs, row) /\ recs \in Seq(Row) /\ row \in Row /\ row.day = day
  BY <1>2, StartRow DEF BankInv, RecsOK, Start
<1>4. /\ n \in Nat \ {0} /\ Len(recs') = n /\ DOMAIN recs' = DOMAIN recs \cup {n} /\ n \notin DOMAIN recs
      /\ recs'[n] = row /\ recs' \in Seq(Row)
  BY <1>1, <1>3
<1>5. /\ DOMAIN imported' = DOMAIN imported /\ imported' = [i \in DOMAIN imported' |-> imported'[i]]
      /\ \A i \in DOMAIN imported : imported'[i] = IF i \in Claimed(day) THEN [imported[i] EXCEPT !.rec = n] ELSE imported[i]
  BY <1>1 DEF Start
<1>6. LinesOK /\ made' = made
  BY DEF BankInv, Start
<1>7. \A i \in DOMAIN imported :
        /\ imported'[i] = [match |-> imported'[i].match, rec |-> imported'[i].rec, by |-> imported'[i].by]
        /\ imported'[i].match = imported[i].match /\ imported'[i].by = imported[i].by
        /\ imported'[i].rec = IF i \in Claimed(day) THEN n ELSE imported[i].rec
  BY <1>5, <1>6 DEF LinesOK
<1>8. LinesOK' /\ MadeOK'
  BY <1>4, <1>5, <1>6, <1>7 DEF LinesOK, BankInv, MadeOK
<1>9. ASSUME NEW i \in DOMAIN imported
      PROVE  imported'[i].rec = n <=> Statement[i].day <= day
  <2>1. imported[i].rec # n
    BY <1>4, <1>6, NoMatchAssumption DEF LinesOK
  <2>2. i \in Claimed(day) <=> Statement[i].day <= day
    BY DEF Claimed, UpTo
  <2> QED BY <1>7, <2>1, <2>2
<1>10. LastHasLines'
  BY <1>3, <1>4, <1>5, <1>9 DEF LastHasLines
<1>11. RecsOK'
  BY <1>4 DEF BankInv, RecsOK, Start
<1>12. MatchesFit'
  BY <1>5, <1>6, <1>7 DEF BankInv, MatchesFit, ByAuto, Overlapped, Fits, Size, InWindow, Debit, Credit
<1>13. SureRight'
  <2>1. {i \in DOMAIN imported' : imported'[i].rec = n /\ imported'[i].match # None}
          = {i \in Claimed(day) : imported[i].match # None}
    BY <1>5, <1>7, <1>9 DEF Claimed, UpTo
  <2>2. sure' = n /\ ledger' = ledger
    BY <1>1 DEF Start
  <2>3. Figures(n, imported)'.cleared = row.cleared
    BY <1>2, <2>1 DEF Figures
  <2>4. Figures(n, imported)'.gl = row.gl
    BY <1>2, <1>3, <1>4, <2>2 DEF Figures
  <2> QED BY <1>4, <2>2, <2>3, <2>4 DEF SureRight
<1>14. (\A m : MatchesKept(m)) /\ req' = Disturbed
  BY <1>5, <1>7 DEF Start, MatchesKept
<1>15. Grows
  BY <1>4, <1>5, <1>6 DEF Grows, MadeKept, BankInv, MadeOK
<1>16. (\A q \in Staff : RequestOK(q)') /\ Together' /\ req' = [q \in Staff |-> req'[q]]
  BY <1>14, <1>15, RequestsDisturbed
<1> QED BY <1>8, <1>10, <1>11, <1>12, <1>13, <1>16 DEF BankInv

-----------------------------------------------------------------------------
(* The requests. *)

\* A step that changes no table leaves the tables sound.
LEMMA TablesKept ==
  ASSUME BankInv, UNCHANGED <<ledger, imported, recs, late>>, sure' \in {sure, None}, MadeKept,
         req' = [q \in Staff |-> req'[q]], \A q \in Staff : RequestOK(q)', Together'
  PROVE  BankInv'
<1>1. MadeOK' /\ LinesOK' /\ LastHasLines' /\ MatchesFit'
  BY LinesKept
<1>2. RecsOK' /\ SureRight'
  <2>1. \A n : Figures(n, imported)' = Figures(n, imported)
    BY DEF Figures, UpTo
  <2> QED BY <2>1 DEF BankInv, RecsOK, SureRight
<1> QED BY <1>1, <1>2 DEF BankInv

\* What a request that begins may carry.
Carries(n, writes, by, loaded) ==
  /\ n \in DOMAIN recs /\ loaded \in {None, recs[n]}
  /\ DOMAIN writes \subseteq DOMAIN imported /\ \A i \in DOMAIN writes : writes[i] \in DOMAIN Booked
  /\ by \in {"AUTO", "HAND", None} /\ (by = None => DOMAIN writes = {})
  /\ by = "AUTO" => \A i \in DOMAIN writes :
       Fits(i, writes[i]) /\ Uncleared(writes[i]) /\ \A k \in DOMAIN writes : writes[i] = writes[k] => k = i

\* A request that begins is sound, and has met those in flight.
LEMMA BeginRequestOK ==
  ASSUME BankInv, NEW p \in Staff, NEW n, NEW writes, NEW by, NEW loaded,
         Carries(n, writes, by, loaded), BeginRequest(p, n, writes, by, loaded)
  PROVE  BankInv'
<1>1. PICK m : m = Len(made) + 1
  OBVIOUS
<1>2. PICK t : t = [pc |-> "read", no |-> m, rec |-> n, writes |-> writes, loaded |-> loaded,
                    figures |-> None, still |-> Busy = {}]
  OBVIOUS
<1>3. PICK new : new = [by |-> by, met |-> {req[q].no : q \in Busy}]
  OBVIOUS
<1>4. \A q \in Busy : q \in Staff /\ IsRequest(req[q]) /\ req[q].no \in DOMAIN made
  BY DEF Busy, BankInv, RequestOK, IsRequest
<1>5. made \in Seq(Made) /\ made' = Append(made, new)
  BY <1>3 DEF BeginRequest, BankInv, MadeOK
<1>6. new \in Made /\ new.by = by /\ new.met = {req[q].no : q \in Busy}
  <2>1. \A q \in Busy : req[q].no \in Nat
    BY <1>4, <1>5
  <2> QED BY <1>3, <2>1 DEF Made, Carries, Hands
<1>7. MadeKept /\ m \in DOMAIN made' /\ made'[m] = new /\ m \notin DOMAIN made
  BY <1>1, <1>5, <1>6 DEF MadeKept
<1>8. /\ req' = [q \in Staff |-> req'[q]] /\ req'[p] = t /\ req[p] = NoRequest
      /\ \A q \in Staff \ {p} : req'[q] = Disturbed[q]
  BY <1>1, <1>2 DEF BeginRequest, Disturbed
<1>9. UNCHANGED <<ledger, imported, recs, late>> /\ sure' = None
  BY DEF BeginRequest
<1>10. \A q \in Staff \ {p} : IF req[q] = NoRequest THEN req'[q] = NoRequest
                             ELSE req'[q] = [req[q] EXCEPT !.still = FALSE] /\ req'[q] # NoRequest
                                  /\ req'[q].no = req[q].no /\ ~req'[q].still
  <2> SUFFICES ASSUME NEW q \in Staff \ {p}, req[q] # NoRequest
               PROVE  /\ req'[q] = [req[q] EXCEPT !.still = FALSE] /\ req'[q] # NoRequest
                      /\ req'[q].no = req[q].no /\ ~req'[q].still
    BY <1>8 DEF Disturbed
  <2>1. PICK u : u = req[q]
    OBVIOUS
  <2>2. IsRequest(u)
    BY <1>4, <2>1 DEF Busy
  <2>3. PICK v : v = [u EXCEPT !.still = FALSE]
    OBVIOUS
  <2>4. v.no = u.no /\ v.pc = u.pc /\ ~v.still
    BY <2>2, <2>3 DEF IsRequest
  <2>5. v # NoRequest
    BY <2>2, <2>4, InFlight DEF IsRequest
  <2>6. req'[q] = v
    BY <1>8, <2>1, <2>3 DEF Disturbed
  <2> QED BY <2>1, <2>3, <2>4, <2>5, <2>6
<1>11. ASSUME NEW q \in Staff, q # p PROVE RequestOK(q)'
  <2>1. \A k : MatchesKept(k)
    BY <1>9 DEF MatchesKept
  <2>2. Later(q)
    BY <1>10, <1>11, <2>1 DEF Later
  <2>3. Grows
    BY <1>7, <1>9 DEF Grows
  <2> QED BY <2>2, <2>3, LaterOK
<1>12. RequestOK(p)'
  <2>1. t.no = m /\ t.still \in BOOLEAN /\ t.pc = "read" /\ t.rec = n /\ t.writes = writes /\ t.loaded = loaded
    BY <1>2
  <2>2. loaded \in Row \cup {None} /\ n \in DOMAIN recs
    BY DEF Carries, BankInv, RecsOK
  <2>3. made'[m].by = by
    BY <1>6, <1>7
  <2>4. /\ t = [pc |-> t.pc, no |-> t.no, rec |-> t.rec, writes |-> t.writes, loaded |-> t.loaded,
               figures |-> t.figures, still |-> t.still]
    BY <1>2
  <2>5. IsRequest(t)'
    BY <1>7, <1>9, <2>1, <2>2, <2>3, <2>4 DEF IsRequest, Carries
  <2>6. by = "AUTO" => ChoiceFree(writes, m)'
    <3> SUFFICES ASSUME by = "AUTO", NEW i \in DOMAIN writes
                 PROVE  /\ Fits(i, writes[i])' /\ \A k \in DOMAIN writes : writes[i] = writes[k] => k = i
                        /\ \A k \in DOMAIN imported' : imported'[k].match # writes[i]
      BY DEF ChoiceFree
    <3>1. Fits(i, writes[i]) /\ Uncleared(writes[i]) /\ \A k \in DOMAIN writes : writes[i] = writes[k] => k = i
      BY DEF Carries
    <3> QED BY <1>9, <3>1 DEF Uncleared, Fits, Size, InWindow, Debit, Credit
  <2>7. Current(t)'
    BY <1>9, <2>1 DEF Carries, Current
  <2> QED BY <1>8, <2>1, <2>3, <2>5, <2>6, <2>7 DEF RequestOK
<1>13. Together'
  <2>1. ASSUME NEW q \in Busy', q # p
        PROVE  q \in Busy /\ req'[q].no = req[q].no /\ req[q].no \in DOMAIN made /\ ~req'[q].still
    BY <1>4, <1>10, <2>1 DEF Busy
  <2>2. ASSUME NEW q \in Busy', q # p
        PROVE  OverlappedNow(req'[p].no, req'[q].no) /\ OverlappedNow(req'[q].no, req'[p].no) /\ ~req'[p].still
    <3>1. req'[p].no = m /\ (req'[p].still => Busy = {})
      <4>1. t.no = m /\ (t.still <=> Busy = {})
        BY <1>2
      <4> QED BY <1>8, <4>1
    <3>2. req'[q].no \in made'[m].met
      BY <1>6, <1>7, <2>1, <2>2
    <3> QED BY <2>1, <2>2, <3>1, <3>2 DEF OverlappedNow
  <2>3. ASSUME NEW q \in Busy', NEW r \in Busy', q # r, q # p, r # p
        PROVE  OverlappedNow(req'[q].no, req'[r].no)
    <3>1. q \in Busy /\ r \in Busy /\ req'[q].no = req[q].no /\ req'[r].no = req[r].no
          /\ req[q].no \in DOMAIN made /\ req[r].no \in DOMAIN made
      BY <2>1, <2>3
    <3>2. Overlapped(req[q].no, req[r].no)
      BY <2>3, <3>1 DEF BankInv, Together
    <3> QED BY <1>7, <3>1, <3>2, MetStays
  <2> QED BY <2>1, <2>2, <2>3 DEF Together, Overlapped, OverlappedNow
<1> QED BY <1>7, <1>8, <1>9, <1>11, <1>12, <1>13, TablesKept

\* The requests that begin.
LEMMA RequestBegins ==
  ASSUME BankInv, NEW p \in Staff, NEW n \in DOMAIN recs,
         \/ Look(p, n) \/ AutoMatch(p, n)
         \/ \E i \in DOMAIN imported, l \in ledger : MatchByHand(p, n, i, l)
  PROVE  BankInv'
<1>1. ledger \subseteq DOMAIN Booked
  BY DEF BankInv, RecsOK
<1>2. CASE Look(p, n)
  <2>1. Carries(n, <<>>, None, None)
    BY NoMatchAssumption DEF Carries
  <2> QED BY <1>2, <2>1, BeginRequestOK DEF Look
<1>3. CASE AutoMatch(p, n)
  <2>1. PICK s \in Suggestions : BeginRequest(p, n, s, "AUTO", recs[n])
    BY <1>3 DEF AutoMatch
  <2>2. PICK S \in SUBSET Unmatched : s \in [S -> Free]
    BY <2>1 DEF Suggestions
  <2>3. \A i \in DOMAIN s : Fits(i, s[i]) /\ \A k \in DOMAIN s : s[i] = s[k] => i = k
    BY <2>1 DEF Suggestions
  <2>4. DOMAIN s \subseteq DOMAIN imported /\ \A i \in DOMAIN s :
          s[i] \in ledger /\ Uncleared(s[i]) /\ imported[i].match = None
    BY <2>2 DEF Unmatched, Free
  <2>5. Carries(n, s, "AUTO", recs[n])
    BY <1>1, <2>3, <2>4, NoMatchAssumption DEF Carries
  <2> QED BY <2>1, <2>5, BeginRequestOK
<1>4. ASSUME NEW i \in DOMAIN imported, NEW l \in ledger, MatchByHand(p, n, i, l) PROVE BankInv'
  <2>1. PICK w : w = IF imported[i].match = l THEN <<>> ELSE [k \in {i} |-> l]
    OBVIOUS
  <2>2. DOMAIN w \subseteq {i} /\ \A k \in DOMAIN w : w[k] = l
    BY <2>1
  <2>3. Carries(n, w, "HAND", None)
    BY <1>1, <2>2, NoMatchAssumption DEF Carries
  <2> QED BY <1>4, <2>1, <2>3, BeginRequestOK DEF MatchByHand
<1> QED BY <1>2, <1>3, <1>4

\* A step of one request that changes no table leaves the others.
LEMMA OthersGoOn ==
  ASSUME BankInv, NEW p \in Staff, NEW t, req' = [req EXCEPT ![p] = t],
         t = NoRequest \/ (req[p] # NoRequest /\ t.no = req[p].no /\ (t.still => req[p].still)),
         UNCHANGED <<ledger, imported, recs, made>>
  PROVE  (\A q \in Staff \ {p} : RequestOK(q)') /\ Together' /\ MadeKept /\ req' = [q \in Staff |-> req'[q]]
<1>1. MadeKept /\ Grows /\ \A k : MatchesKept(k)
  BY DEF MadeKept, Grows, MatchesKept, BankInv, MadeOK
<1>2. ASSUME NEW q \in Staff \ {p} PROVE RequestOK(q)'
  <2>1. req'[q] = req[q]
    BY DEF BankInv
  <2>2. CASE req[q] = NoRequest
    BY <2>1, <2>2 DEF RequestOK
  <2>3. CASE req[q] # NoRequest
    <3>1. PICK u : u = req[q]
      OBVIOUS
    <3>2. IsRequest(u)
      BY <2>3, <3>1 DEF BankInv, RequestOK
    <3>3. u = [u EXCEPT !.still = u.still] /\ u.still \in BOOLEAN
      BY <3>2 DEF IsRequest
    <3>4. Later(q)
      BY <1>1, <2>1, <2>3, <3>1, <3>3 DEF Later
    <3> QED BY <1>1, <3>4, LaterOK
  <2> QED BY <2>2, <2>3
<1>3. req' = [q \in Staff |-> req'[q]] /\ req'[p] = t /\ \A q \in Staff \ {p} : req'[q] = req[q]
  BY DEF BankInv
<1>4. \A q \in Busy' : q \in Busy /\ req'[q].no = req[q].no /\ (req'[q].still => req[q].still)
  BY <1>3 DEF Busy
<1>5. Together'
  BY <1>4 DEF BankInv, Together, Overlapped
<1> QED BY <1>1, <1>2, <1>3, <1>5

\* Computing the figures.
LEMMA ComputeOK == ASSUME BankInv, NEW p \in Staff, Compute(p) PROVE BankInv'
<1>1. PICK t : t = req[p]
  OBVIOUS
<1>2. t.pc = "read" /\ t # NoRequest /\ UNCHANGED <<ledger, imported, recs, made, sure, late>>
  BY <1>1 DEF Compute, NoRequest
<1>3. IsRequest(t) /\ (made[t.no].by = "AUTO" => ChoiceFree(t.writes, t.no)) /\ (t.still => Current(t))
  BY <1>1, <1>2 DEF BankInv, RequestOK
<1>4. PICK u : u = [t EXCEPT !.pc = "computed", !.loaded = IF t.loaded = None THEN recs[t.rec] ELSE t.loaded,
                             !.figures = Figures(t.rec, Mine(t))]
  OBVIOUS
<1>5. req' = [req EXCEPT ![p] = u]
  BY <1>1, <1>4 DEF Compute
<1>6. /\ u = [pc |-> u.pc, no |-> u.no, rec |-> u.rec, writes |-> u.writes, loaded |-> u.loaded,
             figures |-> u.figures, still |-> u.still]
      /\ u.pc = "computed" /\ u.rec = t.rec /\ u.writes = t.writes /\ u.no = t.no
      /\ u.loaded = (IF t.loaded = None THEN recs[t.rec] ELSE t.loaded)
      /\ u.figures = Figures(t.rec, Mine(t)) /\ u.still = t.still
  BY <1>3, <1>4 DEF IsRequest
<1>7. u.figures.gl \in Int /\ u.figures.cleared \in Int
  <2>1. ledger \subseteq DOMAIN Booked /\ DOMAIN Mine(t) \subseteq DOMAIN Statement
    BY DEF BankInv, RecsOK, LinesOK, Mine
  <2> QED BY <1>6, <2>1, FiguresType
<1>8. u.loaded \in Row
  BY <1>3, <1>6 DEF IsRequest, BankInv, RecsOK
<1>9. IsRequest(u)'
  BY <1>2, <1>3, <1>6, <1>7, <1>8 DEF IsRequest
<1>10. made'[u.no].by = "AUTO" => ChoiceFree(u.writes, u.no)'
  BY <1>2, <1>3, <1>6 DEF ChoiceFree, ByAuto, Overlapped, Fits, Size, InWindow, Debit, Credit
<1>11. u.still => Current(u)'
  <2>1. Mine(u)' = Mine(t)
    BY <1>2, <1>6 DEF Mine
  <2>2. Figures(u.rec, Mine(u))' = Figures(t.rec, Mine(t))
    BY <1>2, <1>6, <2>1 DEF Figures
  <2> QED BY <1>2, <1>3, <1>6, <2>2 DEF Current
<1>12. req'[p] = u
  BY <1>5 DEF BankInv
<1>13. RequestOK(p)'
  BY <1>9, <1>10, <1>11, <1>12 DEF RequestOK
<1>14. (\A q \in Staff \ {p} : RequestOK(q)') /\ Together' /\ MadeKept /\ req' = [q \in Staff |-> req'[q]]
  BY <1>1, <1>2, <1>5, <1>6, OthersGoOn
<1> QED BY <1>2, <1>13, <1>14, TablesKept

\* A rollback.
LEMMA AbortRequestOK == ASSUME BankInv, NEW p \in Staff, AbortRequest(p) PROVE BankInv'
<1>1. req' = [req EXCEPT ![p] = NoRequest] /\ UNCHANGED <<ledger, imported, recs, made, sure, late>>
  BY DEF AbortRequest
<1>2. (\A q \in Staff \ {p} : RequestOK(q)') /\ Together' /\ MadeKept /\ req' = [q \in Staff |-> req'[q]]
  BY <1>1, OthersGoOn
<1>3. RequestOK(p)'
  BY <1>1 DEF BankInv, RequestOK
<1> QED BY <1>1, <1>2, <1>3, TablesKept

\* What a commit of t writes to the tables.
Committed(t) ==
  /\ t # NoRequest /\ t.pc = "computed" /\ IsRequest(t) /\ (t.still => Current(t))
  /\ made[t.no].by = "AUTO" => ChoiceFree(t.writes, t.no)
  /\ DOMAIN imported' = DOMAIN imported /\ imported' = [i \in DOMAIN imported' |-> imported'[i]]
  /\ \A i \in DOMAIN imported :
       /\ imported'[i] = [match |-> imported'[i].match, rec |-> imported'[i].rec, by |-> imported'[i].by]
       /\ imported'[i].rec = imported[i].rec
       /\ IF i \in DOMAIN t.writes THEN imported'[i].match = t.writes[i] /\ imported'[i].by = t.no
          ELSE imported'[i].match = imported[i].match /\ imported'[i].by = imported[i].by
  /\ imported' = Mine(t)
  /\ recs' \in Seq(Row) /\ Len(recs') = Len(recs) /\ DOMAIN recs' = DOMAIN recs
  /\ \A n \in DOMAIN recs : recs'[n].day = recs[n].day
  /\ recs'[t.rec] = Stored(recs[t.rec], t.loaded, t.figures)

\* That is what a commit does.
LEMMA CommitWrites ==
  ASSUME BankInv, NEW p \in Staff, Commit(p), NEW t, t = req[p]
  PROVE  Committed(t)
<1>1. t # NoRequest /\ t.pc = "computed"
  BY InFlight DEF Commit
<1>2. IsRequest(t) /\ (t.still => Current(t)) /\ (made[t.no].by = "AUTO" => ChoiceFree(t.writes, t.no))
  BY <1>1 DEF BankInv, RequestOK
<1>3. imported' = Mine(t)
  BY DEF Commit
<1>4. DOMAIN imported' = DOMAIN imported /\ imported' = [i \in DOMAIN imported' |-> imported'[i]]
      /\ \A i \in DOMAIN imported : imported'[i] =
           IF i \in DOMAIN t.writes THEN [imported[i] EXCEPT !.match = t.writes[i], !.by = t.no] ELSE imported[i]
  BY <1>3 DEF Mine
<1>5. \A i \in DOMAIN imported : imported[i] = [match |-> imported[i].match, rec |-> imported[i].rec, by |-> imported[i].by]
  BY DEF BankInv, LinesOK
<1>6. ASSUME NEW i \in DOMAIN imported
      PROVE  /\ imported'[i] = [match |-> imported'[i].match, rec |-> imported'[i].rec, by |-> imported'[i].by]
             /\ imported'[i].rec = imported[i].rec
             /\ IF i \in DOMAIN t.writes THEN imported'[i].match = t.writes[i] /\ imported'[i].by = t.no
                ELSE imported'[i].match = imported[i].match /\ imported'[i].by = imported[i].by
  BY <1>4, <1>5
<1>7. PICK s : s = Stored(recs[t.rec], t.loaded, t.figures)
  OBVIOUS
<1>8. recs \in Seq(Row) /\ t.rec \in DOMAIN recs /\ recs[t.rec] \in Row
  BY <1>2 DEF BankInv, RecsOK, IsRequest
<1>9. s \in Row /\ s.day = recs[t.rec].day
  BY <1>1, <1>2, <1>7, <1>8 DEF Stored, IsRequest, Row
<1>10. recs' = [recs EXCEPT ![t.rec] = s]
  BY <1>7 DEF Commit
<1>11. recs' \in Seq(Row) /\ Len(recs') = Len(recs) /\ DOMAIN recs' = DOMAIN recs /\ recs'[t.rec] = s
       /\ \A n \in DOMAIN recs : recs'[n].day = recs[n].day
  BY <1>8, <1>9, <1>10, ExceptSeq
<1> QED BY <1>1, <1>2, <1>3, <1>4, <1>6, <1>7, <1>11 DEF Committed

\* A commit clears no entry that a request it has not met has cleared.
LEMMA CommitClears ==
  ASSUME BankInv, NEW p \in Staff, Commit(p)
  PROVE  MatchesFit'
<1>1. PICK t : t = req[p]
  OBVIOUS
<1>2. /\ made[t.no].by = "AUTO" => ChoiceFree(t.writes, t.no)
      /\ DOMAIN imported' = DOMAIN imported /\ made' = made
      /\ \A i \in DOMAIN imported :
           IF i \in DOMAIN t.writes THEN imported'[i].match = t.writes[i] /\ imported'[i].by = t.no
           ELSE imported'[i].match = imported[i].match /\ imported'[i].by = imported[i].by
  <2>1. Committed(t) /\ made' = made
    BY <1>1, CommitWrites DEF Commit
  <2> QED BY <2>1 DEF Committed
<1>3. \A i \in DOMAIN imported : ByAuto(i)' =>
        IF i \in DOMAIN t.writes THEN made[t.no].by = "AUTO" ELSE ByAuto(i)
  BY <1>2 DEF ByAuto
<1>4. \A m, n : OverlappedNow(m, n) <=> Overlapped(m, n)
  BY <1>2 DEF Overlapped, OverlappedNow
<1>5. \A m, n : Overlapped(m, n) <=> Overlapped(n, m)
  BY DEF Overlapped
<1> SUFFICES ASSUME NEW i \in DOMAIN imported, ByAuto(i)'
             PROVE  /\ Fits(i, imported'[i].match)
                    /\ \A k \in DOMAIN imported \ {i} :
                         ByAuto(k)' /\ imported'[i].match = imported'[k].match => Overlapped(imported'[i].by, imported'[k].by)
  BY <1>2, <1>4 DEF MatchesFit, Overlapped, OverlappedNow, Fits, Size, InWindow, Debit, Credit
<1>6. Fits(i, imported'[i].match)
  <2>1. CASE i \in DOMAIN t.writes
    BY <1>2, <1>3, <2>1 DEF ChoiceFree
  <2>2. CASE i \notin DOMAIN t.writes
    BY <1>2, <1>3, <2>2 DEF BankInv, MatchesFit
  <2> QED BY <2>1, <2>2
<1>7. ASSUME NEW k \in DOMAIN imported \ {i}, ByAuto(k)', imported'[i].match = imported'[k].match
      PROVE  Overlapped(imported'[i].by, imported'[k].by)
  <2>1. CASE i \in DOMAIN t.writes /\ k \in DOMAIN t.writes
    BY <1>2, <1>3, <1>7, <2>1 DEF ChoiceFree
  <2>2. CASE i \in DOMAIN t.writes /\ k \notin DOMAIN t.writes
    BY <1>2, <1>3, <1>7, <2>2 DEF ChoiceFree
  <2>3. CASE i \notin DOMAIN t.writes /\ k \in DOMAIN t.writes
    BY <1>2, <1>3, <1>5, <1>7, <2>3 DEF ChoiceFree
  <2>4. CASE i \notin DOMAIN t.writes /\ k \notin DOMAIN t.writes
    BY <1>2, <1>3, <1>7, <2>4 DEF BankInv, MatchesFit
  <2> QED BY <2>1, <2>2, <2>3, <2>4
<1> QED BY <1>6, <1>7

\* A commit of figures nothing disturbed leaves the figures right.
LEMMA CommitSure ==
  ASSUME BankInv, NEW p \in Staff, Commit(p)
  PROVE  SureRight'
<1>1. PICK t : t = req[p]
  OBVIOUS
<1>2. /\ t.pc = "computed" /\ IsRequest(t) /\ (t.still => Current(t)) /\ imported' = Mine(t)
      /\ DOMAIN recs' = DOMAIN recs /\ \A n \in DOMAIN recs : recs'[n].day = recs[n].day
      /\ recs'[t.rec] = Stored(recs[t.rec], t.loaded, t.figures)
  <2>1. Committed(t)
    BY <1>1, CommitWrites
  <2> QED BY <2>1 DEF Committed
<1>3. CASE ~t.still
  BY <1>1, <1>3 DEF Commit, SureRight
<1>4. CASE t.still
  <2>1. /\ t.rec \in DOMAIN recs /\ t.loaded = recs[t.rec] /\ t.figures = Figures(t.rec, Mine(t))
        /\ sure' = t.rec /\ ledger' = ledger
    BY <1>1, <1>2, <1>4 DEF IsRequest, Current, Commit
  <2>2. recs[t.rec] \in Row
    BY <2>1 DEF BankInv, RecsOK
  <2>3. recs'[t.rec].gl = t.figures.gl /\ recs'[t.rec].cleared = t.figures.cleared
    BY <1>2, <2>1, <2>2 DEF Stored, Row
  <2>4. Figures(t.rec, imported)' = t.figures
    BY <1>2, <2>1 DEF Figures
  <2> QED BY <1>2, <2>1, <2>3, <2>4 DEF SureRight
<1> QED BY <1>3, <1>4

\* A commit.
LEMMA CommitOK == ASSUME BankInv, NEW p \in Staff, Commit(p) PROVE BankInv'
<1>1. PICK t : t = req[p]
  OBVIOUS
<1>2. /\ t # NoRequest /\ IsRequest(t)
      /\ DOMAIN imported' = DOMAIN imported /\ imported' = [i \in DOMAIN imported' |-> imported'[i]]
      /\ \A i \in DOMAIN imported :
           /\ imported'[i] = [match |-> imported'[i].match, rec |-> imported'[i].rec, by |-> imported'[i].by]
           /\ imported'[i].rec = imported[i].rec
           /\ IF i \in DOMAIN t.writes THEN imported'[i].match = t.writes[i] /\ imported'[i].by = t.no
              ELSE imported'[i].match = imported[i].match /\ imported'[i].by = imported[i].by
      /\ recs' \in Seq(Row) /\ Len(recs') = Len(recs) /\ DOMAIN recs' = DOMAIN recs
      /\ \A n \in DOMAIN recs : recs'[n].day = recs[n].day
  <2>1. Committed(t)
    BY <1>1, CommitWrites
  <2> QED BY <2>1 DEF Committed
<1>3. UNCHANGED <<ledger, made, late>> /\ req' = [req EXCEPT ![p] = NoRequest] /\ MadeOK /\ MadeKept
  BY DEF Commit, BankInv, MadeOK, MadeKept
<1>4. t.no \in DOMAIN made /\ (DOMAIN t.writes # {} => made[t.no].by \in Hands)
  <2>1. t.no \in DOMAIN made /\ made \in Seq(Made) /\ (made[t.no].by = None => DOMAIN t.writes = {})
    BY <1>2, <1>3 DEF IsRequest, MadeOK
  <2>2. made[t.no] \in Made
    BY <2>1
  <2> QED BY <2>1, <2>2 DEF Made
<1>5. LinesOK' /\ MadeOK'
  <2>1. LinesOK /\ \A i \in DOMAIN t.writes : t.writes[i] \in DOMAIN Booked /\ t.writes[i] # None
    BY <1>2, NoMatchAssumption DEF BankInv, IsRequest
  <2>2. ASSUME NEW i \in DOMAIN imported
        PROVE  /\ imported'[i].match \in DOMAIN Booked \cup {None} /\ imported'[i].rec \in DOMAIN recs \cup {None}
               /\ IF imported'[i].match = None THEN imported'[i].by = None
                  ELSE imported'[i].by \in DOMAIN made /\ made[imported'[i].by].by \in Hands
    <3>1. CASE i \in DOMAIN t.writes
      BY <1>2, <1>4, <2>1, <3>1 DEF LinesOK
    <3>2. CASE i \notin DOMAIN t.writes
      BY <1>2, <2>1, <3>2 DEF LinesOK
    <3> QED BY <3>1, <3>2
  <2> QED BY <1>2, <1>3, <2>1, <2>2 DEF LinesOK, MadeOK
<1>6. RecsOK'
  BY <1>2, <1>3 DEF BankInv, RecsOK
<1>7. LastHasLines'
  <2>1. Len(recs) # 0 => Len(recs) \in DOMAIN recs
    BY DEF BankInv, RecsOK
  <2> QED BY <1>2, <1>3, <2>1 DEF BankInv, LastHasLines
<1>8. ASSUME NEW q \in Staff PROVE Later(q)
  <2>1. CASE q = p
    BY <1>3, <2>1 DEF BankInv, Later
  <2>2. CASE q # p /\ req[q] = NoRequest
    BY <1>3, <2>2 DEF BankInv, Later
  <2>3. CASE q # p /\ req[q] # NoRequest
    <3>1. PICK u : u = req[q]
      OBVIOUS
    <3>2. IsRequest(u) /\ Overlapped(u.no, t.no)
      BY <1>1, <1>2, <2>3, <3>1 DEF BankInv, RequestOK, Together, Busy
    <3>3. MatchesKept(u.no)
      BY <1>2, <1>4, <3>2 DEF MatchesKept
    <3>4. ~u.still
      BY <1>1, <1>2, <2>3, <3>1 DEF BankInv, Together, Busy
    <3>5. u = [u EXCEPT !.still = FALSE]
      BY <3>2, <3>4 DEF IsRequest
    <3>6. req'[q] = u
      BY <1>3, <2>3, <3>1 DEF BankInv
    <3> QED BY <2>3, <3>1, <3>3, <3>5, <3>6 DEF Later
  <2> QED BY <2>1, <2>2, <2>3
<1>9. Grows
  BY <1>2, <1>3 DEF Grows
<1>10. (\A q \in Staff : RequestOK(q)') /\ Together'
  BY <1>3, <1>8, <1>9, LaterOK, TogetherStays
<1>11. req' = [q \in Staff |-> req'[q]]
  BY <1>3 DEF BankInv
<1> QED BY <1>5, <1>6, <1>7, <1>10, <1>11, CommitClears, CommitSure DEF BankInv

-----------------------------------------------------------------------------
(* The theorems. *)

\* The invariant holds at first.
LEMMA BankInitOK == ASSUME BankInit PROVE BankInv
<1>1. MadeOK /\ LinesOK /\ RecsOK /\ LastHasLines /\ SureRight /\ MatchesFit /\ Together
  BY DEF BankInit, MadeOK, LinesOK, RecsOK, LastHasLines, SureRight, MatchesFit, Together, Busy
<1> QED BY <1>1 DEF BankInit, BankInv, RequestOK

\* A step of nothing leaves it.
LEMMA StutterBank == ASSUME BankInv, UNCHANGED bankVars PROVE BankInv'
<1>1. UNCHANGED <<ledger, imported, recs, made, sure, late, req>>
  BY DEF bankVars
<1>2. MadeKept /\ Grows /\ \A k : MatchesKept(k)
  BY <1>1 DEF MadeKept, Grows, MatchesKept, BankInv, MadeOK
<1>3. ASSUME NEW q \in Staff PROVE Later(q)
  <2>1. PICK t : t = req[q]
    OBVIOUS
  <2>2. CASE t = NoRequest
    BY <1>1, <2>1, <2>2 DEF Later
  <2>3. CASE t # NoRequest
    <3>1. IsRequest(t)
      BY <2>1, <2>3 DEF BankInv, RequestOK
    <3>2. t = [t EXCEPT !.still = t.still] /\ t.still \in BOOLEAN
      BY <3>1 DEF IsRequest
    <3> QED BY <1>1, <1>2, <2>1, <2>3, <3>2 DEF Later
  <2> QED BY <2>2, <2>3
<1>4. (\A q \in Staff : RequestOK(q)') /\ Together'
  BY <1>2, <1>3, LaterOK, TogetherStays
<1> QED BY <1>1, <1>2, <1>4, TablesKept DEF BankInv

\* Every step keeps it.
LEMMA BankNextOK == ASSUME BankInv, [BankNext]_bankVars PROVE BankInv'
<1>1. ASSUME NEW l \in DOMAIN Booked, PostEntry(l) PROVE BankInv'
  BY <1>1, PostEntryOK
<1>2. ASSUME NEW i \in DOMAIN Statement, Import(i) PROVE BankInv'
  BY <1>2, ImportOK
<1>3. ASSUME NEW day \in Cutoffs, Start(day) PROVE BankInv'
  BY <1>3, StartOK
<1>4. ASSUME NEW p \in Staff, Clerk(p) PROVE BankInv'
  <2>1. ASSUME NEW n \in DOMAIN recs,
               \/ Look(p, n) \/ AutoMatch(p, n)
               \/ \E i \in DOMAIN imported, l \in ledger : MatchByHand(p, n, i, l)
        PROVE  BankInv'
    BY <2>1, RequestBegins
  <2>2. CASE Compute(p)
    BY <2>2, ComputeOK
  <2>3. CASE Commit(p)
    BY <2>3, CommitOK
  <2>4. CASE AbortRequest(p)
    BY <2>4, AbortRequestOK
  <2> QED BY <1>4, <2>1, <2>2, <2>3, <2>4 DEF Clerk
<1>5. CASE UNCHANGED bankVars
  BY <1>5, StutterBank
<1> QED BY <1>1, <1>2, <1>3, <1>4, <1>5 DEF BankNext

\* The invariant holds always.
LEMMA BankHolds == BankSpec => []BankInv
<1>1. BankInit => BankInv
  BY BankInitOK
<1>2. BankInv /\ [BankNext]_bankVars => BankInv'
  BY BankNextOK
<1> QED BY <1>1, <1>2, PTL DEF BankSpec

\* What auto-match pairs is within the window and of one amount and direction, but for a
\* statement line of 0.00, and two of its pairs share an entry only if their requests
\* overlapped each other, however requests, imports and postings follow one another
\* (suggest_matches and rec_auto).
THEOREM AutoClearsOnce == BankSpec => []ClearedOnce
<1>1. ASSUME BankInv PROVE ClearedOnce
  <2> SUFFICES ASSUME NEW i \in DOMAIN imported, ByAuto(i)
               PROVE  /\ InWindow(i, imported[i].match)
                      /\ SameAmount(i) \/ (Statement[i].amount = 0 /\ Booked[imported[i].match].amount > 0)
                      /\ \A k \in DOMAIN imported \ {i} :
                           ByAuto(k) /\ imported[i].match = imported[k].match => Overlapped(imported[i].by, imported[k].by)
    BY DEF ClearedOnce
  <2>1. /\ Fits(i, imported[i].match)
        /\ \A k \in DOMAIN imported \ {i} :
             ByAuto(k) /\ imported[i].match = imported[k].match => Overlapped(imported[i].by, imported[k].by)
    BY <1>1 DEF BankInv, MatchesFit
  <2>2. imported[i].match \in DOMAIN Booked /\ i \in DOMAIN Statement
    BY <1>1 DEF BankInv, LinesOK, ByAuto
  <2>3. Statement[i].amount \in Int /\ Booked[imported[i].match].amount \in Int
    BY <2>2, AmountAssumption
  <2> QED BY <2>1, <2>3 DEF Fits, Debit, Credit, Size, SameAmount
<1> QED BY <1>1, BankHolds, PTL

\* The matched lines of the last reconciliation, with what lines of 0.00 have swallowed,
\* are worth what the entries are that cleared them.
LEMMA ClearedWorth ==
  ASSUME BankInv, NEW n \in DOMAIN recs, n = Len(recs), n \notin late, AllAutomatic,
         NEW C, C = {imported[i].match : i \in Claimed(recs[n].day)} \ {None}
  PROVE  /\ C \subseteq DOMAIN Booked
         /\ Figures(n, imported).cleared \in Int /\ Swallowed(n) \in Int
         /\ AmountIn(Booked, C) = Figures(n, imported).cleared + Swallowed(n)
<1> DEFINE M == {i \in DOMAIN imported : imported[i].rec = n /\ imported[i].match # None}
           Z == {i \in M : Statement[i].amount = 0}
           P == M \ Z
           m == [i \in M |-> imported[i].match]
           f == [i \in DOMAIN Statement |-> Statement[i].amount]
           g == [l \in DOMAIN Booked |-> Booked[l].amount]
<1>1. LinesOK /\ n # 0
  BY DEF BankInv, RecsOK
<1>2. \A i \in DOMAIN imported : imported[i].rec = n <=> Statement[i].day <= recs[n].day
  BY <1>1 DEF BankInv, LastHasLines
<1>3. M = {i \in Claimed(recs[n].day) : imported[i].match # None}
  BY <1>2 DEF Claimed, UpTo
<1>4. C = {m[i] : i \in M}
  BY <1>3
<1>5. \A i \in M : i \in DOMAIN Statement /\ imported[i].match \in DOMAIN Booked /\ Fits(i, imported[i].match)
  BY <1>1 DEF LinesOK, AllAutomatic, BankInv, MatchesFit
<1>6. \A i \in M : f[i] \in Int /\ g[m[i]] \in Int /\ (f[i] # 0 => g[m[i]] = f[i])
  BY <1>5, AmountAssumption DEF Fits, Debit, Credit, Size
<1>7. \A i, k \in M : m[i] = m[k] => i = k
  BY DEF AllAutomatic
<1>8. IsFiniteSet(M) /\ IsFiniteSet(Z) /\ IsFiniteSet(P)
  <2>1. M \subseteq DOMAIN Statement
    BY <1>5
  <2> QED BY <2>1, AmountAssumption, FS_Subset
<1>9. \A i \in M : i \in P <=> f[i] # 0
  BY <1>5
<1>10. {m[i] : i \in P} \cap {m[i] : i \in Z} = {} /\ C = {m[i] : i \in P} \cup {m[i] : i \in Z}
  <2>1. P \cup Z = M /\ P \cap Z = {}
    OBVIOUS
  <2> HIDE DEF m, M, P, Z
  <2> QED BY <1>4, <1>7, <2>1
<1>11. IsFiniteSet({m[i] : i \in P}) /\ SumFunctionOnSet(g, {m[i] : i \in P}) = SumFunctionOnSet(f, P)
  <2>1. \A i \in P : f[i] \in Int /\ g[m[i]] = f[i]
    BY <1>6, <1>9
  <2>2. \A i, k \in P : m[i] = m[k] => i = k
    BY <1>7
  <2> HIDE DEF P, m, f, g
  <2> QED BY <1>8, <2>1, <2>2, SumRenamed
<1>12. SumFunctionOnSet(f, M) = SumFunctionOnSet(f, P)
  <2>1. \A i \in M : f[i] \in Int
    BY <1>6
  <2>2. P \subseteq M /\ \A i \in M \ P : f[i] = 0
    BY <1>9
  <2> HIDE DEF M, P, f
  <2> QED BY <1>8, <2>1, <2>2, SumSupport
<1>13. C \subseteq DOMAIN Booked /\ {m[i] : i \in P} \subseteq DOMAIN Booked /\ {m[i] : i \in Z} \subseteq DOMAIN Booked
  BY <1>4, <1>5
<1>14. IsFiniteSet({m[i] : i \in Z})
  BY <1>13, AmountAssumption, FS_Subset
<1>15. SumFunctionOnSet(g, C) = SumFunctionOnSet(g, {m[i] : i \in P}) + SumFunctionOnSet(g, {m[i] : i \in Z})
  <2>1. \A l \in C : g[l] \in Int
    BY <1>13, AmountAssumption
  <2> DEFINE S == {m[i] : i \in P}
             T == {m[i] : i \in Z}
  <2>2. IsFiniteSet(S) /\ IsFiniteSet(T) /\ S \cap T = {} /\ C = S \cup T
    BY <1>10, <1>11, <1>14
  <2> HIDE DEF S, T, g
  <2>3. SumFunctionOnSet(g, S \cup T) = SumFunctionOnSet(g, S) + SumFunctionOnSet(g, T)
    BY <2>1, <2>2, SumUnion
  <2> QED BY <2>2, <2>3 DEF S, T
<1>16. {m[i] : i \in Z}
        = {imported[i].match : i \in {k \in Claimed(recs[n].day) : Statement[k].amount = 0}} \ {None}
  BY <1>3
<1>17. Swallowed(n) = SumFunctionOnSet(g, {m[i] : i \in Z})
  BY <1>16 DEF Swallowed, AmountIn
<1>18. AmountIn(Booked, C) = SumFunctionOnSet(g, C) /\ Figures(n, imported).cleared = SumFunctionOnSet(f, M)
  BY DEF Figures, AmountIn
<1>19. SumFunctionOnSet(f, M) \in Int /\ SumFunctionOnSet(g, {m[i] : i \in Z}) \in Int
  <2>1. (\A i \in M : f[i] \in Int) /\ \A l \in {m[i] : i \in Z} : g[l] \in Int
    BY <1>6
  <2> DEFINE T == {m[i] : i \in Z}
  <2> HIDE DEF M, T, f, g
  <2>2. SumFunctionOnSet(f, M) \in Int
    BY <1>8, <2>1, SumType
  <2>3. IsFiniteSet(T) /\ \A l \in T : g[l] \in Int
    BY <1>14, <2>1 DEF T
  <2>4. SumFunctionOnSet(g, T) \in Int
    BY <2>3, SumType
  <2> QED BY <2>2, <2>4 DEF T
<1> HIDE DEF M, Z, P, m, f, g
<1> QED BY <1>11, <1>12, <1>13, <1>15, <1>17, <1>18, <1>19

\* What is in transit, with what lines of 0.00 swallowed, explains the difference.
LEMMA InTransitExplains == ASSUME BankInv PROVE DifferenceExplained
<1> SUFFICES ASSUME NEW n, n = sure, n = Len(recs), n \notin late, AllAutomatic
             PROVE  recs[n].gl - recs[n].cleared = InTransit(n) + Swallowed(n)
  BY DEF DifferenceExplained
<1>1. n \in DOMAIN recs
  BY NoMatchAssumption DEF BankInv, RecsOK, SureRight
<1>2. PICK B, C : B = UpTo(Booked, ledger, recs[n].day) /\ C = {imported[i].match : i \in Claimed(recs[n].day)} \ {None}
  OBVIOUS
<1>3. /\ C \subseteq DOMAIN Booked
      /\ Figures(n, imported).cleared \in Int /\ Swallowed(n) \in Int
      /\ AmountIn(Booked, C) = Figures(n, imported).cleared + Swallowed(n)
  BY <1>1, <1>2, ClearedWorth
<1>4. B \subseteq DOMAIN Booked
  BY <1>2 DEF BankInv, RecsOK, UpTo
<1>5. recs[n].gl = AmountIn(Booked, B) /\ recs[n].cleared = Figures(n, imported).cleared
  BY <1>1, <1>2, NoMatchAssumption DEF BankInv, SureRight, RecsOK, Figures
<1>6. AmountIn(Booked, B) - AmountIn(Booked, C) = AmountIn(Booked, B \ C) - AmountIn(Booked, C \ B)
  <2>1. IsFiniteSet(DOMAIN Booked) /\ \A l \in DOMAIN Booked : Booked[l].amount \in Int
    BY AmountAssumption
  <2>2. B \subseteq DOMAIN Booked /\ C \subseteq DOMAIN Booked
    BY <1>3, <1>4
  <2> QED BY ONLY <2>1, <2>2, SumDifference
<1>7. InTransit(n) = AmountIn(Booked, B \ C) - AmountIn(Booked, C \ B)
  BY <1>2 DEF InTransit
<1>8. AmountIn(Booked, B) \in Int
  BY <1>4, AmountAssumption, SumOf
<1> QED BY <1>3, <1>5, <1>6, <1>7, <1>8

\* The books differ from what was cleared by what is in transit and by what lines of 0.00
\* have swallowed, so says the last reconciliation, computed with nothing else in flight
\* (compute_reconciliation).
THEOREM TransitExplained == BankSpec => []DifferenceExplained
<1>1. BankInv => DifferenceExplained
  BY InTransitExplains
<1> QED BY <1>1, BankHolds, PTL
=============================================================================
