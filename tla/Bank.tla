-------------------------------- MODULE Bank --------------------------------
(***************************************************************************)
(* One bank account against its statement (core/bank.py, api/bank.py):     *)
(* statement lines are imported, claimed by a reconciliation, matched to   *)
(* lines of the ledger one by one or all at once, and the figures of the   *)
(* reconciliation are computed by every request that touches it.           *)
(*                                                                         *)
(* Requests of several clerks overlap.  None takes a lock before it reads; *)
(* PostgreSQL locks a row from the write to the commit.  Money is signed:  *)
(* a debit of the account, or a deposit, is positive.                      *)
(***************************************************************************)
EXTENDS Integers, Sequences, FiniteSets, Functions

CONSTANTS
  Staff,
  Booked, Statement,  \* what may be posted on the account and imported, by name: [amount, day]
  Cutoffs,            \* last days of the statements
  Window,     \* suggest_matches: window_days
  MaxRecs, MaxRequests,  \* bounds
  None

ASSUME WindowAssumption == Window \in Nat
ASSUME NoMatchAssumption == None \notin DOMAIN Booked \cup {"AUTO", "HAND"} /\ None \notin Nat
ASSUME AmountAssumption ==
  /\ IsFiniteSet(DOMAIN Booked) /\ IsFiniteSet(DOMAIN Statement) /\ Cutoffs \subseteq Int
  /\ \A l \in DOMAIN Booked : Booked[l].amount \in Int /\ Booked[l].day \in Int
  /\ \A i \in DOMAIN Statement : Statement[i].amount \in Int /\ Statement[i].day \in Int

VARIABLES
  ledger,   \* lines of the account in the journal
  imported, \* statement lines: [match, rec, by]; `by` is history, the request that matched it
  recs,     \* reconciliations: [day, gl, cleared]
  req,      \* the request of each clerk
  made,     \* history: requests so far: [by, met], the way of matching and the requests it met
  sure,     \* history: the reconciliation just computed with nothing else in flight, or None
  late      \* history: reconciliations with lines imported into their days afterwards

bankVars == <<ledger, imported, recs, req, made, sure, late>>

NoRequest == [pc |-> "idle"]
AmountIn(s, S) == SumFunctionOnSet([i \in DOMAIN s |-> s[i].amount], S)
UpTo(s, S, day) == {i \in S : s[i].day <= day}
Busy == {q \in Staff : req[q] # NoRequest}
\* Requests in flight when something else happens.
Disturbed == [q \in Staff |-> IF req[q] = NoRequest THEN NoRequest ELSE [req[q] EXCEPT !.still = FALSE]]
Size(n) == IF n < 0 THEN -n ELSE n
----------------------------------------------------------------------------
(* Posting and importing. *)

\* A transfer, or any other entry on the account, dated as its document is.
PostEntry(l) ==
  /\ l \notin ledger /\ ledger' = ledger \cup {l}
  /\ sure' = None /\ req' = Disturbed
  /\ UNCHANGED <<imported, recs, made, late>>

\* POST /accounts/{id}/statement-import: the lines belong to no reconciliation.
Import(i) ==
  /\ i \notin DOMAIN imported
  /\ imported' = [k \in DOMAIN imported \cup {i} |->
       IF k = i THEN [match |-> None, rec |-> None, by |-> None] ELSE imported[k]]
  /\ late' = late \cup {n \in DOMAIN recs : Statement[i].day <= recs[n].day}
  /\ sure' = None /\ req' = Disturbed
  /\ UNCHANGED <<ledger, recs, made>>
----------------------------------------------------------------------------
(* Figures. *)

\* The statement lines as a request sees them: committed ones and its own.
Mine(t) == [i \in DOMAIN imported |->
  IF i \in DOMAIN t.writes THEN [imported[i] EXCEPT !.match = t.writes[i], !.by = t.no] ELSE imported[i]]

\* compute_reconciliation: the books to the day of the statement, and the matched
\* ones of the lines it has claimed.
Figures(n, seen) ==
  [gl |-> AmountIn(Booked, UpTo(Booked, ledger, recs[n].day)),
   cleared |-> AmountIn(Statement, {i \in DOMAIN seen : seen[i].rec = n /\ seen[i].match # None})]
\* Only what differs from the row as it was loaded is written.
Stored(row, loaded, figures) ==
  [row EXCEPT !.gl = IF figures.gl # loaded.gl THEN figures.gl ELSE @,
              !.cleared = IF figures.cleared # loaded.cleared THEN figures.cleared ELSE @]
----------------------------------------------------------------------------
(* Reconciliations. *)

\* Mutant: lines that are matched stay with the reconciliation that matched them.
ClaimedOpen(day) == {i \in UpTo(Statement, DOMAIN imported, day) : imported[i].match = None}
Claimed(day) == UpTo(Statement, DOMAIN imported, day)

\* POST /reconciliations claims every line to its day, those of an earlier
\* reconciliation too.  It waits while another request holds one of them.
Start(day) ==
  LET n == Len(recs) + 1
      cleared == {i \in Claimed(day) : imported[i].match # None}
  IN  /\ n <= MaxRecs
      /\ \A p \in Staff : req[p].pc = "computed" => DOMAIN req[p].writes \cap Claimed(day) = {}
      /\ imported' = [i \in DOMAIN imported |->
           IF i \in Claimed(day) THEN [imported[i] EXCEPT !.rec = n] ELSE imported[i]]
      /\ recs' = Append(recs, [day |-> day, gl |-> AmountIn(Booked, UpTo(Booked, ledger, day)),
                               cleared |-> AmountIn(Statement, cleared)])
      /\ sure' = n /\ req' = Disturbed
      /\ UNCHANGED <<ledger, made, late>>

\* A request on reconciliation n, with the matches it is going to write.
BeginRequest(p, n, writes, by, loaded) ==
  /\ req[p] = NoRequest
  /\ Len(made) < MaxRequests
  /\ made' = Append(made, [by |-> by, met |-> {req[q].no : q \in Busy}])
  /\ req' = [Disturbed EXCEPT ![p] =
       [pc |-> "read", no |-> Len(made) + 1, rec |-> n, writes |-> writes, loaded |-> loaded,
        figures |-> None, still |-> Busy = {}]]
  /\ sure' = None
  /\ UNCHANGED <<ledger, imported, recs, late>>

\* GET /reconciliations/{id}; and POST .../complete, which also writes a status and
\* the account's last_reconciled_at, that nothing reads.
Look(p, n) == BeginRequest(p, n, <<>>, None, None)

\* POST .../match: any line of the ledger will do; a matched line is refused, or
\* left alone when it has that match already.
MatchByHand(p, n, i, l) ==
  /\ imported[i].match \in {None, l}
  /\ BeginRequest(p, n, IF imported[i].match = l THEN <<>> ELSE [k \in {i} |-> l], "HAND", None)

\* suggest_matches.  Mutant: ledger lines that cleared another line are offered again.
AnyLine(l) == TRUE
Uncleared(l) == \A i \in DOMAIN imported : imported[i].match # l
\* A deposit is looked for among the debits, anything else among the credits: a debit
\* has no credit, so that a line of 0.00 fits every debit.
Debit(l) == IF Booked[l].amount > 0 THEN Booked[l].amount ELSE 0
Credit(l) == IF Booked[l].amount < 0 THEN -Booked[l].amount ELSE 0
InWindow(i, l) == Size(Booked[l].day - Statement[i].day) <= Window
Fits(i, l) ==
  /\ (IF Statement[i].amount > 0 THEN Debit(l) ELSE Credit(l)) = Size(Statement[i].amount)
  /\ InWindow(i, l)
Free == {l \in ledger : Uncleared(l)}
Unmatched == {i \in DOMAIN imported : imported[i].match = None}
\* Neither query has an order: each line takes the first that fits and is left, so
\* the suggestions are some set of pairs that cannot be extended.
Suggestions ==
  {s \in UNION {[S -> Free] : S \in SUBSET Unmatched} :
     /\ \A i \in DOMAIN s : Fits(i, s[i]) /\ \A k \in DOMAIN s : s[i] = s[k] => i = k
     /\ \A i \in Unmatched \ DOMAIN s : \A l \in Free \ {s[k] : k \in DOMAIN s} : ~Fits(i, l)}
\* POST .../auto-match.
AutoMatch(p, n) ==
  \E s \in Suggestions : BeginRequest(p, n, s, "AUTO", recs[n])

\* The lines are written, and stay locked, and the figures computed.
Compute(p) ==
  LET t == req[p] IN
  /\ t.pc = "read"
  /\ \A q \in Staff : req[q].pc = "computed" => DOMAIN req[q].writes \cap DOMAIN t.writes = {}
  /\ req' = [req EXCEPT ![p] = [t EXCEPT !.pc = "computed",
                                       !.loaded = IF t.loaded = None THEN recs[t.rec] ELSE t.loaded,
                                       !.figures = Figures(t.rec, Mine(t))]]
  /\ UNCHANGED <<ledger, imported, recs, made, sure, late>>
Commit(p) ==
  LET t == req[p] IN
  /\ t.pc = "computed"
  /\ imported' = Mine(t)
  /\ recs' = [recs EXCEPT ![t.rec] = Stored(@, t.loaded, t.figures)]
  /\ sure' = IF t.still THEN t.rec ELSE None
  /\ req' = [req EXCEPT ![p] = NoRequest]
  /\ UNCHANGED <<ledger, made, late>>
AbortRequest(p) ==
  /\ req[p] # NoRequest /\ req' = [req EXCEPT ![p] = NoRequest]
  /\ UNCHANGED <<ledger, imported, recs, made, sure, late>>
----------------------------------------------------------------------------
BankInit ==
  /\ ledger = {} /\ imported = <<>> /\ recs = <<>> /\ req = [p \in Staff |-> NoRequest]
  /\ made = <<>> /\ sure = None /\ late = {}

Clerk(p) ==
  \/ \E n \in DOMAIN recs :
       \/ Look(p, n) \/ AutoMatch(p, n)
       \/ \E i \in DOMAIN imported, l \in ledger : MatchByHand(p, n, i, l)
  \/ Compute(p) \/ Commit(p) \/ AbortRequest(p)
BankNext ==
  \/ \E l \in DOMAIN Booked : PostEntry(l)
  \/ \E i \in DOMAIN Statement : Import(i)
  \/ \E day \in Cutoffs : Start(day)
  \/ \E p \in Staff : Clerk(p)

BankSpec == BankInit /\ [][BankNext]_bankVars
----------------------------------------------------------------------------
(* Properties. *)

ByAuto(i) == imported[i].by # None /\ made[imported[i].by].by = "AUTO"
\* Two requests were in flight at the same time.
Overlapped(m, n) == m \in made[n].met \/ n \in made[m].met
SameAmount(i) == Booked[imported[i].match].amount = Statement[i].amount

\* What auto-match pairs is within the window and of one amount and direction, but
\* for a statement line of 0.00, that takes anything which is not a withdrawal.  A
\* line of the ledger clears two lines of the statement only when one of them was
\* chosen by hand, or when the two automatic matches overlapped each other.
ClearedOnce ==
  \A i \in DOMAIN imported : ByAuto(i) =>
    /\ InWindow(i, imported[i].match)
    /\ SameAmount(i) \/ (Statement[i].amount = 0 /\ Booked[imported[i].match].amount > 0)
    /\ \A k \in DOMAIN imported \ {i} :
         ByAuto(k) /\ imported[i].match = imported[k].match => Overlapped(imported[i].by, imported[k].by)

\* The books differ from what was cleared by what is in transit and by what lines of
\* 0.00 have swallowed, and by nothing else.  In transit are entries no line of the
\* statement has cleared, and pairs with one day before the end of the statement and
\* one after it.  So says the last reconciliation, computed with nothing else in
\* flight, unless lines were imported into its days after it began, a match was made
\* by hand, or overlapping requests cleared one entry twice.
InTransit(n) ==
  LET books == UpTo(Booked, ledger, recs[n].day)
      cleared == {imported[i].match : i \in Claimed(recs[n].day)} \ {None}
  IN  AmountIn(Booked, books \ cleared) - AmountIn(Booked, cleared \ books)
Swallowed(n) ==
  AmountIn(Booked, {imported[i].match : i \in {k \in Claimed(recs[n].day) : Statement[k].amount = 0}} \ {None})
AllAutomatic ==
  \A i \in DOMAIN imported : imported[i].match # None =>
    ByAuto(i) /\ \A k \in DOMAIN imported \ {i} : imported[i].match # imported[k].match
DifferenceExplained ==
  LET n == sure IN
  n = Len(recs) /\ n \notin late /\ AllAutomatic
    => recs[n].gl - recs[n].cleared = InTransit(n) + Swallowed(n)
=============================================================================
