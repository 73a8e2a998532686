--------------------------- MODULE CustomerProofs ---------------------------
(***************************************************************************)
(* Proofs about GoldFeed, Deals and Receivables: the rate customers are    *)
(* shown, what is traded at it, and what they and the vendors are owed.    *)
(*                                                                         *)
(* GoldFeed, for any threshold, any number of requests and overrides, and  *)
(* ages told apart up to any bound: the alarm is up exactly while the rate *)
(* counts as closed, and the override served is the one logged last unless *)
(* requests overlapped.  Deals, for any cashiers, rates, margins, purities *)
(* and weights: a deal on a closed rate is answered for, and a seller is   *)
(* paid the quote to the drift allowed and a cent.  Receivables, for any   *)
(* handlers, dates, documents, amounts and bounds: a document shows as     *)
(* paid what was allocated to it, only settlements of different dates      *)
(* overwrite each other, and a control account shows what its subledger    *)
(* owes.                                                                   *)
(***************************************************************************)
EXTENDS GoldFeed, Deals, Receivables, SumTheorems, SequenceTheorems

-----------------------------------------------------------------------------
(* The larger and the smaller of two numbers. *)

\* The smaller of two is the first unless the second is smaller.
LEMMA MinOfTwo == \A a, b \in Int : Min({a, b}) = IF a <= b THEN a ELSE b
<1> SUFFICES ASSUME NEW a \in Int, NEW b \in Int PROVE Min({a, b}) = IF a <= b THEN a ELSE b
  OBVIOUS
<1>1. PICK m : m = IF a <= b THEN a ELSE b
  OBVIOUS
<1>2. m \in {a, b} /\ \A y \in {a, b} : m <= y
  BY <1>1
<1>3. \A x \in {a, b} : (\A y \in {a, b} : x <= y) => x = m
  BY <1>2
<1> QED BY <1>1, <1>2, <1>3 DEF Min

\* The larger of two is the first unless the second is larger.
LEMMA MaxOfTwo == \A a, b \in Int : Max({a, b}) = IF a >= b THEN a ELSE b
<1> SUFFICES ASSUME NEW a \in Int, NEW b \in Int PROVE Max({a, b}) = IF a >= b THEN a ELSE b
  OBVIOUS
<1>1. PICK m : m = IF a >= b THEN a ELSE b
  OBVIOUS
<1>2. m \in {a, b} /\ \A y \in {a, b} : m >= y
  BY <1>1
<1>3. \A x \in {a, b} : (\A y \in {a, b} : x >= y) => x = m
  BY <1>2
<1> QED BY <1>1, <1>2, <1>3 DEF Max

-----------------------------------------------------------------------------
(* The job and its alarm. *)

FeedTypes ==
  /\ feed \in BOOLEAN /\ running \in BOOLEAN /\ due \in BOOLEAN /\ alerted \in BOOLEAN
  /\ unheard \in BOOLEAN /\ apart \in BOOLEAN
  /\ age \in 0..MaxAge /\ failures \in 0..Threshold
  /\ poll \in {"idle", "alarming", "recovering"} /\ told \in {"fresh", "stale"}

\* The polls that have failed since a row that is n ticks old, as the job counts them.
Counted(n) == IF n < Threshold THEN n ELSE Threshold

\* The flag goes with the count but while a message is being sent, and the count with
\* the age of the newest row, one less while this tick's poll has not begun.
FeedInv ==
  /\ FeedTypes
  /\ poll # "idle" => running /\ ~due /\ failures = Threshold
  /\ due => running
  /\ poll = "alarming" => ~alerted
  /\ poll = "recovering" => alerted /\ (apart \/ age = 0)
  /\ poll = "idle" => (alerted <=> failures = Threshold)
  /\ ~running => apart
  /\ ~apart /\ poll # "recovering" =>
       IF due THEN age >= 1 /\ failures = Counted(age - 1) ELSE failures = Counted(age)
  /\ unheard \/ (alerted <=> told = "stale")

\* A fresh process has nothing to alarm about.
LEMMA InitFeed == Init => FeedInv
<1> SUFFICES ASSUME Init PROVE FeedInv
  OBVIOUS
<1>1. /\ feed \in BOOLEAN /\ age = 0 /\ running = TRUE /\ due = TRUE /\ poll = "idle" /\ failures = 0
      /\ alerted = FALSE /\ told = "fresh" /\ unheard = FALSE /\ apart = TRUE
  BY DEF Init
<1>2. 0 \in 0..MaxAge /\ 0 \in 0..Threshold /\ 0 # Threshold
  BY ThresholdAssumption
<1>3. FeedTypes
  BY <1>1, <1>2 DEF FeedTypes
<1> QED BY <1>1, <1>2, <1>3 DEF FeedInv

\* Every step of the job, of time and of the admin keeps what the job knows.
LEMMA NextFeed == FeedInv /\ [Next]_vars => FeedInv'
<1> SUFFICES ASSUME FeedInv, [Next]_vars PROVE FeedInv'
  OBVIOUS
<1>0. /\ Threshold \in Nat /\ Threshold >= 2 /\ MaxAge \in Nat /\ MaxAge > Threshold
      /\ age \in Nat /\ age <= MaxAge /\ failures \in Nat /\ failures <= Threshold
  BY ThresholdAssumption DEF FeedInv, FeedTypes
<1>1. CASE Tick
  <2>1. age' = IF age + 1 <= MaxAge THEN age + 1 ELSE MaxAge
    BY <1>0, <1>1, MinOfTwo DEF Tick
  <2> QED BY <1>0, <1>1, <2>1 DEF Tick, Scheduled, FeedInv, FeedTypes, Counted
<1>2. CASE FeedChanges
  BY <1>2 DEF FeedChanges, FeedInv, FeedTypes, Counted
<1>3. CASE PollSucceeds
  <2>1. /\ poll = "idle" /\ due /\ running /\ age' = 0 /\ due' = FALSE /\ apart' = FALSE /\ running' = running
        /\ alerted' = alerted /\ told' = told /\ unheard' = unheard /\ feed' = feed
        /\ alerted => poll' = "recovering" /\ failures' = failures
        /\ ~alerted => failures' = 0 /\ poll' = "idle"
    BY <1>3 DEF PollSucceeds, FeedInv
  <2>2. alerted <=> failures = Threshold
    BY <2>1 DEF FeedInv
  <2>3. 0 \in 0..MaxAge /\ 0 \in 0..Threshold /\ 0 # Threshold /\ Counted(0) = 0
    BY <1>0 DEF Counted
  <2>4. FeedTypes'
    BY <2>1, <2>3 DEF FeedInv, FeedTypes
  <2> QED BY <2>1, <2>2, <2>3, <2>4 DEF FeedInv
<1>4. CASE PollFails
  <2>1. failures' = IF failures + 1 <= Threshold THEN failures + 1 ELSE Threshold
    BY <1>0, <1>4, MinOfTwo DEF PollFails
  <2>2. /\ poll = "idle" /\ due /\ running /\ due' = FALSE /\ age' = age /\ apart' = apart /\ running' = running
        /\ alerted' = alerted /\ told' = told /\ unheard' = unheard /\ feed' = feed
        /\ poll' = IF ~alerted /\ failures' >= Threshold THEN "alarming" ELSE "idle"
    BY <1>4 DEF PollFails, Alarming, FeedInv
  <2>3. failures' \in 0..Threshold /\ (failures' >= Threshold <=> failures' = Threshold)
        /\ (failures = Threshold => failures' = Threshold)
    BY <1>0, <2>1
  <2>4. FeedTypes'
    BY <2>2, <2>3 DEF FeedInv, FeedTypes
  <2>5. alerted <=> failures = Threshold
    BY <2>2 DEF FeedInv
  <2>6. ~apart => failures' = Counted(age)
    <3>1. ~apart => age >= 1 /\ failures = Counted(age - 1)
      BY <2>2 DEF FeedInv
    <3> QED BY <1>0, <2>1, <3>1 DEF Counted
  <2> QED BY <2>2, <2>3, <2>4, <2>5, <2>6 DEF FeedInv, Counted
<1>5. CASE Alarm
  BY <1>0, <1>5 DEF Alarm, Send, Raised, FeedInv, FeedTypes, Counted
<1>6. CASE CallOff
  <2>1. /\ poll = "recovering" /\ poll' = "idle" /\ alerted' = FALSE /\ failures' = 0 /\ running /\ ~due
        /\ feed' = feed /\ age' = age /\ running' = running /\ due' = due /\ apart' = apart
        /\ (told' = "fresh" /\ unheard' = FALSE) \/ (unheard' = TRUE /\ told' = told)
    BY <1>6 DEF CallOff, Send, FeedInv
  <2>2. 0 \in 0..Threshold /\ 0 # Threshold /\ Counted(0) = 0 /\ (apart \/ age = 0)
    BY <1>0, <2>1 DEF Counted, FeedInv
  <2>3. FeedTypes'
    BY <2>1, <2>2 DEF FeedInv, FeedTypes
  <2>4. unheard' \/ (alerted' <=> told' = "stale")
    BY <2>1
  <2> QED BY <2>1, <2>2, <2>3, <2>4 DEF FeedInv, Counted
<1>7. CASE Refresh
  BY <1>0, <1>7 DEF Refresh, FeedInv, FeedTypes, Counted
<1>8. CASE Stop
  <2>1. /\ running' = FALSE /\ due' = FALSE /\ poll' = "idle" /\ failures' = 0 /\ alerted' = FALSE
        /\ unheard' = (unheard \/ told = "stale") /\ apart' = TRUE /\ feed' = feed /\ age' = age /\ told' = told
    BY <1>8 DEF Stop
  <2>2. 0 \in 0..Threshold /\ 0 # Threshold
    BY <1>0
  <2>3. FeedTypes'
    BY <2>1, <2>2 DEF FeedInv, FeedTypes
  <2>4. unheard' \/ (alerted' <=> told' = "stale")
    BY <2>1 DEF FeedInv, FeedTypes
  <2> QED BY <2>1, <2>2, <2>3, <2>4 DEF FeedInv
<1>9. CASE Start
  BY <1>0, <1>9 DEF Start, FeedInv, FeedTypes, Counted
<1>10. CASE UNCHANGED feedVars
  BY <1>10 DEF feedVars, FeedInv, FeedTypes, Counted
<1>11. ASSUME NEW p \in Admin,
              \/ \E op \in {"set", "clear"} : BeginOverride(p, op)
              \/ Deactivate(p) \/ RecordOverride(p) \/ CommitOverride(p) \/ AbortOverride(p)
       PROVE  UNCHANGED feedVars
  BY <1>11 DEF BeginOverride, Deactivate, RecordOverride, CommitOverride, AbortOverride
<1> QED BY <1>1, <1>2, <1>3, <1>4, <1>5, <1>6, <1>7, <1>8, <1>9, <1>10, <1>11 DEF Next, Job, vars

\* The alarm is up exactly while the rate counts as closed, as long as the newest row is
\* the job's own and its process the same, and the channel was told so unless a message
\* was lost (gold_rate_poller.py, gold_api.py).
THEOREM AlarmRight == Spec => []AlarmMatchesRate
<1>1. FeedInv => AlarmMatchesRate
  <2>1. ClosedAfter = Threshold
    BY ThresholdAssumption, MaxOfTwo DEF ClosedAfter
  <2> QED BY <2>1, ThresholdAssumption DEF FeedInv, FeedTypes, AlarmMatchesRate, MarketClosed, Counted
<1> QED BY <1>1, InitFeed, NextFeed, PTL DEF Spec

-----------------------------------------------------------------------------
(* The override and its log. *)

OverrideTypes ==
  /\ active \subseteq Override /\ request = [p \in Admin |-> request[p]]
  /\ \A p \in Admin : /\ request[p].op \in {"none", "set", "clear"} /\ request[p].beside \in BOOLEAN
                     /\ request[p] = [op |-> request[p].op, pc |-> request[p].pc, seen |-> request[p].seen,
                                 cleared |-> request[p].cleared, row |-> request[p].row, beside |-> request[p].beside]
                     /\ request[p].row \in Override \cup {NONE}

\* Requests that overlap know it.
OverlapKnown == \A p, q \in Requesting : p # q => request[p].beside

\* An override that is active is about to be deactivated by every request in flight,
\* unless its own ran beside another.
SeenOrOverlapped == \A p \in Requesting : active \subseteq request[p].seen \cup request[p].cleared \cup overlapped

\* What a request saw becomes what it deactivates; a process that serves none holds nothing.
SeenThenCleared ==
  /\ \A p \in Requesting : IF request[p].pc = "update" THEN request[p].cleared = {} ELSE request[p].seen = {}
  /\ \A p \in Admin \ Requesting : request[p] = NoRequest

OverrideInv ==
  /\ OverrideTypes /\ OverlapKnown /\ SeenOrOverlapped /\ SeenThenCleared /\ OverrideAsLogged

\* The fields of a process that serves no request.
LEMMA IdleFields ==
  /\ NoRequest = [op |-> "none", pc |-> "none", seen |-> {}, cleared |-> {}, row |-> NONE, beside |-> FALSE]
  /\ NoRequest.op = "none" /\ NoRequest.pc = "none" /\ NoRequest.seen = {} /\ NoRequest.cleared = {}
  /\ NoRequest.row = NONE /\ NoRequest.beside = FALSE
BY DEF NoRequest

\* No override is active at first.
LEMMA InitOverride == Init => OverrideInv
<1> SUFFICES ASSUME Init PROVE OverrideInv
  OBVIOUS
<1>1. active = {} /\ logged = NONE /\ overlapped = {} /\ request = [p \in Admin |-> NoRequest]
  BY DEF Init
<1>2. \A p \in Admin : request[p] = NoRequest
  BY <1>1
<1>3. OverrideTypes
  <2>1. ASSUME NEW p \in Admin
        PROVE  /\ request[p].op \in {"none", "set", "clear"} /\ request[p].beside \in BOOLEAN
               /\ request[p] = [op |-> request[p].op, pc |-> request[p].pc, seen |-> request[p].seen,
                           cleared |-> request[p].cleared, row |-> request[p].row, beside |-> request[p].beside]
               /\ request[p].row \in Override \cup {NONE}
    BY <1>2, IdleFields
  <2>2. request = [p \in Admin |-> request[p]]
    BY <1>1
  <2> QED BY <1>1, <2>1, <2>2 DEF OverrideTypes
<1>4. Requesting = {}
  BY <1>2, IdleFields DEF Requesting
<1>5. OverrideAsLogged
  BY <1>1 DEF OverrideAsLogged, Served
<1>6. OverlapKnown /\ SeenOrOverlapped
  BY <1>4 DEF OverlapKnown, SeenOrOverlapped
<1>7. SeenThenCleared
  BY <1>2, <1>4 DEF SeenThenCleared
<1> QED BY <1>3, <1>5, <1>6, <1>7 DEF OverrideInv

\* A request ends: of the requests in flight, the others keep what they know.
LEMMA RestAfterEnd ==
  ASSUME OverrideInv, NEW p \in Admin, request' = [request EXCEPT ![p] = NoRequest], active' \subseteq Override
  PROVE  /\ OverrideTypes' /\ OverlapKnown' /\ SeenThenCleared'
         /\ Requesting' = Requesting \ {p} /\ \A q \in Requesting' : q # p /\ q \in Requesting /\ request'[q] = request[q]
<1>1. request'[p] = NoRequest /\ \A q \in Admin : q # p => request'[q] = request[q]
  BY DEF OverrideInv, OverrideTypes
<1>2. ASSUME NEW q \in Admin
      PROVE  /\ request'[q].op \in {"none", "set", "clear"} /\ request'[q].beside \in BOOLEAN
             /\ request'[q] = [op |-> request'[q].op, pc |-> request'[q].pc, seen |-> request'[q].seen,
                          cleared |-> request'[q].cleared, row |-> request'[q].row, beside |-> request'[q].beside]
             /\ request'[q].row \in Override \cup {NONE}
  <2>1. CASE q = p
    BY <1>1, <2>1, IdleFields
  <2>2. CASE q # p
    BY <1>1, <2>2 DEF OverrideInv, OverrideTypes
  <2> QED BY <2>1, <2>2
<1>3. request' = [q \in Admin |-> request'[q]]
  BY DEF OverrideInv, OverrideTypes
<1>4. OverrideTypes'
  BY <1>2, <1>3 DEF OverrideTypes
<1>5. Requesting' = Requesting \ {p}
  BY <1>1, IdleFields DEF Requesting
<1>6. \A q \in Requesting' : q # p /\ q \in Requesting /\ request'[q] = request[q]
  BY <1>1, <1>5 DEF Requesting
<1>7. OverlapKnown'
  BY <1>6 DEF OverrideInv, OverlapKnown
<1>8. SeenThenCleared'
  <2>1. ASSUME NEW q \in Requesting' PROVE IF request'[q].pc = "update" THEN request'[q].cleared = {} ELSE request'[q].seen = {}
    BY <1>6 DEF OverrideInv, SeenThenCleared
  <2>2. ASSUME NEW q \in Admin \ Requesting' PROVE request'[q] = NoRequest
    BY <1>1, <1>5 DEF OverrideInv, SeenThenCleared
  <2> QED BY <2>1, <2>2 DEF SeenThenCleared
<1> QED BY <1>4, <1>5, <1>6, <1>7, <1>8

\* A request ends without a trace.
LEMMA EndsOverride ==
  ASSUME OverrideInv, NEW p \in Admin, request' = [request EXCEPT ![p] = NoRequest], UNCHANGED <<active, logged, overlapped>>
  PROVE  OverrideInv'
<1>1. active' \subseteq Override
  BY DEF OverrideInv, OverrideTypes
<1>2. OverrideTypes' /\ OverlapKnown' /\ SeenThenCleared'
      /\ \A q \in Requesting' : q # p /\ q \in Requesting /\ request'[q] = request[q]
  BY <1>1, RestAfterEnd
<1>3. SeenOrOverlapped'
  BY <1>2 DEF OverrideInv, SeenOrOverlapped
<1>4. OverrideAsLogged'
  BY DEF OverrideInv, OverrideAsLogged, Served
<1> QED BY <1>2, <1>3, <1>4 DEF OverrideInv

\* A request that begins sees what is active, and every other learns of it.
LEMMA BeginKeeps ==
  ASSUME OverrideInv, NEW p \in Admin, NEW op \in {"set", "clear"}, BeginOverride(p, op)
  PROVE  OverrideInv'
<1>1. PICK x : x = [NoRequest EXCEPT !.op = op, !.pc = "update", !.seen = active, !.beside = Requesting # {}]
  OBVIOUS
<1>a. x = [op |-> op, pc |-> "update", seen |-> active, cleared |-> {}, row |-> NONE, beside |-> Requesting # {}]
  BY <1>1, Zenon DEF NoRequest
<1>2. /\ x.op = op /\ x.pc = "update" /\ x.seen = active /\ x.row = NONE /\ x.cleared = {}
      /\ x.beside = (Requesting # {})
      /\ x = [op |-> x.op, pc |-> x.pc, seen |-> x.seen, cleared |-> x.cleared, row |-> x.row, beside |-> x.beside]
  BY <1>a, Zenon
<1>3. request' = [q \in Admin |-> IF q = p THEN x ELSE [request[q] EXCEPT !.beside = @ \/ q \in Requesting]]
  BY <1>1 DEF BeginOverride
<1>4. request'[p] = x /\ p \notin Requesting /\ active' = active /\ logged' = logged /\ overlapped' = overlapped
  BY <1>3 DEF BeginOverride
<1>5. ASSUME NEW q \in Admin, q # p
      PROVE  /\ request'[q].op = request[q].op /\ request'[q].pc = request[q].pc /\ request'[q].seen = request[q].seen
             /\ request'[q].cleared = request[q].cleared /\ request'[q].row = request[q].row
             /\ request'[q].beside = (request[q].beside \/ q \in Requesting)
             /\ request'[q] = [op |-> request'[q].op, pc |-> request'[q].pc, seen |-> request'[q].seen,
                          cleared |-> request'[q].cleared, row |-> request'[q].row, beside |-> request'[q].beside]
             /\ q \notin Requesting => request'[q] = request[q]
  <2>1. PICK y : y = request[q]
    OBVIOUS
  <2>2. y = [op |-> y.op, pc |-> y.pc, seen |-> y.seen, cleared |-> y.cleared, row |-> y.row, beside |-> y.beside]
        /\ y.beside \in BOOLEAN
    BY <2>1 DEF OverrideInv, OverrideTypes
  <2>3. PICK b : b = (y.beside \/ q \in Requesting)
    OBVIOUS
  <2>4. PICK z : z = [y EXCEPT !.beside = b]
    OBVIOUS
  <2>5. request'[q] = z
    BY <1>3, <1>5, <2>1, <2>3, <2>4, Zenon
  <2>6. z = [op |-> y.op, pc |-> y.pc, seen |-> y.seen, cleared |-> y.cleared, row |-> y.row, beside |-> b]
    BY <2>2, <2>4
  <2>7. /\ z.op = y.op /\ z.pc = y.pc /\ z.seen = y.seen /\ z.cleared = y.cleared /\ z.row = y.row /\ z.beside = b
        /\ z = [op |-> z.op, pc |-> z.pc, seen |-> z.seen, cleared |-> z.cleared, row |-> z.row, beside |-> z.beside]
    BY <2>6, Zenon
  <2>8. ASSUME q \notin Requesting PROVE request'[q] = request[q]
    <3>1. b = y.beside
      BY <2>2, <2>3, <2>8, Zenon
    <3> QED BY <2>1, <2>2, <2>5, <2>6, <3>1, Zenon
  <2> QED BY <2>1, <2>3, <2>5, <2>7, <2>8, Zenon
<1>6. Requesting' = Requesting \cup {p}
  <2>1. \A q \in Admin : q # p => request'[q].op = request[q].op
    BY <1>5
  <2> QED BY <1>2, <1>4, <2>1 DEF Requesting
<1>7. OverrideTypes'
  <2>1. ASSUME NEW q \in Admin
        PROVE  /\ request'[q].op \in {"none", "set", "clear"} /\ request'[q].beside \in BOOLEAN
               /\ request'[q] = [op |-> request'[q].op, pc |-> request'[q].pc, seen |-> request'[q].seen,
                            cleared |-> request'[q].cleared, row |-> request'[q].row, beside |-> request'[q].beside]
               /\ request'[q].row \in Override \cup {NONE}
    <3>1. CASE q = p
      <4>1. request'[q].op \in {"none", "set", "clear"} /\ request'[q].row \in Override \cup {NONE}
        BY <1>2, <1>4, <3>1
      <4>2. request'[q].beside \in BOOLEAN
        BY <1>2, <1>4, <3>1, Zenon
      <4> QED BY <1>2, <1>4, <3>1, <4>1, <4>2, Zenon
    <3>2. CASE q # p
      <4>1. request[q].op \in {"none", "set", "clear"} /\ request[q].row \in Override \cup {NONE}
        BY DEF OverrideInv, OverrideTypes
      <4>2. request'[q].beside \in BOOLEAN
        BY <1>5, <3>2, Zenon
      <4> QED BY <1>5, <3>2, <4>1, <4>2, Zenon
    <3> QED BY <3>1, <3>2
  <2>2. request' = [q \in Admin |-> request'[q]]
    BY <1>3
  <2> QED BY <1>4, <2>1, <2>2 DEF OverrideInv, OverrideTypes
<1>8. ASSUME NEW a \in Requesting', NEW b \in Requesting', a # b PROVE request'[a].beside
  <2>0. a \in Admin
    BY DEF Requesting
  <2>1. CASE a = p
    <3>1. b \in Requesting
      BY <1>6, <1>8, <2>1
    <3>2. Requesting # {}
      BY <3>1
    <3> QED BY <1>2, <1>4, <2>1, <3>2, Zenon
  <2>2. CASE a # p
    <3>1. a \in Requesting
      BY <1>6, <2>2
    <3> QED BY <1>5, <2>0, <2>2, <3>1, Zenon
  <2> QED BY <2>1, <2>2
<1>9. ASSUME NEW a \in Requesting' PROVE active' \subseteq request'[a].seen \cup request'[a].cleared \cup overlapped'
  <2>1. CASE a = p
    BY <1>2, <1>4, <2>1
  <2>2. CASE a # p
    <3>1. a \in Requesting /\ a \in Admin
      BY <1>6, <2>2 DEF Requesting
    <3>2. request'[a].seen = request[a].seen /\ request'[a].cleared = request[a].cleared
      BY <1>5, <2>2, <3>1
    <3>3. active \subseteq request[a].seen \cup request[a].cleared \cup overlapped
      BY <3>1 DEF OverrideInv, SeenOrOverlapped
    <3> QED BY <1>4, <3>2, <3>3
  <2> QED BY <2>1, <2>2
<1>10. SeenThenCleared'
  <2>1. ASSUME NEW a \in Requesting' PROVE IF request'[a].pc = "update" THEN request'[a].cleared = {} ELSE request'[a].seen = {}
    <3>1. CASE a = p
      BY <1>2, <1>4, <3>1
    <3>2. CASE a # p
      <4>1. a \in Requesting /\ a \in Admin
        BY <1>6, <3>2 DEF Requesting
      <4>2. request'[a].seen = request[a].seen /\ request'[a].cleared = request[a].cleared /\ request'[a].pc = request[a].pc
        BY <1>5, <3>2, <4>1
      <4> QED BY <4>1, <4>2 DEF OverrideInv, SeenThenCleared
    <3> QED BY <3>1, <3>2
  <2>2. ASSUME NEW a \in Admin \ Requesting' PROVE request'[a] = NoRequest
    <3>1. a # p /\ a \in Admin \ Requesting
      BY <1>6
    <3>2. request'[a] = request[a]
      BY <1>5, <3>1
    <3> QED BY <3>1, <3>2 DEF OverrideInv, SeenThenCleared
  <2> QED BY <2>1, <2>2 DEF SeenThenCleared
<1>11. OverrideAsLogged'
  BY <1>4 DEF OverrideInv, OverrideAsLogged, Served
<1>12. OverlapKnown' /\ SeenOrOverlapped'
  BY <1>8, <1>9 DEF OverlapKnown, SeenOrOverlapped
<1> QED BY <1>7, <1>10, <1>11, <1>12 DEF OverrideInv

\* A process whose request has begun is in flight.
LEMMA BegunInFlight == ASSUME OverrideInv, NEW p \in Admin, request[p].pc # "none" PROVE p \in Requesting
BY IdleFields DEF OverrideInv, SeenThenCleared

\* What a step of a request changes of its own record keeps the rest.
LEMMA OwnStep ==
  ASSUME OverrideInv, NEW p \in Requesting, NEW x, request' = [request EXCEPT ![p] = x],
         x = [op |-> x.op, pc |-> x.pc, seen |-> x.seen, cleared |-> x.cleared, row |-> x.row, beside |-> x.beside],
         x.op = request[p].op, x.beside = request[p].beside, x.row \in Override \cup {NONE},
         UNCHANGED <<active, logged, overlapped>>,
         active \subseteq x.seen \cup x.cleared \cup overlapped,
         x.pc # "update", x.seen = {}
  PROVE  OverrideInv'
<1>3. p \in Admin /\ request'[p] = x /\ \A q \in Admin : q # p => request'[q] = request[q]
  BY DEF Requesting, OverrideInv, OverrideTypes
<1>4. Requesting' = Requesting
  BY <1>3 DEF Requesting
<1>5. OverrideTypes'
  <2>1. ASSUME NEW q \in Admin
        PROVE  /\ request'[q].op \in {"none", "set", "clear"} /\ request'[q].beside \in BOOLEAN
               /\ request'[q] = [op |-> request'[q].op, pc |-> request'[q].pc, seen |-> request'[q].seen,
                            cleared |-> request'[q].cleared, row |-> request'[q].row, beside |-> request'[q].beside]
               /\ request'[q].row \in Override \cup {NONE}
    <3>1. request[q].op \in {"none", "set", "clear"} /\ request[q].beside \in BOOLEAN /\ request[q].row \in Override \cup {NONE}
          /\ request[q] = [op |-> request[q].op, pc |-> request[q].pc, seen |-> request[q].seen,
                      cleared |-> request[q].cleared, row |-> request[q].row, beside |-> request[q].beside]
      BY DEF OverrideInv, OverrideTypes
    <3>2. CASE q = p
      BY <1>3, <3>1, <3>2, Zenon
    <3>3. CASE q # p
      BY <1>3, <3>1, <3>3, Zenon
    <3> QED BY <3>2, <3>3
  <2>2. request' = [q \in Admin |-> request'[q]]
    BY DEF OverrideInv, OverrideTypes
  <2> QED BY <2>1, <2>2 DEF OverrideInv, OverrideTypes
<1>6. OverlapKnown'
  <2>1. \A q \in Requesting : request'[q].beside = request[q].beside
    BY <1>3 DEF Requesting
  <2> QED BY <1>4, <2>1 DEF OverrideInv, OverlapKnown
<1>7. SeenOrOverlapped'
  <2>1. ASSUME NEW q \in Requesting PROVE active \subseteq request'[q].seen \cup request'[q].cleared \cup overlapped
    <3>1. CASE q = p
      BY <1>3, <3>1
    <3>2. CASE q # p
      <4>1. request'[q] = request[q]
        BY <1>3, <3>2 DEF Requesting
      <4> QED BY <4>1 DEF OverrideInv, SeenOrOverlapped
    <3> QED BY <3>1, <3>2
  <2> QED BY <1>4, <2>1 DEF SeenOrOverlapped
<1>8. SeenThenCleared'
  <2>1. ASSUME NEW q \in Requesting PROVE IF request'[q].pc = "update" THEN request'[q].cleared = {} ELSE request'[q].seen = {}
    <3>1. CASE q = p
      BY <1>3, <3>1
    <3>2. CASE q # p
      <4>1. request'[q] = request[q]
        BY <1>3, <3>2 DEF Requesting
      <4> QED BY <4>1 DEF OverrideInv, SeenThenCleared
    <3> QED BY <3>1, <3>2
  <2>2. ASSUME NEW q \in Admin \ Requesting PROVE request'[q] = NoRequest
    <3>1. q # p
      OBVIOUS
    <3> QED BY <1>3, <3>1 DEF OverrideInv, SeenThenCleared
  <2> QED BY <1>4, <2>1, <2>2 DEF SeenThenCleared
<1>9. OverrideAsLogged'
  BY DEF OverrideInv, OverrideAsLogged, Served
<1> QED BY <1>5, <1>6, <1>7, <1>8, <1>9 DEF OverrideInv

\* What a request deactivates is what it saw and is still active.
LEMMA DeactivateKeeps == ASSUME OverrideInv, NEW p \in Admin, Deactivate(p) PROVE OverrideInv'
<1>1. PICK rows, new : /\ rows = request[p].seen \cap active /\ new \in Override \cup {NONE}
                       /\ request' = [request EXCEPT ![p].pc = "record", ![p].cleared = rows, ![p].row = new, ![p].seen = {}]
  BY DEF Deactivate, Cleared
<1>2. request[p].pc = "update" /\ active' = active /\ logged' = logged /\ overlapped' = overlapped
  BY DEF Deactivate
<1>3. p \in Requesting
  BY <1>2, BegunInFlight
<1>4. PICK y : y = request[p]
  OBVIOUS
<1>5. y = [op |-> y.op, pc |-> y.pc, seen |-> y.seen, cleared |-> y.cleared, row |-> y.row, beside |-> y.beside]
  BY <1>4 DEF OverrideInv, OverrideTypes
<1>6. PICK z : z = [y EXCEPT !.pc = "record", !.cleared = rows, !.row = new, !.seen = {}]
  OBVIOUS
<1>7. z = [op |-> y.op, pc |-> "record", seen |-> {}, cleared |-> rows, row |-> new, beside |-> y.beside]
  BY <1>5, <1>6, Zenon
<1>8. request' = [request EXCEPT ![p] = z]
  BY <1>1, <1>4, <1>6 DEF OverrideInv, OverrideTypes
<1>9. active \subseteq {} \cup rows \cup overlapped
  <2>1. active \subseteq request[p].seen \cup request[p].cleared \cup overlapped
    BY <1>3 DEF OverrideInv, SeenOrOverlapped
  <2>2. request[p].cleared = {}
    BY <1>2, <1>3 DEF OverrideInv, SeenThenCleared
  <2> QED BY <1>1, <2>1, <2>2
<1>10. /\ z = [op |-> z.op, pc |-> z.pc, seen |-> z.seen, cleared |-> z.cleared, row |-> z.row, beside |-> z.beside]
       /\ z.op = request[p].op /\ z.beside = request[p].beside /\ z.row = new /\ z.pc = "record" /\ z.seen = {} /\ z.cleared = rows
  BY <1>4, <1>7, Zenon
<1>11. active \subseteq z.seen \cup z.cleared \cup overlapped
  BY <1>9, <1>10
<1>12. z.row \in Override \cup {NONE} /\ z.pc # "update"
  BY <1>1, <1>10
<1> QED BY <1>2, <1>3, <1>8, <1>10, <1>11, <1>12, OwnStep

\* Taking the ledger's head changes nothing of what a request knows.
LEMMA RecordKeeps == ASSUME OverrideInv, NEW p \in Admin, RecordOverride(p) PROVE OverrideInv'
<1>1. request' = [request EXCEPT ![p].pc = "commit"] /\ UNCHANGED <<active, logged, overlapped>> /\ request[p].pc = "record"
  BY DEF RecordOverride
<1>2. p \in Requesting
  BY <1>1, BegunInFlight
<1>3. PICK y : y = request[p]
  OBVIOUS
<1>4. y = [op |-> y.op, pc |-> y.pc, seen |-> y.seen, cleared |-> y.cleared, row |-> y.row, beside |-> y.beside]
      /\ y.row \in Override \cup {NONE}
  BY <1>3 DEF OverrideInv, OverrideTypes
<1>5. PICK z : z = [y EXCEPT !.pc = "commit"]
  OBVIOUS
<1>6. z = [op |-> y.op, pc |-> "commit", seen |-> y.seen, cleared |-> y.cleared, row |-> y.row, beside |-> y.beside]
  BY <1>4, <1>5, Zenon
<1>7. request' = [request EXCEPT ![p] = z]
  BY <1>1, <1>3, <1>5 DEF OverrideInv, OverrideTypes
<1>8. active \subseteq y.seen \cup y.cleared \cup overlapped /\ y.seen = {}
  BY <1>1, <1>2, <1>3 DEF OverrideInv, SeenOrOverlapped, SeenThenCleared
<1>9. /\ z = [op |-> z.op, pc |-> z.pc, seen |-> z.seen, cleared |-> z.cleared, row |-> z.row, beside |-> z.beside]
      /\ z.op = request[p].op /\ z.beside = request[p].beside /\ z.row = y.row /\ z.pc = "commit" /\ z.seen = y.seen
      /\ z.cleared = y.cleared
  BY <1>3, <1>6, Zenon
<1>10. active \subseteq z.seen \cup z.cleared \cup overlapped /\ z.seen = {}
  BY <1>8, <1>9
<1>11. z.row \in Override \cup {NONE} /\ z.pc # "update"
  BY <1>4, <1>9
<1> QED BY <1>1, <1>2, <1>7, <1>9, <1>10, <1>11, OwnStep

\* The override a request sets is the one logged, and it has deactivated all it saw.
LEMMA CommitKeeps == ASSUME OverrideInv, NEW p \in Admin, CommitOverride(p) PROVE OverrideInv'
<1>1. PICK t : t = request[p]
  OBVIOUS
<1>2. /\ t.pc = "commit" /\ active' = (active \ t.cleared) \cup ({t.row} \ {NONE}) /\ logged' = t.row
      /\ overlapped' = (overlapped \cup (IF t.beside THEN {t.row} ELSE {})) \cap active'
      /\ request' = [request EXCEPT ![p] = NoRequest]
  BY <1>1 DEF CommitOverride, Release
<1>3. active \subseteq Override /\ t.row \in Override \cup {NONE}
  BY <1>1 DEF OverrideInv, OverrideTypes
<1>4. active' \subseteq Override
  BY <1>2, <1>3
<1>5. /\ OverrideTypes' /\ OverlapKnown' /\ SeenThenCleared'
      /\ \A q \in Requesting' : q # p /\ q \in Requesting /\ request'[q] = request[q]
  BY <1>2, <1>4, RestAfterEnd
<1>6. p \in Requesting
  BY <1>1, <1>2, BegunInFlight
<1>7. t.seen = {} /\ active \subseteq t.seen \cup t.cleared \cup overlapped
  BY <1>1, <1>2, <1>6 DEF OverrideInv, SeenThenCleared, SeenOrOverlapped
<1>8. ASSUME NEW q \in Requesting' PROVE active' \subseteq request'[q].seen \cup request'[q].cleared \cup overlapped'
  <2>1. q \in Requesting /\ q # p /\ request'[q] = request[q]
    BY <1>5
  <2>2. active \subseteq request[q].seen \cup request[q].cleared \cup overlapped
    BY <2>1 DEF OverrideInv, SeenOrOverlapped
  <2>3. t.beside
    BY <1>1, <1>6, <2>1 DEF OverrideInv, OverlapKnown
  <2>4. overlapped' = (overlapped \cup {t.row}) \cap active'
    BY <1>2, <2>3
  <2>5. ASSUME NEW o \in active' PROVE o \in request'[q].seen \cup request'[q].cleared \cup overlapped'
    BY <1>2, <2>1, <2>2, <2>4, <2>5
  <2> QED BY <2>5
<1>9. \A o \in active' : o = logged' \/ o \in overlapped'
  BY <1>2, <1>7
<1>10. logged' # NONE => logged' \in active'
  BY <1>2
<1>11. OverrideAsLogged'
  <2>1. CASE active' = {}
    BY <1>10, <2>1 DEF OverrideAsLogged, Served
  <2>2. CASE active' # {}
    BY <1>9, <1>10, <2>2 DEF OverrideAsLogged, Served
  <2> QED BY <2>1, <2>2
<1>12. SeenOrOverlapped'
  BY <1>8 DEF SeenOrOverlapped
<1> QED BY <1>5, <1>11, <1>12 DEF OverrideInv

\* A process that is stopped takes every request with it.
LEMMA StopKeeps == ASSUME OverrideInv, Stop PROVE OverrideInv'
<1>1. request' = [p \in Admin |-> NoRequest] /\ UNCHANGED <<active, logged, overlapped>>
  BY DEF Stop
<1>2. \A p \in Admin : request'[p] = NoRequest
  BY <1>1
<1>3. OverrideTypes'
  <2>1. ASSUME NEW p \in Admin
        PROVE  /\ request'[p].op \in {"none", "set", "clear"} /\ request'[p].beside \in BOOLEAN
               /\ request'[p] = [op |-> request'[p].op, pc |-> request'[p].pc, seen |-> request'[p].seen,
                            cleared |-> request'[p].cleared, row |-> request'[p].row, beside |-> request'[p].beside]
               /\ request'[p].row \in Override \cup {NONE}
    BY <1>2, IdleFields
  <2>2. request' = [p \in Admin |-> request'[p]]
    BY <1>1
  <2> QED BY <1>1, <2>1, <2>2 DEF OverrideInv, OverrideTypes
<1>4. Requesting' = {}
  BY <1>2, IdleFields DEF Requesting
<1>5. OverrideAsLogged'
  BY <1>1 DEF OverrideInv, OverrideAsLogged, Served
<1>6. OverlapKnown' /\ SeenOrOverlapped'
  BY <1>4 DEF OverlapKnown, SeenOrOverlapped
<1>7. SeenThenCleared'
  BY <1>2, <1>4 DEF SeenThenCleared
<1> QED BY <1>3, <1>5, <1>6, <1>7 DEF OverrideInv

\* Every step keeps the invariant of the override.
LEMMA NextOverride == OverrideInv /\ [Next]_vars => OverrideInv'
<1> SUFFICES ASSUME OverrideInv, [Next]_vars PROVE OverrideInv'
  OBVIOUS
<1>1. CASE UNCHANGED <<active, logged, overlapped, request>>
  <2>1. Requesting' = Requesting
    BY <1>1 DEF Requesting
  <2> QED BY <1>1, <2>1 DEF OverrideInv, OverrideTypes, OverlapKnown, SeenOrOverlapped, SeenThenCleared,
                            OverrideAsLogged, Served
<1>2. Tick \/ Job \/ FeedChanges \/ Refresh \/ Start \/ UNCHANGED vars
      => UNCHANGED <<active, logged, overlapped, request>>
  BY DEF Tick, Job, PollSucceeds, PollFails, Alarm, CallOff, FeedChanges, Refresh, Start, vars, overrideVars
<1>3. ASSUME NEW p \in Admin, AbortOverride(p) PROVE OverrideInv'
  BY <1>3, EndsOverride DEF AbortOverride, Release
<1> QED BY <1>1, <1>2, <1>3, StopKeeps, BeginKeeps, DeactivateKeeps, RecordKeeps, CommitKeeps DEF Next

\* The override served is the one the ledger says was set last, and none once it says
\* cleared, unless the request that set it ran beside another (gold_price.set_override,
\* clear_override).
THEOREM OverrideRight == Spec => []OverrideAsLogged
<1>1. OverrideInv => OverrideAsLogged
  BY DEF OverrideInv
<1> QED BY <1>1, InitOverride, NextOverride, PTL DEF Spec

-----------------------------------------------------------------------------
(* The invariant of the deals. *)

Rate == Feed \cup Overrides

\* What a cashier saw, or a request read, at a time to the second.
ReadingOK(s) == s.rate \in Rate /\ s.at \in Nat

\* A screen shows the newest row's rate if it shows the newest row's time, but for twins.
ScreenOK(s, newest, twice) ==
  /\ ReadingOK(s) /\ s.margin \in Margins /\ s.at <= newest.at
  /\ s.at = newest.at /\ s.at \notin twice => s.rate = newest.rate

\* A deal is acknowledged and priced as it was read.
DealOK(d, twice) ==
  /\ ReadingOK(d.reading) /\ d.seen.rate \in Rate /\ d.seen.margin \in Margins
  /\ d.reading.closed => d.ack # NoValue /\ (d.reading.at \in twice \/ d.reading.rate = d.seen.rate)
  /\ d.expected \in {NoValue, d.seen.rate} /\ WithinDrift(d.reading.rate, d.expected)
  /\ d.price # NoValue /\ d.margin \in Margins \cup {NoValue}
  /\ d.margin # NoValue => d.price = Price(d.kind, d.reading.rate, d.margin)

Tables ==
  /\ row.rate \in Rate /\ row.at \in Nat \ {0} /\ override \in Overrides \cup {NoValue}
  /\ margin \in Margins
  /\ Len(deals) \in Nat /\ deals = [n \in 1..Len(deals) |-> deals[n]]

AcksOK ==
  /\ \A a \in acks : a.deal \in 1..Len(deals)
  /\ \A n \in DOMAIN deals : (\E a \in acks : a.deal = n) <=> deals[n].reading.closed

DealsInv ==
  /\ Tables /\ AcksOK
  /\ \A p \in Cashier : seen[p] = NoValue \/ ScreenOK(seen[p], row, twins)
  /\ req = [p \in Cashier |-> req[p]] /\ seen = [p \in Cashier |-> seen[p]]
  /\ \A p \in Cashier : req[p] = NoDeal \/ (req[p].pc = "writing" /\ DealOK(req[p], twins))
  /\ \A n \in DOMAIN deals : DealOK(deals[n], twins)

-----------------------------------------------------------------------------
(* Prices. *)

\* Rounding moves an amount by half a cent at most, so two amounts by a cent.
LEMMA Rounding ==
  ASSUME NEW x \in Int, NEW y \in Int, NEW b \in Int, Apart(x, y) <= b
  PROVE  /\ HalfUp(x, 100000) \in Int /\ HalfUp(y, 100000) \in Int
         /\ Apart(HalfUp(x, 100000), HalfUp(y, 100000)) * 100000 <= b + 100000
<1>1. PICK m, n : m = HalfUp(x, 100000) /\ n = HalfUp(y, 100000)
  OBVIOUS
<1>2. m \in Int /\ 200000 * m <= 2 * x + 100000 /\ 2 * x + 100000 < 200000 * m + 200000
  BY <1>1 DEF HalfUp
<1>3. n \in Int /\ 200000 * n <= 2 * y + 100000 /\ 2 * y + 100000 < 200000 * n + 200000
  BY <1>1 DEF HalfUp
<1>4. Apart(m, n) * 100000 <= b + 100000
  BY <1>2, <1>3 DEF Apart
<1> QED BY <1>1, <1>2, <1>3, <1>4

\* A factor that is not negative keeps an order.
LEMMA Scaled ==
  ASSUME NEW a \in Int, NEW b \in Int, NEW c \in Nat, a <= b
  PROVE  a * c <= b * c /\ a * c \in Int /\ b * c \in Int
OBVIOUS

\* And scales a distance.
LEMMA ApartScaled ==
  ASSUME NEW a \in Int, NEW b \in Int, NEW c \in Nat
  PROVE  Apart(a * c, b * c) = Apart(a, b) * c
<1>1. CASE a < b
  <2>1. a * c <= b * c /\ a * c \in Int /\ b * c \in Int
    BY <1>1, Scaled
  <2>2. (b - a) * c = b * c - a * c
    OBVIOUS
  <2> QED BY <1>1, <2>1, <2>2 DEF Apart
<1>2. CASE ~(a < b)
  <2>1. b * c <= a * c /\ a * c \in Int /\ b * c \in Int
    BY <1>2, Scaled
  <2>2. (a - b) * c = a * c - b * c
    OBVIOUS
  <2> QED BY <1>2, <2>1, <2>2 DEF Apart
<1> QED BY <1>1, <1>2

\* A rate within the drift moves the price by the drift of what is left of the gold, and a cent.
LEMMA PriceMoves ==
  ASSUME NEW r \in Nat \ {0}, NEW q \in Nat \ {0}, NEW k, NEW g \in Nat, Purity[k] \in Nat,
         NEW m \in Margins, Apart(r, q) * 100 <= DriftMax * q,
         BuybackPrice(r, k, g, m) # NoValue, BuybackPrice(q, k, g, m) # NoValue
  PROVE  Apart(BuybackPrice(r, k, g, m), BuybackPrice(q, k, g, m)) * 100000
           <= ((DriftMax * q) \div 100) * Purity[k] * g * Share(m) + 100000
<1>1. PICK P, v, s, d, e : P = Purity[k] /\ v = m.value /\ s = Share(m) /\ d = (DriftMax * q) \div 100 /\ e = Apart(r, q)
  OBVIOUS
<1>2. P \in Nat /\ v \in Int /\ r \in Int /\ q \in Int
  BY <1>1, SettingsAssumption
<1>3. e \in Nat /\ d \in Int /\ e <= d
  <2>1. PICK z : z = DriftMax * q
    OBVIOUS
  <2>2. z \in Int /\ e \in Nat /\ e * 100 <= z /\ d = z \div 100
    BY <1>1, <1>2, <2>1, SettingsAssumption DEF Apart
  <2> QED BY <2>2
<1>4. PICK f, h : /\ f = IF m.mode = "PERCENT" THEN r * P * (100 - v) ELSE (r * P - v * 1000) * 100
                  /\ h = IF m.mode = "PERCENT" THEN q * P * (100 - v) ELSE (q * P - v * 1000) * 100
  OBVIOUS
<1>5. /\ f \in Int /\ h \in Int /\ f > 0 /\ h > 0
      /\ BuybackPrice(r, k, g, m) = HalfUp(f * g, 100000) /\ BuybackPrice(q, k, g, m) = HalfUp(h * g, 100000)
  <2>1. f \in Int /\ h \in Int
    BY <1>2, <1>4
  <2>2. BuybackPrice(r, k, g, m) = (IF f <= 0 THEN NoValue ELSE HalfUp(f * g, 100000))
        /\ BuybackPrice(q, k, g, m) = (IF h <= 0 THEN NoValue ELSE HalfUp(h * g, 100000))
    BY <1>1, <1>4 DEF BuybackPrice
  <2> QED BY <2>1, <2>2
<1>6. s \in Nat /\ Apart(f, h) = (e * P) * s
  <2>1. r * P \in Nat /\ q * P \in Nat /\ Apart(r * P, q * P) = e * P
    <3>1. Apart(r * P, q * P) = Apart(r, q) * P
      BY <1>2, ApartScaled
    <3>2. r * P \in Nat /\ q * P \in Nat
      BY <1>2
    <3> QED BY <1>1, <3>1, <3>2
  <2>2. CASE m.mode = "PERCENT"
    <3>1. s = 100 - v /\ f = (r * P) * s /\ h = (q * P) * s /\ s \in Int
      BY <1>1, <1>2, <1>4, <2>2 DEF Share
    <3>2. s \in Nat
      <4>1. PICK a : a = r * P
        OBVIOUS
      <4>2. a \in Nat /\ a * s > 0 /\ s \in Int
        BY <1>5, <2>1, <3>1, <4>1
      <4>3. ~(s < 0)
        BY <4>2
      <4> QED BY <3>1, <4>3
    <3>3. Apart((r * P) * s, (q * P) * s) = Apart(r * P, q * P) * s
      BY <2>1, <3>2, ApartScaled
    <3> QED BY <2>1, <3>1, <3>2, <3>3
  <2>3. CASE m.mode # "PERCENT"
    <3>1. s = 100 /\ f = (r * P - v * 1000) * 100 /\ h = (q * P - v * 1000) * 100
      BY <1>1, <1>4, <2>3 DEF Share
    <3>2. PICK a, b, w : a = r * P /\ b = q * P /\ w = v * 1000
      OBVIOUS
    <3>3. a \in Int /\ b \in Int /\ w \in Int /\ Apart(a, b) = e * P
      BY <1>2, <2>1, <3>2
    <3>4. Apart((a - w) * 100, (b - w) * 100) = Apart(a, b) * 100
      BY <3>3 DEF Apart
    <3> QED BY <3>1, <3>2, <3>3, <3>4
  <2> QED BY <2>2, <2>3
<1>7. Apart(f * g, h * g) <= d * P * g * s
  <2>1. Apart(f * g, h * g) = Apart(f, h) * g
    BY <1>5, ApartScaled
  <2>2. PICK c : c = P * (g * s)
    OBVIOUS
  <2>3. c \in Nat
    <3>1. g * s \in Nat
      BY <1>6
    <3> QED BY <1>2, <2>2, <3>1
  <2>4. e * c <= d * c
    BY <1>3, <2>3, Scaled
  <2>5. ((e * P) * s) * g = e * c
    BY <1>2, <1>3, <1>6, <2>2
  <2>6. d * P * g * s = d * c
    BY <1>2, <1>3, <1>6, <2>2
  <2> QED BY <1>6, <2>1, <2>4, <2>5, <2>6
<1>8. f * g \in Int /\ h * g \in Int /\ d * P * g * s \in Int
  BY <1>2, <1>3, <1>5, <1>6
<1>9. Apart(HalfUp(f * g, 100000), HalfUp(h * g, 100000)) * 100000 <= d * P * g * s + 100000
  BY <1>7, <1>8, Rounding
<1> QED BY <1>1, <1>5, <1>9

-----------------------------------------------------------------------------
(* The steps. *)

\* A deal that was answerable stays so: twins are never taken away.
LEMMA DealStays == ASSUME NEW d, NEW S, NEW T, DealOK(d, S), S \subseteq T PROVE DealOK(d, T)
BY DEF DealOK

\* What a request reads is a rate at a time.
LEMMA CurrentRateOK == ASSUME Tables PROVE ReadingOK(CurrentRate)
BY RateAssumption DEF Tables, ReadingOK, CurrentRate, Rate

\* The deals are left alone by everything but a commit.
LEMMA DealsKept ==
  ASSUME DealsInv, UNCHANGED <<deals, acks>>, twins \subseteq twins'
  PROVE  /\ AcksOK' /\ \A n \in DOMAIN deals' : DealOK(deals'[n], twins')
         /\ Len(deals') \in Nat /\ deals' = [n \in 1..Len(deals') |-> deals'[n]]
<1>1. AcksOK'
  BY DEF DealsInv, AcksOK
<1>2. \A n \in DOMAIN deals : DealOK(deals[n], twins')
  BY DealStays DEF DealsInv
<1>3. Len(deals) \in Nat /\ deals = [n \in 1..Len(deals) |-> deals[n]]
  BY DEF DealsInv, Tables
<1> QED BY <1>1, <1>2, <1>3

\* The rate, the clock, the override and the margin move.
LEMMA MarketOK ==
  ASSUME DealsInv, UNCHANGED <<seen, req, shopVars>>, Tables', twins \subseteq twins',
         \A s : ScreenOK(s, row, twins) => ScreenOK(s, row', twins')
  PROVE  DealsInv'
<1>1. UNCHANGED <<deals, acks>>
  BY DEF shopVars
<1>2. AcksOK' /\ \A n \in DOMAIN deals' : DealOK(deals'[n], twins')
  BY <1>1, DealsKept
<1>3. ASSUME NEW p \in Cashier PROVE seen'[p] = NoValue \/ ScreenOK(seen'[p], row', twins')
  BY DEF DealsInv
<1>4. ASSUME NEW p \in Cashier PROVE req'[p] = NoDeal \/ (req'[p].pc = "writing" /\ DealOK(req'[p], twins'))
  BY DealStays DEF DealsInv
<1>5. req' = [p \in Cashier |-> req'[p]] /\ seen' = [p \in Cashier |-> seen'[p]]
  BY DEF DealsInv
<1> QED BY <1>2, <1>3, <1>4, <1>5 DEF DealsInv

\* A new row.
LEMMA NewRowOK == ASSUME DealsInv, NEW rate \in Feed, NEW same \in BOOLEAN, NewRate(rate, same) PROVE DealsInv'
<1>1. row.rate \in Rate /\ row.at \in Nat \ {0}
  BY DEF DealsInv, Tables
<1>2. /\ row'.rate = rate /\ row'.at = IF same THEN row.at ELSE row.at + 1
      /\ twins' = IF same /\ rate # row.rate THEN twins \cup {row.at} ELSE twins
      /\ UNCHANGED <<override, margin, seen, req, shopVars>>
  BY DEF NewRate
<1>3. Tables'
  BY <1>1, <1>2 DEF DealsInv, Tables, Rate, shopVars
<1>4. ASSUME NEW s, ScreenOK(s, row, twins) PROVE ScreenOK(s, row', twins')
  <2>1. CASE same
    BY <1>1, <1>2, <1>4, <2>1 DEF ScreenOK, ReadingOK
  <2>2. CASE ~same
    BY <1>1, <1>2, <1>4, <2>2 DEF ScreenOK, ReadingOK
  <2> QED BY <2>1, <2>2
<1> QED BY <1>2, <1>3, <1>4, MarketOK

\* Time, an override, a margin.
LEMMA TermsOK ==
  ASSUME DealsInv,
         \/ GrowOld
         \/ \E rate \in Overrides \cup {NoValue} : SetOverride(rate)
         \/ \E m \in Margins : ChangeMargin(m)
  PROVE  DealsInv'
<1>1. UNCHANGED <<row, twins, seen, req, shopVars>> /\ override' \in Overrides \cup {NoValue} /\ margin' \in Margins
  BY DEF GrowOld, SetOverride, ChangeMargin, rateVars, DealsInv, Tables
<1>2. Tables'
  BY <1>1 DEF DealsInv, Tables, shopVars
<1>3. ASSUME NEW s, ScreenOK(s, row, twins) PROVE ScreenOK(s, row', twins')
  BY <1>1, <1>3 DEF ScreenOK, ReadingOK
<1> QED BY <1>1, <1>2, <1>3, MarketOK

\* Everything but what p sees and does is left alone.
LEMMA CashierOK ==
  ASSUME DealsInv, NEW p \in Cashier, UNCHANGED <<rateVars, margin, deals, acks>>,
         NEW s, NEW t, seen' = [seen EXCEPT ![p] = s], req' = [req EXCEPT ![p] = t],
         s = seen[p] \/ ScreenOK(s, row, twins), t = NoDeal \/ (t.pc = "writing" /\ DealOK(t, twins))
  PROVE  DealsInv'
<1>1. UNCHANGED <<row, twins, override, margin, deals, acks>>
  BY DEF rateVars
<1>2. Tables' /\ AcksOK' /\ \A n \in DOMAIN deals' : DealOK(deals'[n], twins')
  BY <1>1, DealsKept DEF DealsInv, Tables
<1>3. ASSUME NEW q \in Cashier PROVE seen'[q] = NoValue \/ ScreenOK(seen'[q], row', twins')
  BY <1>1 DEF DealsInv, ScreenOK, ReadingOK
<1>4. ASSUME NEW q \in Cashier PROVE req'[q] = NoDeal \/ (req'[q].pc = "writing" /\ DealOK(req'[q], twins'))
  BY <1>1, DealStays DEF DealsInv
<1>5. req' = [q \in Cashier |-> req'[q]] /\ seen' = [q \in Cashier |-> seen'[q]]
  BY DEF DealsInv
<1> QED BY <1>2, <1>3, <1>4, <1>5 DEF DealsInv

\* Looking.
LEMMA LookOK == ASSUME DealsInv, NEW p \in Cashier, Look(p) PROVE DealsInv'
<1>1. PICK s : s = [rate |-> CurrentRate.rate, at |-> CurrentRate.at, closed |-> CurrentRate.closed, margin |-> margin]
  OBVIOUS
<1>2. ScreenOK(s, row, twins)
  <2>1. ReadingOK(CurrentRate) /\ margin \in Margins
    BY CurrentRateOK DEF DealsInv, Tables
  <2>2. s.at = row.at => s.rate = row.rate
    BY <1>1 DEF DealsInv, Tables, CurrentRate
  <2>3. s.at <= row.at
    BY <1>1 DEF DealsInv, Tables, CurrentRate
  <2> QED BY <1>1, <2>1, <2>2, <2>3 DEF ScreenOK, ReadingOK
<1>3. seen' = [seen EXCEPT ![p] = s] /\ req' = [req EXCEPT ![p] = req[p]] /\ UNCHANGED <<rateVars, margin, deals, acks>>
  BY <1>1 DEF Look, shopVars, DealsInv
<1>4. req[p] = NoDeal
  BY DEF Look
<1> QED BY <1>2, <1>3, <1>4, CashierOK

\* A request.
LEMMA BeginOK ==
  ASSUME DealsInv, NEW p \in Cashier, NEW kind, NEW ack \in {NoValue, seen[p].at}, NEW expected \in {NoValue, seen[p].rate},
         NEW own \in {NoValue, seen[p].margin}, NEW byHand \in BOOLEAN, BeginDeal(p, kind, ack, expected, own, byHand)
  PROVE  DealsInv'
<1>1. PICK s, r, m : s = seen[p] /\ r = CurrentRate /\ m = IF own = NoValue THEN margin ELSE own
  OBVIOUS
<1>2. PICK price : price = IF byHand THEN HandPrice ELSE Price(kind, r.rate, m)
  OBVIOUS
<1>3. PICK t : t = [pc |-> "writing", kind |-> kind, reading |-> r, ack |-> ack, expected |-> expected,
                    margin |-> IF byHand THEN NoValue ELSE m, price |-> price, seen |-> s]
  OBVIOUS
<1>4. req' = [req EXCEPT ![p] = t] /\ UNCHANGED <<rateVars, margin, seen, shopVars>> /\ s # NoValue /\ price # NoValue
      /\ Acceptable(r, ack) /\ WithinDrift(r.rate, expected)
  BY <1>1, <1>2, <1>3 DEF BeginDeal
<1>5. ScreenOK(s, row, twins) /\ ReadingOK(r) /\ margin \in Margins /\ m \in Margins
  BY <1>1, <1>4, CurrentRateOK DEF DealsInv, Tables, ScreenOK
<1>6. r.closed => ack # NoValue /\ (r.at \in twins \/ r.rate = s.rate)
  <2> SUFFICES ASSUME r.closed PROVE ack # NoValue /\ (r.at \in twins \/ r.rate = s.rate)
    OBVIOUS
  <2>1. r.at = row.at /\ r.rate = row.rate
    BY <1>1 DEF CurrentRate
  <2>2. ack = r.at /\ r.at \in Nat
    BY <1>4, <1>5 DEF Acceptable, ReadingOK
  <2>3. ack = s.at
    BY <1>1, <2>2, NoPriceAssumption
  <2> QED BY <1>5, <2>1, <2>2, <2>3, NoPriceAssumption DEF ScreenOK
<1>7. DealOK(t, twins)
  <2>1. t.margin # NoValue => t.price = Price(t.kind, t.reading.rate, t.margin)
    BY <1>2, <1>3
  <2>2. t.margin \in Margins \cup {NoValue} /\ t.expected \in {NoValue, t.seen.rate}
    BY <1>1, <1>3, <1>5
  <2>3. t.reading = r /\ t.seen = s /\ t.ack = ack /\ t.expected = expected /\ t.price = price
    BY <1>3
  <2> QED BY <1>4, <1>5, <1>6, <2>1, <2>2, <2>3 DEF DealOK, ScreenOK, ReadingOK
<1>8. t.pc = "writing"
  BY <1>3
<1>9. seen' = [seen EXCEPT ![p] = seen[p]] /\ UNCHANGED <<rateVars, margin, deals, acks>>
  BY <1>4 DEF shopVars, DealsInv
<1> QED BY <1>4, <1>7, <1>8, <1>9, CashierOK

\* A commit.
LEMMA CommitOK == ASSUME DealsInv, NEW p \in Cashier, CommitDeal(p) PROVE DealsInv'
<1>1. PICK t, n : t = req[p] /\ n = Len(deals)
  OBVIOUS
<1>2. /\ deals' = Append(deals, t) /\ acks' = acks \cup AckRows(n + 1, t) /\ t.pc = "writing"
      /\ req' = [req EXCEPT ![p] = NoDeal] /\ UNCHANGED <<row, twins, override, margin, seen>>
  BY <1>1 DEF CommitDeal, rateVars
<1>3. DealOK(t, twins)
  <2>1. t # NoDeal
    BY <1>2 DEF NoDeal
  <2> QED BY <1>1, <2>1 DEF DealsInv
<1>4. n \in Nat /\ deals = [k \in 1..n |-> deals[k]]
  BY <1>1 DEF DealsInv, Tables
<1>5. Len(deals') = n + 1 /\ deals' = [k \in 1..(n + 1) |-> deals'[k]]
      /\ deals'[n + 1] = t /\ \A k \in 1..n : deals'[k] = deals[k]
  <2>1. PICK S : S = {deals[k] : k \in 1..n} \cup {t}
    OBVIOUS
  <2>2. deals \in [1..n -> S] /\ t \in S
    BY <1>4, <2>1
  <2>3. deals \in Seq(S)
    BY <1>4, <2>2, SeqDef
  <2> QED BY <1>1, <1>2, <1>4, <2>2, <2>3, AppendProperties
<1>6. Tables'
  BY <1>2, <1>4, <1>5 DEF DealsInv, Tables
<1>7. \A k \in DOMAIN deals' : DealOK(deals'[k], twins')
  BY <1>2, <1>3, <1>4, <1>5 DEF DealsInv
<1>8. AcksOK'
  <2>1. (\A a \in acks : a.deal \in 1..n) /\ \A k \in 1..n : (\E a \in acks : a.deal = k) <=> deals[k].reading.closed
    BY <1>1, <1>4 DEF DealsInv, AcksOK
  <2>2. \A a \in AckRows(n + 1, t) : a.deal = n + 1
    BY DEF AckRows
  <2>3. t.reading.closed => t.ack # NoValue
    BY <1>3 DEF DealOK
  <2>4. (\E a \in AckRows(n + 1, t) : a.deal = n + 1) <=> t.reading.closed
    BY <2>3 DEF AckRows
  <2>5. ASSUME NEW a \in acks' PROVE a.deal \in 1..(n + 1)
    BY <1>2, <1>4, <2>1, <2>2
  <2>6. ASSUME NEW k \in 1..(n + 1) PROVE (\E a \in acks' : a.deal = k) <=> deals'[k].reading.closed
    <3>1. CASE k = n + 1
      <4>1. \A a \in acks : a.deal # n + 1
        BY <1>4, <2>1
      <4> QED BY <1>2, <1>5, <2>4, <3>1, <4>1
    <3>2. CASE k \in 1..n
      <4>1. \A a \in AckRows(n + 1, t) : a.deal # k
        BY <1>4, <2>2, <3>2
      <4> QED BY <1>2, <1>5, <2>1, <3>2, <4>1
    <3> QED BY <1>4, <3>1, <3>2
  <2> QED BY <1>5, <2>5, <2>6 DEF AcksOK
<1>9. ASSUME NEW q \in Cashier PROVE seen'[q] = NoValue \/ ScreenOK(seen'[q], row', twins')
  BY <1>2 DEF DealsInv
<1>10. ASSUME NEW q \in Cashier PROVE req'[q] = NoDeal \/ (req'[q].pc = "writing" /\ DealOK(req'[q], twins'))
  BY <1>2 DEF DealsInv
<1>11. req' = [q \in Cashier |-> req'[q]] /\ seen' = [q \in Cashier |-> seen'[q]]
  BY <1>2 DEF DealsInv
<1> QED BY <1>6, <1>7, <1>8, <1>9, <1>10, <1>11 DEF DealsInv

\* A rollback.
LEMMA AbortOK == ASSUME DealsInv, NEW p \in Cashier, AbortDeal(p) PROVE DealsInv'
<1>1. seen' = [seen EXCEPT ![p] = seen[p]] /\ req' = [req EXCEPT ![p] = NoDeal] /\ UNCHANGED <<rateVars, margin, deals, acks>>
  BY DEF AbortDeal, shopVars, DealsInv
<1> QED BY <1>1, CashierOK

-----------------------------------------------------------------------------
(* The theorems. *)

\* The invariant holds at first.
LEMMA InitDeals == ASSUME DealsInit PROVE DealsInv
<1>1. Tables
  BY DEF DealsInit, Tables, Rate
<1> QED BY <1>1 DEF DealsInit, DealsInv, AcksOK

\* Every step keeps it.
LEMMA NextDeals == ASSUME DealsInv, [DealsNext]_dealsVars PROVE DealsInv'
<1>1. ASSUME NEW rate \in Feed, NEW same \in BOOLEAN, NewRate(rate, same) PROVE DealsInv'
  BY <1>1, NewRowOK
<1>2. CASE GrowOld \/ (\E rate \in Overrides \cup {NoValue} : SetOverride(rate)) \/ \E m \in Margins : ChangeMargin(m)
  BY <1>2, TermsOK
<1>3. ASSUME NEW p \in Cashier, Counter(p) PROVE DealsInv'
  <2>1. CASE Look(p)
    BY <2>1, LookOK
  <2>2. CASE CommitDeal(p)
    BY <2>2, CommitOK
  <2>3. CASE AbortDeal(p)
    BY <2>3, AbortOK
  <2>4. ASSUME NEW kind \in Sales \cup Buybacks, NEW ack \in {NoValue, seen[p].at},
               NEW expected \in {NoValue, seen[p].rate}, NEW own \in {NoValue, seen[p].margin}, NEW byHand \in BOOLEAN,
               BeginDeal(p, kind, ack, expected, own, byHand)
        PROVE  DealsInv'
    BY <2>4, BeginOK
  <2> QED BY <1>3, <2>1, <2>2, <2>3, <2>4 DEF Counter
<1>4. CASE UNCHANGED dealsVars
  <2>1. UNCHANGED <<row, twins, override, margin, seen, req, coins, lots, deals, acks>>
    BY <1>4 DEF dealsVars, rateVars, shopVars
  <2>2. Tables'
    BY <2>1 DEF DealsInv, Tables
  <2>3. UNCHANGED shopVars
    BY <2>1 DEF shopVars
  <2> QED BY <2>1, <2>2, <2>3, MarketOK
<1> QED BY <1>1, <1>2, <1>3, <1>4 DEF DealsNext

\* The invariant holds always.
LEMMA DealsHold == DealsSpec => []DealsInv
<1>1. DealsInit => DealsInv
  BY InitDeals
<1>2. DealsInv /\ [DealsNext]_dealsVars => DealsInv'
  BY NextDeals
<1> QED BY <1>1, <1>2, PTL DEF DealsSpec

\* A deal on a closed rate is committed with its acknowledgement, and no other deal with one; its
\* price is of the rate the cashier saw (assert_rate_acceptable, record_stale_rate_ack).
THEOREM DealsAnswered == DealsSpec => []DealsAnswerable
<1>1. ASSUME DealsInv PROVE DealsAnswerable
  <2>1. \A n \in DOMAIN deals : (\E a \in acks : a.deal = n) <=> deals[n].reading.closed
    BY <1>1 DEF DealsInv, AcksOK
  <2>2. ASSUME NEW n \in DOMAIN deals, deals[n].reading.closed, deals[n].margin # NoValue
        PROVE  deals[n].reading.at \in twins
                 \/ deals[n].price = Price(deals[n].kind, deals[n].seen.rate, deals[n].margin)
    <3>1. DealOK(deals[n], twins)
      BY <1>1 DEF DealsInv
    <3> QED BY <2>2, <3>1 DEF DealOK
  <2> QED BY <2>1, <2>2 DEF DealsAnswerable
<1>2. DealsInv => DealsAnswerable
  BY <1>1
<1> QED BY <1>2, DealsHold, PTL

\* What is paid is what was quoted, to the drift and a cent (_check_rate_drift, compute_buyback_price).
LEMMA DealPaid ==
  ASSUME NEW d, NEW T, DealOK(d, T), d.kind \in {"PURE_GOLD", "COIN"}, d.expected # NoValue, d.margin = d.seen.margin,
         NEW what, what = IF d.kind = "COIN" THEN Coin ELSE Piece,
         NEW quoted, quoted = BuybackPrice(d.seen.rate, what.karat, what.grams, d.margin), quoted # NoValue
  PROVE  Apart(d.price, quoted) * 100000
           <= ((DriftMax * d.seen.rate) \div 100) * Purity[what.karat] * what.grams * Share(d.margin) + 100000
<1>1. PICK r, q, m, k, g : r = d.reading.rate /\ q = d.seen.rate /\ m = d.margin /\ k = what.karat /\ g = what.grams
  OBVIOUS
<1>2. r \in Nat \ {0} /\ q \in Nat \ {0} /\ m \in Margins /\ Apart(r, q) * 100 <= DriftMax * q
  BY <1>1, RateAssumption DEF DealOK, ReadingOK, Rate, WithinDrift
<1>3. Purity[k] \in Nat /\ g \in Nat
  BY <1>1, GoldAssumption
<1>4. d.price = BuybackPrice(r, k, g, m) /\ d.price # NoValue
  <2>1. d.price = Price(d.kind, r, m) /\ d.price # NoValue
    BY <1>1, <1>2, NoPriceAssumption DEF DealOK
  <2>2. CASE d.kind = "COIN"
    BY <1>1, <2>1, <2>2 DEF Price
  <2>3. CASE d.kind = "PURE_GOLD"
    BY <1>1, <2>1, <2>3 DEF Price
  <2> QED BY <2>2, <2>3
<1>5. quoted = BuybackPrice(q, k, g, m)
  BY <1>1
<1>6. Apart(BuybackPrice(r, k, g, m), BuybackPrice(q, k, g, m)) * 100000
        <= ((DriftMax * q) \div 100) * Purity[k] * g * Share(m) + 100000
  BY <1>2, <1>3, <1>4, <1>5, PriceMoves
<1> QED BY <1>1, <1>4, <1>5, <1>6

\* The seller is paid the quote to the drift the settings allow and a cent of rounding, at any rates,
\* margins and weights (_check_rate_drift, compute_buyback_price).
THEOREM QuotesPaid == DealsSpec => []PaidAsQuoted
<1>1. ASSUME DealsInv PROVE PaidAsQuoted
  <2>1. \A d \in Range(deals) : DealOK(d, twins)
    BY <1>1 DEF DealsInv, Range
  <2> SUFFICES ASSUME NEW d \in Range(deals), d.kind \in {"PURE_GOLD", "COIN"}, d.expected # NoValue,
                      d.margin = d.seen.margin, NEW what, what = IF d.kind = "COIN" THEN Coin ELSE Piece,
                      NEW quoted, quoted = BuybackPrice(d.seen.rate, what.karat, what.grams, d.margin), quoted # NoValue
               PROVE  Apart(d.price, quoted) * 100000
                        <= ((DriftMax * d.seen.rate) \div 100) * Purity[what.karat] * what.grams * Share(d.margin) + 100000
    BY DEF PaidAsQuoted
  <2> QED BY <2>1, DealPaid
<1>2. DealsInv => PaidAsQuoted
  BY <1>1
<1> QED BY <1>2, DealsHold, PTL

-----------------------------------------------------------------------------
(* Receivables: the inductive invariant. *)

DocRow == [of : Kind, how : {"account", "sale", "paid"}, date : Date, no : Nat, total : Nat \ {0},
           paid : Nat, status : {"OPEN", "PARTIAL", "PAID"}, last : Date \cup {None}]

\* A document is never paid beyond its total, and a sale is owed by the customer.
RowOK(r) == r \in DocRow /\ r.paid <= r.total /\ (r.how = "sale" => r.of = "AR")
Right(r) == r.status = (IF r.paid = r.total THEN "PAID" ELSE IF r.paid = 0 THEN "OPEN" ELSE "PARTIAL")
Same(r, s) == r.of = s.of /\ r.how = s.how /\ r.date = s.date /\ r.no = s.no /\ r.total = s.total

IsSession(x) ==
  x = [op |-> x.op, pc |-> x.pc, of |-> x.of, date |-> x.date, amount |-> x.amount, how |-> x.how,
       doc |-> x.doc, no |-> x.no, plan |-> x.plan, base |-> x.base, copies |-> x.copies,
       pend |-> x.pend, rows |-> x.rows, applied |-> x.applied, left |-> x.left,
       delta |-> x.delta, stale |-> x.stale]

Shaped ==
  /\ tx = [p \in Proc |-> tx[p]]
  /\ \A p \in Proc : IsSession(tx[p])

\* What a settlement adds to the allocations of a document.
Adds(x, i) == IF i \in DOMAIN x.applied THEN x.applied[i] ELSE 0

\* Nothing was written from a copy out of date: not the row, nor the copy of the session.
Clean(x, i) == i \notin StaleDocs /\ \A s \in x.stale : s.doc # i

\* A session that has read and written no document.
Fresh(x) ==
  /\ DOMAIN x.rows = {} /\ DOMAIN x.applied = {} /\ DOMAIN x.copies = {} /\ DOMAIN x.base = {}
  /\ x.pend = {} /\ x.stale = {}

\* What a request may still do.
Documents(x) ==
  /\ x.pc \in {"limit", "post", "number", "insert", "commit"} /\ x.date \in Date /\ x.amount # 0
  /\ x.how \in {"account", "sale", "paid"} /\ (x.how = "sale" => x.of = "AR")
  /\ x.pc \in {"number", "insert", "commit"} => x.delta = IF x.how = "paid" THEN 0 ELSE x.amount
  /\ x.no \in IF x.pc = "commit" THEN Nat ELSE {None}

Voids(x) == x.pc \in {"post", "commit"} /\ x.doc \in OfKind(x.of) /\ x.no = None

\* A settlement holds the number of its day from before it reads what it settles.
Settles(p, x) ==
  /\ x.pc \in {"number", "insert", "fifo", "apply", "commit"} /\ x.date \in Date
  /\ x.pc \in {"number", "insert", "fifo"} => Fresh(x)
  /\ x.pc \in {"fifo", "apply", "commit"} => x.no \in Nat /\ numLock[PayPrefix(x.of)][x.date] = p
  /\ x.plan \in Seq([doc : Nat, amount : Nat \ {0}])
  /\ \A k \in DOMAIN x.plan : x.plan[k].doc \in OfKind(x.of)
  /\ x.pc = "commit" => x.delta = -Relieved(SumFunctionOnSet(x.applied, DOMAIN x.applied), x.left)
  /\ DOMAIN x.copies = DOMAIN x.base
  /\ x.pc = "apply" => DOMAIN x.copies = x.pend \cup DOMAIN x.rows
  /\ x.pc = "commit" => x.pend = {} /\ DOMAIN x.copies = {}
  /\ \A i \in DOMAIN x.applied : x.applied[i] \in Nat /\ i \in x.pend \cup DOMAIN x.rows
  /\ \A s \in x.stale : s.dates[1] # s.dates[2] /\ s.doc \in DOMAIN x.rows

Asks(p) ==
  LET x == tx[p] IN
  /\ x.op \in {"none", "doc", "void", "settle"} /\ (x.op = "none" => x.pc = "none" /\ x.no = None)
  /\ x.of \in Kind /\ x.amount \in Nat /\ x.delta \in Int /\ x.left \in Int
  /\ x.op # "settle" => Fresh(x) /\ x.left = 0
  /\ x.op = "doc" => Documents(x)
  /\ x.op = "void" => Voids(x)
  /\ x.op = "settle" => Settles(p, x)

\* A copy of the session: what the row had when it was read, as settled since.  The row is
\* still what was read, or a settlement of another date wrote it.
CopyOK(x, i) ==
  /\ i \in OfKind(x.of)
  /\ RowOK(x.copies[i]) /\ RowOK(x.base[i]) /\ Same(x.copies[i], docs[i]) /\ Same(x.base[i], docs[i])
  /\ Right(x.copies[i]) /\ (i \notin StaleDocs => Right(x.base[i]))
  /\ i \notin DOMAIN x.rows =>
       /\ x.copies[i].paid = x.base[i].paid + Adds(x, i)
       /\ docs[i].paid = x.base[i].paid \/ docs[i].last \in Date \ {x.date}
  /\ i \in DOMAIN x.rows /\ Clean(x, i) =>
       x.base[i].paid = x.rows[i].paid /\ x.copies[i].paid = docs[i].paid + Adds(x, i)
  /\ i \notin x.pend => x.base[i] = x.copies[i]

\* A row the session wrote is its own until the commit.
WriteOK(p, x, i) ==
  /\ i \in OfKind(x.of) /\ docLock[i] = p
  /\ RowOK(x.rows[i]) /\ Same(x.rows[i], docs[i]) /\ x.rows[i].last = x.date
  /\ Clean(x, i) => Right(x.rows[i])
  /\ x.pc = "commit" /\ Clean(x, i) => x.rows[i].paid = docs[i].paid + Adds(x, i)

Sound(p) ==
  /\ Asks(p)
  /\ \A i \in DOMAIN tx[p].copies : CopyOK(tx[p], i)
  /\ \A i \in DOMAIN tx[p].rows : WriteOK(p, tx[p], i)

TablesTyped ==
  /\ docs \in Seq(DocRow) /\ \A i \in Known : RowOK(docs[i])
  /\ allocated \in [Ids -> Nat] /\ unapplied \in [Kind -> Int] /\ control \in [Kind -> Int]
  /\ seq \in [Prefix -> [Date -> Nat \cup {None}]]
  /\ voided \subseteq Known /\ over \subseteq Kind

Locks ==
  /\ numLock \in [Prefix -> [Date -> Proc \cup {None}]]
  /\ docLock \in [Ids -> Proc \cup {None}] /\ books \in Proc \cup {None}

\* Every document that is being made finds a place.
DocRoom == Len(docs) + InFlight("doc") <= MaxDocs

Unborn == \A i \in Ids \ Known : allocated[i] = 0

\* What document i adds to what is owed of kind k, by its allocations.
Worth(k) == [i \in Ids |->
  IF i \in OfKind(k) THEN docs[i].total - PaidAtOnce(docs[i]) - allocated[i] ELSE 0]

\* A control account shows what its documents are worth less what is not applied.
Ledger == \A k \in Kind : k \notin over /\ (\A i \in voided : docs[i].of # k) =>
  control[k] = SumFunctionOnSet(Worth(k), Ids) - unapplied[k]

ARInv ==
  /\ TablesTyped /\ Locks /\ DocRoom /\ Shaped
  /\ \A p \in Proc : Sound(p)
  /\ Unborn /\ Ledger /\ SettlementsKept

-----------------------------------------------------------------------------
(* What a step of one handler leaves of the others. *)

\* Documents stay what they are, those q has written are its own, and one q has read is as
\* it was or was settled by another date.
Spared(q) ==
  LET x == tx[q] IN
  /\ tx'[q] = x
  /\ \A i \in Known : i \in Known' /\ Same(docs'[i], docs[i])
  /\ StaleDocs \subseteq StaleDocs'
  /\ \A i \in DOMAIN x.rows : docs'[i] = docs[i] /\ docLock'[i] = q
  /\ x.op = "settle" /\ x.pc \in {"fifo", "apply", "commit"} => numLock'[PayPrefix(x.of)][x.date] = q
  /\ \A i \in DOMAIN x.copies \ DOMAIN x.rows :
       docs'[i] = docs[i] \/ docs'[i].last \in Date \ {x.date}

\* The documents, and where they find a place.
LEMMA Places ==
  ASSUME TablesTyped, DocRoom
  PROVE  /\ Len(docs) \in Nat /\ Known = 1..Len(docs) /\ Known \subseteq Ids /\ IsFiniteSet(Ids) /\ IsFiniteSet(Known)
         /\ InFlight("doc") \in Nat /\ MaxDocs \in Nat
<1>1. Len(docs) \in Nat /\ Known = 1..Len(docs)
  BY DEF TablesTyped, Known
<1>2. InFlight("doc") \in Nat
  <2>1. IsFiniteSet({p \in Proc : tx[p].op = "doc"})
    BY FS_Subset, ProcAssumption
  <2> QED BY <2>1, FS_CardinalityType DEF InFlight
<1>3. MaxDocs \in Nat
  BY BoundAssumption
<1>4. Len(docs) <= MaxDocs
  <2>1. PICK n, m : n = Len(docs) /\ m = InFlight("doc")
    OBVIOUS
  <2> QED BY <1>1, <1>2, <1>3, <2>1 DEF DocRoom
<1>5. Known \subseteq Ids
  BY <1>1, <1>3, <1>4 DEF Ids
<1>6. IsFiniteSet(Ids) /\ IsFiniteSet(Known)
  BY <1>1, <1>3, FS_Interval DEF Ids
<1> QED BY <1>1, <1>2, <1>3, <1>5, <1>6

\* A handler that starts to make a document, or makes none, or has made it.
LEMMA InFlightMoves ==
  ASSUME NEW p \in Proc, NEW x, tx'[p] = x, \A q \in Proc : q # p => tx'[q] = tx[q]
  PROVE  /\ InFlight("doc") \in Nat /\ InFlight("doc")' \in Nat
         /\ (x.op = "doc" => tx[p].op = "doc") => InFlight("doc")' <= InFlight("doc")
         /\ InFlight("doc")' <= InFlight("doc") + 1
         /\ tx[p].op = "doc" /\ x.op # "doc" => InFlight("doc")' = InFlight("doc") - 1
<1> DEFINE S == {q \in Proc : tx[q].op = "doc"}
           T == {q \in Proc : tx'[q].op = "doc"}
<1>1. InFlight("doc") = Cardinality(S) /\ InFlight("doc")' = Cardinality(T)
  BY DEF InFlight
<1>2. IsFiniteSet(S) /\ IsFiniteSet(T) /\ Cardinality(S) \in Nat /\ Cardinality(T) \in Nat
  BY FS_Subset, FS_CardinalityType, ProcAssumption
<1>3. /\ (x.op = "doc" => tx[p].op = "doc") => T \subseteq S
      /\ T \subseteq S \cup {p}
      /\ tx[p].op = "doc" /\ x.op # "doc" => T = S \ {p} /\ p \in S
  OBVIOUS
<1> HIDE DEF S, T
<1>4. \A U : T \subseteq U /\ IsFiniteSet(U) => Cardinality(T) <= Cardinality(U)
  BY FS_Subset
<1>5. IsFiniteSet(S \cup {p}) /\ Cardinality(S \cup {p}) \in Nat /\ Cardinality(S \cup {p}) <= Cardinality(S) + 1
  <2>1. /\ IsFiniteSet(S \cup {p})
        /\ Cardinality(S \cup {p}) = IF p \in S THEN Cardinality(S) ELSE Cardinality(S) + 1
    BY <1>2, FS_AddElement
  <2> QED BY <1>2, <2>1
<1>6. p \in S => Cardinality(S \ {p}) = Cardinality(S) - 1
  BY <1>2, FS_RemoveElement
<1>7. (x.op = "doc" => tx[p].op = "doc") => Cardinality(T) <= Cardinality(S)
  BY <1>2, <1>3, <1>4
<1>8. Cardinality(T) <= Cardinality(S) + 1
  <2>1. Cardinality(T) <= Cardinality(S \cup {p})
    BY <1>3, <1>4, <1>5
  <2> QED BY <1>2, <1>5, <2>1
<1>9. tx[p].op = "doc" /\ x.op # "doc" => Cardinality(T) = Cardinality(S) - 1
  BY <1>3, <1>6
<1> QED BY <1>1, <1>2, <1>7, <1>8, <1>9

\* What q knows stays true.
LEMMA OthersSound ==
  ASSUME NEW q \in Proc, Sound(q), Spared(q)
  PROVE  Sound(q)'
<1>1. PICK x : x = tx[q]
  OBVIOUS
<1>2. /\ tx'[q] = x
      /\ \A i \in Known : i \in Known' /\ Same(docs'[i], docs[i])
      /\ StaleDocs \subseteq StaleDocs'
      /\ \A i \in DOMAIN x.rows : docs'[i] = docs[i] /\ docLock'[i] = q
      /\ x.op = "settle" /\ x.pc \in {"fifo", "apply", "commit"} => numLock'[PayPrefix(x.of)][x.date] = q
      /\ \A i \in DOMAIN x.copies \ DOMAIN x.rows : docs'[i] = docs[i] \/ docs'[i].last \in Date \ {x.date}
  BY <1>1 DEF Spared
<1>3. \A k : \A i \in OfKind(k) : i \in OfKind(k)' /\ Same(docs'[i], docs[i])
  BY <1>2 DEF OfKind, Same
<1>4. \A i : Clean(x, i)' => Clean(x, i)
  BY <1>2 DEF Clean
<1>5. \A r, i : i \in Known /\ Same(r, docs[i]) => Same(r, docs'[i])
  BY <1>2 DEF Same
<1>6. Asks(q)'
  <2>1. Asks(q)
    BY DEF Sound
  <2>2. Documents(x) => Documents(x)'
    BY DEF Documents
  <2>3. Voids(x) => Voids(x)'
    BY <1>3 DEF Voids
  <2>4. x.op = "settle" /\ Settles(q, x) => Settles(q, x)'
    <3>1. (\A k \in DOMAIN x.plan : x.plan[k].doc \in OfKind(x.of)) =>
            \A k \in DOMAIN x.plan : x.plan[k].doc \in OfKind(x.of)'
      BY <1>3
    <3> QED BY <1>2, <3>1 DEF Settles
  <2>5. Fresh(x)' <=> Fresh(x)
    BY DEF Fresh
  <2> QED BY <1>1, <1>2, <2>1, <2>2, <2>3, <2>4, <2>5 DEF Asks
<1>7. ASSUME NEW i \in DOMAIN x.copies PROVE CopyOK(x, i)'
  <2>1. CopyOK(x, i) /\ i \in Known
    BY <1>1 DEF Sound, CopyOK, OfKind
  <2>2. Same(x.copies[i], docs'[i]) /\ Same(x.base[i], docs'[i])
    BY <1>5, <2>1 DEF CopyOK
  <2>3. CASE i \in DOMAIN x.rows
    <3>1. docs'[i] = docs[i]
      BY <1>2, <2>3
    <3> QED BY <1>2, <1>3, <1>4, <2>1, <2>2, <2>3, <3>1 DEF CopyOK
  <2>4. CASE i \notin DOMAIN x.rows
    <3>1. docs'[i].paid = x.base[i].paid \/ docs'[i].last \in Date \ {x.date}
      BY <1>2, <2>1, <2>4 DEF CopyOK
    <3> QED BY <1>2, <1>3, <2>1, <2>2, <2>4, <3>1 DEF CopyOK
  <2> QED BY <2>3, <2>4
<1>8. ASSUME NEW i \in DOMAIN x.rows PROVE WriteOK(q, x, i)'
  <2>1. WriteOK(q, x, i) /\ i \in Known
    BY <1>1, <1>8 DEF Sound, WriteOK, OfKind
  <2>2. docs'[i] = docs[i] /\ docLock'[i] = q
    BY <1>2, <1>8
  <2> QED BY <1>3, <1>4, <2>1, <2>2 DEF WriteOK
<1> QED BY <1>1, <1>2, <1>6, <1>7, <1>8 DEF Sound

\* A handler given a record of the right fields.
LEMMA Given ==
  ASSUME Shaped, NEW p \in Proc, NEW x, tx' = [tx EXCEPT ![p] = x], IsSession(x)
  PROVE  Shaped' /\ tx'[p] = x /\ \A q \in Proc : q # p => tx'[q] = tx[q]
BY DEF Shaped, IsSession

\* Nobody loses a lock by a step of p, but p.
LocksKept(p) ==
  /\ Locks'
  /\ \A k \in Prefix, d \in Date : numLock[k][d] \notin {None, p} => numLock'[k][d] = numLock[k][d]
  /\ \A i \in Ids : docLock[i] \notin {None, p} => docLock'[i] = docLock[i]

\* What the others hold while p runs a step.
LEMMA OthersHold ==
  ASSUME ARInv, NEW p \in Proc, LocksKept(p), NEW q \in Proc, q # p
  PROVE  /\ \A i \in DOMAIN tx[q].rows : i \in OfKind(tx[q].of) /\ i \in Ids /\ docLock[i] = q /\ docLock'[i] = q
         /\ tx[q].op = "settle" /\ tx[q].pc \in {"fifo", "apply", "commit"} =>
              /\ tx[q].date \in Date /\ PayPrefix(tx[q].of) \in Prefix
              /\ numLock[PayPrefix(tx[q].of)][tx[q].date] = q
              /\ numLock'[PayPrefix(tx[q].of)][tx[q].date] = q
<1>1. Asks(q) /\ q \notin {None, p} /\ \A i \in DOMAIN tx[q].rows : WriteOK(q, tx[q], i)
  BY NoneAssumption DEF ARInv, Sound
<1>2. Known \subseteq Ids
  BY Places DEF ARInv
<1>3. \A i \in DOMAIN tx[q].rows : i \in OfKind(tx[q].of) /\ i \in Ids /\ docLock[i] = q
  BY <1>1, <1>2 DEF WriteOK, OfKind
<1>4. ASSUME tx[q].op = "settle", tx[q].pc \in {"fifo", "apply", "commit"}
      PROVE  /\ tx[q].date \in Date /\ PayPrefix(tx[q].of) \in Prefix
             /\ numLock[PayPrefix(tx[q].of)][tx[q].date] = q
  BY <1>1, <1>4 DEF Asks, Settles, PayPrefix, Prefix, Kind
<1> QED BY <1>1, <1>3, <1>4 DEF LocksKept

-----------------------------------------------------------------------------
(* Steps that write no table. *)

\* No table changes when all of them together do not.
LEMMA TablesKept ==
  ASSUME UNCHANGED tables
  PROVE  /\ docs' = docs /\ allocated' = allocated /\ unapplied' = unapplied /\ control' = control
         /\ seq' = seq /\ voided' = voided /\ stale' = stale /\ over' = over
BY DEF tables

\* TablesTyped that stay as they are keep everything that is said of them.
LEMMA QuietAR ==
  ASSUME ARInv, NEW p \in Proc, UNCHANGED tables, LocksKept(p), NEW x, IsSession(x),
         tx' = [tx EXCEPT ![p] = x], Sound(p)',
         \/ x.op = "doc" => tx[p].op = "doc"
         \/ Len(docs) + InFlight("doc") < MaxDocs
  PROVE  ARInv'
<1>0. TablesTyped /\ Locks /\ DocRoom /\ Shaped /\ \A q \in Proc : Sound(q)
  BY DEF ARInv
<1>1. Shaped' /\ tx'[p] = x /\ \A q \in Proc : q # p => tx'[q] = tx[q]
  BY <1>0, Given
<1>2. /\ docs' = docs /\ allocated' = allocated /\ unapplied' = unapplied /\ control' = control
      /\ seq' = seq /\ voided' = voided /\ stale' = stale /\ over' = over
  BY TablesKept
<1>3. ASSUME NEW q \in Proc PROVE Sound(q)'
  <2>1. CASE q = p
    BY <2>1
  <2>2. CASE q # p
    <3>1. /\ tx'[q] = tx[q] /\ \A i \in DOMAIN tx[q].rows : docLock'[i] = q
          /\ tx[q].op = "settle" /\ tx[q].pc \in {"fifo", "apply", "commit"} =>
               numLock'[PayPrefix(tx[q].of)][tx[q].date] = q
      BY <1>1, <2>2, OthersHold
    <3>2. Spared(q)
      BY <1>2, <3>1 DEF Spared, Known, StaleDocs, Same
    <3> QED BY <1>0, <3>2, OthersSound
  <2> QED BY <2>1, <2>2
<1>4. DocRoom'
  <2>1. PICK n, a, b : n = Len(docs) /\ a = InFlight("doc") /\ b = InFlight("doc")'
    OBVIOUS
  <2>2. n \in Nat /\ MaxDocs \in Nat /\ a \in Nat /\ b \in Nat /\ n + a <= MaxDocs
    BY <1>0, <1>1, <2>1, Places, InFlightMoves DEF DocRoom
  <2>3. b <= a \/ (b <= a + 1 /\ n + a < MaxDocs)
    BY <1>1, <2>1, InFlightMoves
  <2>4. n + b <= MaxDocs
    BY <2>2, <2>3
  <2> QED BY <1>2, <2>1, <2>4 DEF DocRoom
<1>5. TablesTyped' /\ Unborn' /\ Ledger' /\ SettlementsKept'
  BY <1>2 DEF ARInv, TablesTyped, Unborn, Ledger, Known, OfKind, Worth, SettlementsKept, PaidIsAllocated,
              StaleOnlyAcrossDates, StaleDocs
<1> QED BY <1>1, <1>3, <1>4, <1>5 DEF ARInv, LocksKept

\* A session that is over knows nothing.
LEMMA IdleSound ==
  ASSUME NEW p, tx'[p] = IdleTx
  PROVE  Sound(p)' /\ IsSession(IdleTx) /\ IdleTx.op = "none"
<1>1. PICK x : x = IdleTx
  OBVIOUS
<1>2. /\ x.op = "none" /\ x.pc = "none" /\ x.of = "AR" /\ x.no = None /\ x.amount = 0 /\ x.delta = 0 /\ x.left = 0
      /\ DOMAIN x.rows = {} /\ DOMAIN x.applied = {} /\ DOMAIN x.copies = {} /\ DOMAIN x.base = {}
      /\ x.pend = {} /\ x.stale = {} /\ IsSession(x)
  BY <1>1 DEF IdleTx, IsSession
<1>3. Asks(p)'
  BY <1>1, <1>2 DEF Asks, Fresh, Kind
<1> QED BY <1>1, <1>2, <1>3 DEF Sound

\* Letting go of p's locks leaves everyone else's.
LEMMA ReleaseKept == ASSUME Locks, NEW p \in Proc, ReleaseAll(p) PROVE LocksKept(p)
BY DEF Locks, ReleaseAll, LocksKept

\* A refused or aborted request writes nothing and lets go of its locks.
LEMMA RefuseAR == ASSUME ARInv, NEW p \in Proc, Refuse(p) PROVE ARInv'
<1>1. Locks /\ Shaped /\ tx' = [tx EXCEPT ![p] = IdleTx] /\ ReleaseAll(p) /\ UNCHANGED tables
  BY DEF ARInv, Refuse
<1>2. IsSession(IdleTx) /\ IdleTx.op # "doc"
  BY DEF IsSession, IdleTx
<1>3. tx'[p] = IdleTx
  BY <1>1, <1>2, Given
<1>4. Sound(p)'
  BY <1>3, IdleSound
<1>5. LocksKept(p)
  BY <1>1, ReleaseKept
<1> QED BY <1>1, <1>2, <1>4, <1>5, QuietAR

-----------------------------------------------------------------------------
(* Requests, and steps that read no document. *)

\* A session that has read and written no document knows what it asked for.
LEMMA FreshSound == ASSUME NEW p, NEW x, tx'[p] = x, Asks(p)', Fresh(x) PROVE Sound(p)'
BY DEF Sound, Fresh

\* What a request starts from.
LEMMA IdleFieldsAR ==
  /\ IsSession(IdleTx) /\ IdleTx.of = "AR" /\ IdleTx.no = None /\ IdleTx.left = 0 /\ IdleTx.delta = 0
  /\ DOMAIN IdleTx.rows = {} /\ DOMAIN IdleTx.applied = {} /\ DOMAIN IdleTx.copies = {}
  /\ DOMAIN IdleTx.base = {} /\ IdleTx.pend = {} /\ IdleTx.stale = {}
BY DEF IdleTx, IsSession

\* A request begins with everything still to do.
LEMMA BeginAR ==
  ASSUME ARInv, NEW p \in Proc, NEW x, Begin(p, x), IsSession(x), Fresh(x),
         x.op \in {"doc", "void", "settle"}, x.of \in Kind, x.amount \in Nat, x.delta \in Int, x.left \in Int,
         x.op # "settle" => x.left = 0,
         x.op = "doc" => Documents(x) /\ Len(docs) + InFlight("doc") < MaxDocs,
         x.op = "void" => Voids(x),
         x.op = "settle" => Settles(p, x)
  PROVE  ARInv'
<1>1. tx' = [tx EXCEPT ![p] = x] /\ UNCHANGED tables /\ UNCHANGED locks
  BY DEF Begin
<1>2. tx'[p] = x
  BY <1>1, Given DEF ARInv
<1>3. docs' = docs /\ numLock' = numLock /\ LocksKept(p)
  BY <1>1 DEF tables, locks, LocksKept, ARInv, Locks
<1>4. /\ Documents(x) => Documents(x)'
      /\ Voids(x) => Voids(x)'
      /\ Settles(p, x) => Settles(p, x)'
  BY <1>3 DEF Documents, Voids, Settles, OfKind, Known, Fresh
<1>5. Asks(p)'
  BY <1>2, <1>4 DEF Asks, Fresh
<1>6. Sound(p)'
  BY <1>2, <1>5, FreshSound
<1> QED BY <1>1, <1>3, <1>6, QuietAR

\* An invoice, a credit sale or a bill.
LEMMA DocBegins ==
  ASSUME ARInv, NEW p \in Proc, NEW k \in Kind, NEW how \in {"account", "sale", "paid"},
         how = "sale" => k = "AR", NEW pc \in {"limit", "post"}, NewDoc(p, k, how, pc)
  PROVE  ARInv'
<1>1. PICK d \in DocDate, n \in DocTotal :
        /\ Len(docs) + InFlight("doc") < MaxDocs
        /\ Begin(p, [IdleTx EXCEPT !.op = "doc", !.of = k, !.how = how, !.date = d, !.amount = n, !.pc = pc])
  BY DEF NewDoc
<1>2. PICK x : x = [IdleTx EXCEPT !.op = "doc", !.of = k, !.how = how, !.date = d, !.amount = n, !.pc = pc]
  OBVIOUS
<1>3. /\ IsSession(x) /\ x.op = "doc" /\ x.of = k /\ x.how = how /\ x.date = d /\ x.amount = n /\ x.pc = pc
      /\ x.no = None /\ x.left = 0 /\ x.delta = 0 /\ DOMAIN x.rows = {} /\ DOMAIN x.applied = {}
      /\ DOMAIN x.copies = {} /\ DOMAIN x.base = {} /\ x.pend = {} /\ x.stale = {}
  BY <1>2, IdleFieldsAR DEF IsSession
<1>4. d \in Date /\ n \in Nat /\ n # 0
  BY DateAssumption, BoundAssumption
<1>5. Fresh(x) /\ Documents(x)
  BY <1>3, <1>4 DEF Fresh, Documents
<1>6. Begin(p, x)
  BY <1>1, <1>2
<1> QED BY <1>1, <1>3, <1>4, <1>5, <1>6, BeginAR

\* A receipt or a vendor payment.
LEMMA SettleBegins == ASSUME ARInv, NEW p \in Proc, BeginSettle(p) PROVE ARInv'
<1>1. PICK k \in Kind, d \in Date, n \in Amount : \E s \in AllocLists(k) :
        Begin(p, [IdleTx EXCEPT !.op = "settle", !.of = k, !.date = d, !.amount = n, !.left = n,
                                !.plan = s, !.pc = "number"])
  BY DEF BeginSettle
<1>2. PICK s \in AllocLists(k) :
        Begin(p, [IdleTx EXCEPT !.op = "settle", !.of = k, !.date = d, !.amount = n, !.left = n,
                                !.plan = s, !.pc = "number"])
  BY <1>1
<1>3. PICK x : x = [IdleTx EXCEPT !.op = "settle", !.of = k, !.date = d, !.amount = n, !.left = n,
                                  !.plan = s, !.pc = "number"]
  OBVIOUS
<1>4. /\ IsSession(x) /\ x.op = "settle" /\ x.of = k /\ x.date = d /\ x.amount = n /\ x.pc = "number"
      /\ x.plan = s /\ x.left = n /\ x.delta = 0 /\ DOMAIN x.rows = {} /\ DOMAIN x.applied = {}
      /\ DOMAIN x.copies = {} /\ DOMAIN x.base = {} /\ x.pend = {} /\ x.stale = {}
  BY <1>3, IdleFieldsAR DEF IsSession
<1>5. n \in Nat
  BY BoundAssumption
<1>6. s \in Seq([doc : Nat, amount : Nat \ {0}]) /\ \A j \in DOMAIN s : s[j].doc \in OfKind(k)
  <2>1. PICK m \in 0..MaxAllocs : s \in [1..m -> [doc : OfKind(k), amount : Amount]]
    BY DEF AllocLists
  <2>2. m \in Nat /\ DOMAIN s = 1..m /\ s = [j \in 1..m |-> s[j]]
    BY <2>1, BoundAssumption
  <2>3. OfKind(k) \subseteq Nat
    BY Places DEF ARInv, OfKind
  <2>4. ASSUME NEW j \in 1..m PROVE s[j] \in [doc : Nat, amount : Nat \ {0}] /\ s[j].doc \in OfKind(k)
    <3>1. s[j] \in [doc : OfKind(k), amount : Amount]
      BY <2>1, <2>4
    <3> QED BY <2>3, <3>1, BoundAssumption
  <2>5. s \in Seq([doc : Nat, amount : Nat \ {0}])
    <3>1. PICK T : T = [doc : Nat, amount : Nat \ {0}]
      OBVIOUS
    <3>2. s \in [1..m -> T]
      BY <2>2, <2>4, <3>1
    <3> QED BY <2>2, <3>1, <3>2
  <2> QED BY <2>2, <2>4, <2>5
<1>7. Fresh(x) /\ Settles(p, x)
  <2>1. Fresh(x)
    BY <1>4 DEF Fresh
  <2> QED BY <1>4, <1>6, <2>1 DEF Settles
<1>8. Begin(p, x)
  BY <1>2, <1>3
<1> QED BY <1>4, <1>5, <1>7, <1>8, BeginAR

\* The void of a credit sale.
LEMMA VoidBegins == ASSUME ARInv, NEW p \in Proc, BeginVoid(p) PROVE ARInv'
<1>1. PICK i \in Known : docs[i].how = "sale"
        /\ Begin(p, [IdleTx EXCEPT !.op = "void", !.doc = i, !.date = docs[i].date,
                                   !.amount = docs[i].total, !.pc = "post"])
  BY DEF BeginVoid
<1>2. PICK x : x = [IdleTx EXCEPT !.op = "void", !.doc = i, !.date = docs[i].date,
                                  !.amount = docs[i].total, !.pc = "post"]
  OBVIOUS
<1>3. /\ IsSession(x) /\ x.op = "void" /\ x.of = "AR" /\ x.doc = i /\ x.amount = docs[i].total /\ x.pc = "post"
      /\ x.no = None /\ x.left = 0 /\ x.delta = 0 /\ DOMAIN x.rows = {} /\ DOMAIN x.applied = {}
      /\ DOMAIN x.copies = {} /\ DOMAIN x.base = {} /\ x.pend = {} /\ x.stale = {}
  BY <1>2, IdleFieldsAR DEF IsSession
<1>4. RowOK(docs[i])
  BY DEF ARInv, TablesTyped
<1>5. docs[i].of = "AR" /\ docs[i].total \in Nat
  BY <1>1, <1>4 DEF RowOK, DocRow
<1>6. Fresh(x) /\ Voids(x)
  BY <1>3, <1>5 DEF Fresh, Voids, OfKind
<1>7. Begin(p, x)
  BY <1>1, <1>2
<1> QED BY <1>3, <1>5, <1>6, <1>7, BeginAR DEF Kind

\* Every request.
LEMMA RequestAR == ASSUME ARInv, NEW p \in Proc, Request(p) PROVE ARInv'
<1>1. CASE BeginInvoice(p)
  BY <1>1, DocBegins DEF BeginInvoice, Kind
<1>2. CASE BeginBill(p)
  BY <1>2, DocBegins DEF BeginBill, Kind
<1>3. CASE BeginSettle(p)
  BY <1>3, SettleBegins
<1>4. CASE BeginVoid(p)
  BY <1>4, VoidBegins
<1> QED BY <1>1, <1>2, <1>3, <1>4 DEF Request

\* check_credit_limit.
LEMMA LimitAR == ASSUME ARInv, NEW p \in Proc, CheckLimit(p) PROVE ARInv'
<1>1. CASE Refuse(p)
  BY <1>1, RefuseAR
<1>2. CASE Goto(p, [tx[p] EXCEPT !.pc = "post"]) /\ UNCHANGED locks
  <2>1. PICK y : y = tx[p]
    OBVIOUS
  <2>2. PICK x : x = [y EXCEPT !.pc = "post"]
    OBVIOUS
  <2>3. IsSession(y) /\ Asks(p) /\ y.pc = "limit"
    BY <2>1 DEF ARInv, Shaped, Sound, CheckLimit, At
  <2>4. /\ IsSession(x) /\ x.op = y.op /\ x.of = y.of /\ x.how = y.how /\ x.date = y.date /\ x.amount = y.amount
        /\ x.pc = "post" /\ x.no = y.no /\ x.left = y.left /\ x.delta = y.delta /\ x.rows = y.rows
        /\ x.applied = y.applied /\ x.copies = y.copies /\ x.base = y.base /\ x.pend = y.pend /\ x.stale = y.stale
    BY <2>2, <2>3 DEF IsSession
  <2>5. y.op = "doc"
    BY <2>1, <2>3 DEF Asks, Voids, Settles
  <2>6. tx' = [tx EXCEPT ![p] = x] /\ UNCHANGED tables /\ UNCHANGED locks
    BY <1>2, <2>1, <2>2 DEF Goto
  <2>7. tx'[p] = x
    BY <2>4, <2>6, Given DEF ARInv
  <2>8. Fresh(x) /\ Documents(x) /\ x.left = 0 /\ x.of \in Kind /\ x.amount \in Nat /\ x.delta \in Int
    BY <2>1, <2>3, <2>4, <2>5 DEF Asks, Fresh, Documents
  <2>9. Asks(p)'
    BY <2>4, <2>5, <2>7, <2>8 DEF Asks, Fresh, Documents
  <2>10. LocksKept(p)
    BY <2>6 DEF locks, LocksKept, ARInv, Locks
  <2>11. Sound(p)'
    BY <2>7, <2>8, <2>9, FreshSound
  <2> QED BY <2>1, <2>4, <2>5, <2>6, <2>10, <2>11, QuietAR
<1> QED BY <1>1, <1>2 DEF CheckLimit

\* Whoever asks for a number makes a document or settles, has read nothing yet, and holds it
\* from then on.
LEMMA NumberedAR ==
  ASSUME ARInv, NEW p \in Proc, tx[p].pc \in {"number", "insert"}, NEW no \in Nat,
         Free(numLock[PrefixOf(tx[p])][tx[p].date], p), Numbered(p, no)
  PROVE  ARInv'
<1>1. PICK y : y = tx[p]
  OBVIOUS
<1>2. PICK pc : pc = IF y.op # "settle" THEN "commit" ELSE IF y.plan = <<>> THEN "fifo" ELSE "apply"
  OBVIOUS
<1>3. PICK x : x = [y EXCEPT !.no = no, !.pc = pc]
  OBVIOUS
<1>4. IsSession(y) /\ Asks(p) /\ Locks
  BY <1>1 DEF ARInv, Shaped, Sound
<1>5. /\ IsSession(x) /\ x.op = y.op /\ x.of = y.of /\ x.how = y.how /\ x.date = y.date /\ x.amount = y.amount
      /\ x.pc = pc /\ x.no = no /\ x.left = y.left /\ x.delta = y.delta /\ x.rows = y.rows /\ x.plan = y.plan
      /\ x.applied = y.applied /\ x.copies = y.copies /\ x.base = y.base /\ x.pend = y.pend /\ x.stale = y.stale
  BY <1>3, <1>4 DEF IsSession
<1>6. y.op \in {"doc", "settle"} /\ y.date \in Date /\ y.of \in Kind /\ Fresh(y)
  BY <1>1, <1>4 DEF Asks, Voids, Documents, Settles
<1>7. PrefixOf(y) \in Prefix /\ (y.op = "settle" => PrefixOf(y) = PayPrefix(y.of))
  BY <1>6 DEF PrefixOf, PayPrefix, DocPrefix, Kind, Prefix
<1>8. /\ tx' = [tx EXCEPT ![p] = x] /\ UNCHANGED tables /\ docLock' = docLock /\ books' = books
      /\ numLock' = [numLock EXCEPT ![PrefixOf(y)][y.date] = p]
  BY <1>1, <1>2, <1>3 DEF Numbered, Goto, Held
<1>9. tx'[p] = x
  BY <1>5, <1>8, Given DEF ARInv
<1>10. docs' = docs
  BY <1>8, TablesKept
<1>11. LocksKept(p) /\ numLock'[PrefixOf(y)][y.date] = p
  BY <1>1, <1>4, <1>6, <1>7, <1>8 DEF LocksKept, Locks, Free
<1>12. Fresh(x)
  BY <1>5, <1>6 DEF Fresh
<1>13. y.op = "doc" => Documents(x)
  BY <1>1, <1>2, <1>4, <1>5 DEF Asks, Documents
<1>14. y.op = "settle" => Settles(p, x)'
  <2>1. ASSUME y.op = "settle" PROVE Settles(p, x)'
    <3>1. pc \in {"fifo", "apply"} /\ Settles(p, y)
      BY <1>1, <1>2, <1>4, <2>1 DEF Asks
    <3>2. \A j \in DOMAIN x.plan : x.plan[j].doc \in OfKind(x.of)'
      BY <1>5, <1>10, <3>1 DEF Settles, OfKind, Known
    <3> QED BY <1>5, <1>6, <1>7, <1>11, <1>12, <2>1, <3>1, <3>2 DEF Settles, Fresh
  <2> QED BY <2>1
<1>15. Asks(p)'
  <2>1. x.of \in Kind /\ x.amount \in Nat /\ x.delta \in Int /\ x.left \in Int /\ (x.op # "settle" => x.left = 0)
    BY <1>1, <1>4, <1>5 DEF Asks
  <2> QED BY <1>5, <1>6, <1>9, <1>12, <1>13, <1>14, <2>1 DEF Asks, Fresh, Documents
<1>16. Sound(p)'
  BY <1>9, <1>12, <1>15, FreshSound
<1> QED BY <1>1, <1>5, <1>8, <1>11, <1>16, QuietAR

\* _next_doc_no, on a row that is there and on one that is not.
LEMMA NumberAR == ASSUME ARInv, NEW p \in Proc, TakeNumber(p) \/ InsertNumber(p) PROVE ARInv'
<1>1. PICK y, k, d : y = tx[p] /\ k = PrefixOf(y) /\ d = y.date
  OBVIOUS
<1>2. IsSession(y) /\ Asks(p) /\ y.pc \in {"number", "insert"}
  BY <1>1 DEF ARInv, Shaped, Sound, TakeNumber, InsertNumber, At
<1>3. y.op \in {"doc", "settle"} /\ y.of \in Kind /\ d \in Date /\ Fresh(y)
  BY <1>1, <1>2 DEF Asks, Voids, Documents, Settles
<1>4. seq[k][d] \in Nat \cup {None}
  <2>1. k \in Prefix
    BY <1>1, <1>3 DEF PrefixOf, PayPrefix, DocPrefix, Kind, Prefix
  <2> QED BY <1>3, <2>1 DEF ARInv, TablesTyped
<1>5. CASE TakeNumber(p) /\ seq[k][d] = None
  <2>1. PICK x : x = [y EXCEPT !.pc = "insert"]
    OBVIOUS
  <2>2. /\ IsSession(x) /\ x.op = y.op /\ x.of = y.of /\ x.how = y.how /\ x.date = y.date /\ x.amount = y.amount
        /\ x.pc = "insert" /\ x.no = y.no /\ x.left = y.left /\ x.delta = y.delta /\ x.rows = y.rows
        /\ x.plan = y.plan /\ x.applied = y.applied /\ x.copies = y.copies /\ x.base = y.base
        /\ x.pend = y.pend /\ x.stale = y.stale
    BY <1>2, <2>1 DEF IsSession
  <2>3. y.pc = "number" /\ tx' = [tx EXCEPT ![p] = x] /\ UNCHANGED tables /\ UNCHANGED locks
    BY <1>1, <1>5, <2>1 DEF TakeNumber, Goto, At
  <2>4. tx'[p] = x
    BY <2>2, <2>3, Given DEF ARInv
  <2>5. docs' = docs /\ numLock' = numLock /\ LocksKept(p)
    BY <2>3 DEF tables, locks, LocksKept, ARInv, Locks
  <2>6. Fresh(x)
    BY <1>3, <2>2 DEF Fresh
  <2>7. y.op = "doc" => Documents(x)
    BY <1>1, <1>2, <2>2, <2>3 DEF Asks, Documents
  <2>8. y.op = "settle" => Settles(p, x)'
    <3>1. y.op = "settle" => Settles(p, x)
      BY <1>1, <1>2, <2>2, <2>3, <2>6 DEF Asks, Settles
    <3> QED BY <2>5, <3>1 DEF Settles, OfKind, Known, Fresh
  <2>9. Asks(p)'
    <3>1. x.of \in Kind /\ x.amount \in Nat /\ x.delta \in Int /\ x.left \in Int /\ (x.op # "settle" => x.left = 0)
      BY <1>1, <1>2, <2>2 DEF Asks
    <3> QED BY <1>3, <2>2, <2>4, <2>6, <2>7, <2>8, <3>1 DEF Asks, Fresh, Documents
  <2>10. Sound(p)'
    BY <2>4, <2>6, <2>9, FreshSound
  <2> QED BY <1>1, <2>2, <2>3, <2>5, <2>10, QuietAR
<1>6. CASE TakeNumber(p) /\ seq[k][d] # None
  <2>1. PICK no \in Nat : no = seq[k][d] + 1
    BY <1>4, <1>6
  <2>2. Free(numLock[PrefixOf(tx[p])][tx[p].date], p) /\ Numbered(p, no)
    BY <1>1, <1>6, <2>1 DEF TakeNumber
  <2> QED BY <1>1, <1>2, <2>2, NumberedAR
<1>7. CASE InsertNumber(p) /\ seq[k][d] = None
  <2>1. Free(numLock[PrefixOf(tx[p])][tx[p].date], p) /\ Numbered(p, 1)
    BY <1>1, <1>7 DEF InsertNumber
  <2> QED BY <1>1, <1>2, <2>1, NumberedAR
<1>8. CASE InsertNumber(p) /\ seq[k][d] # None
  <2>1. Refuse(p)
    BY <1>1, <1>8 DEF InsertNumber
  <2> QED BY <2>1, RefuseAR
<1> QED BY <1>5, <1>6, <1>7, <1>8

-----------------------------------------------------------------------------
(* Copies, and what is applied to them. *)

\* What is applied is no more than what is owed, and nothing only when nothing is.
LEMMA AppliedAmount ==
  ASSUME NEW n \in Int, n > 0, NEW open \in Nat
  PROVE  Applied(n, open) \in Nat /\ Applied(n, open) <= open /\ (Applied(n, open) = 0 => open = 0)
BY DEF Applied

\* A copy to which no more than what is owed was applied.
LEMMA SettledRight ==
  ASSUME NEW c, RowOK(c), NEW a \in Nat, a <= Owed(c), a = 0 => Owed(c) = 0
  PROVE  /\ RowOK(Settled(c, a)) /\ Same(Settled(c, a), c) /\ Right(Settled(c, a))
         /\ Settled(c, a).paid = c.paid + a
<1>1. PICK s, n, m, st : /\ s = Settled(c, a) /\ n = c.total /\ m = c.paid
                         /\ st = IF m + a >= n THEN "PAID" ELSE "PARTIAL"
  OBVIOUS
<1>2. c \in DocRow /\ n \in Nat /\ n > 0 /\ m \in Nat /\ a <= n - m
  BY <1>1 DEF RowOK, DocRow, Owed
<1>3. m + a \in Nat /\ m + a <= n /\ (m + a >= n <=> m + a = n) /\ m + a # 0
  <2>1. a = 0 => n - m = 0
    BY <1>1 DEF Owed
  <2> QED BY <1>2, <2>1
<1>4. s = [c EXCEPT !.paid = m + a, !.status = st]
  BY <1>1 DEF Settled
<1>5. /\ s \in DocRow /\ s.of = c.of /\ s.how = c.how /\ s.date = c.date /\ s.no = c.no /\ s.total = n
      /\ s.paid = m + a /\ s.status = st
  <2>1. m + a \in Nat /\ st \in {"OPEN", "PARTIAL", "PAID"}
    BY <1>1, <1>3
  <2> HIDE <1>1
  <2>2. c.total = n
    BY <1>1
  <2> QED BY <1>2, <1>4, <2>1, <2>2 DEF DocRow
<1>6. RowOK(s) /\ Same(s, c) /\ Right(s)
  BY <1>1, <1>3, <1>5 DEF RowOK, Same, Right
<1> QED BY <1>1, <1>5, <1>6

\* What is recorded as applied once more was applied to i.
LEMMA AddedAt ==
  ASSUME NEW f, NEW i, NEW a \in Nat, NEW g, g = IF a > 0 THEN Add(f, i, a) ELSE f,
         \A j \in DOMAIN f : f[j] \in Nat
  PROVE  /\ DOMAIN g \subseteq DOMAIN f \cup {i} /\ \A j \in DOMAIN g : g[j] \in Nat
         /\ \A j : (IF j \in DOMAIN g THEN g[j] ELSE 0)
                     = (IF j \in DOMAIN f THEN f[j] ELSE 0) + (IF j = i THEN a ELSE 0)
<1>1. CASE a > 0
  <2>1. DOMAIN g = DOMAIN f \cup {i}
        /\ g[i] = a + (IF i \in DOMAIN f THEN f[i] ELSE 0) /\ \A j \in DOMAIN f : j # i => g[j] = f[j]
    BY <1>1 DEF Add, Put
  <2> QED BY <1>1, <2>1
<1>2. CASE ~(a > 0)
  BY <1>2
<1> QED BY <1>1, <1>2

\* A document the session reads is right, unless it was written from a copy out of date.
LEMMA DocRight ==
  ASSUME ARInv, NEW i \in Known
  PROVE  RowOK(docs[i]) /\ Same(docs[i], docs[i]) /\ (i \notin StaleDocs => Right(docs[i]))
BY DEF ARInv, TablesTyped, SettlementsKept, PaidIsAllocated, Right, Same

\* An explicit allocation.
LEMMA ApplyNextAR == ASSUME ARInv, NEW p \in Proc, ApplyNext(p) PROVE ARInv'
<1>1. PICK t, al, i, n : t = tx[p] /\ al = Head(t.plan) /\ i = al.doc /\ n = al.amount
  OBVIOUS
<1>2. /\ IsSession(t) /\ Asks(p) /\ t.pc = "apply" /\ t.pend = {} /\ t.plan # <<>>
      /\ \A j \in DOMAIN t.copies : CopyOK(t, j)
      /\ \A j \in DOMAIN t.rows : WriteOK(p, t, j)
  BY <1>1 DEF ARInv, Shaped, Sound, ApplyNext, At
<1>3. t.op = "settle" /\ Settles(p, t) /\ t.of \in Kind
  BY <1>1, <1>2 DEF Asks, Documents, Voids
<1>4. /\ i \in OfKind(t.of) /\ i \in Known /\ n \in Nat /\ n > 0
      /\ Tail(t.plan) \in Seq([doc : Nat, amount : Nat \ {0}])
      /\ \A k \in DOMAIN Tail(t.plan) : Tail(t.plan)[k].doc \in OfKind(t.of)
  <2>1. PICK s, T : s = t.plan /\ T = [doc : Nat, amount : Nat \ {0}]
    OBVIOUS
  <2>2. s \in Seq(T) /\ s # <<>> /\ \A k \in DOMAIN s : s[k].doc \in OfKind(t.of)
    BY <1>2, <1>3, <2>1 DEF Settles
  <2>3. /\ Len(s) \in Nat /\ Len(s) >= 1 /\ DOMAIN s = 1..Len(s) /\ Head(s) = s[1] /\ Head(s) \in T
        /\ Tail(s) \in Seq(T) /\ DOMAIN Tail(s) = 1..(Len(s) - 1)
        /\ \A k \in 1..(Len(s) - 1) : Tail(s)[k] = s[k + 1]
    BY <2>2
  <2>4. 1 \in DOMAIN s /\ \A k \in 1..(Len(s) - 1) : k + 1 \in DOMAIN s
    BY <2>3
  <2>5. al \in T /\ i \in OfKind(t.of)
    BY <1>1, <2>1, <2>2, <2>3, <2>4
  <2>6. \A k \in DOMAIN Tail(s) : Tail(s)[k].doc \in OfKind(t.of)
    BY <2>2, <2>3, <2>4
  <2> QED BY <1>1, <2>1, <2>3, <2>5, <2>6 DEF OfKind
<1>5. PICK y : y = IF i \in DOMAIN t.copies THEN t
                   ELSE [t EXCEPT !.base = Put(@, i, docs[i]), !.copies = Put(@, i, docs[i])]
  OBVIOUS
<1>6. /\ IsSession(y) /\ y.op = t.op /\ y.pc = t.pc /\ y.of = t.of /\ y.date = t.date /\ y.amount = t.amount
      /\ y.no = t.no /\ y.plan = t.plan /\ y.pend = {} /\ y.rows = t.rows /\ y.applied = t.applied
      /\ y.left = t.left /\ y.delta = t.delta /\ y.stale = t.stale
      /\ DOMAIN y.base = DOMAIN t.copies \cup {i} /\ DOMAIN y.copies = DOMAIN t.copies \cup {i}
      /\ \A j \in DOMAIN t.copies : y.base[j] = t.base[j] /\ y.copies[j] = t.copies[j]
      /\ i \notin DOMAIN t.copies => y.base[i] = docs[i] /\ y.copies[i] = docs[i]
  <2>1. DOMAIN t.base = DOMAIN t.copies
    BY <1>3 DEF Settles
  <2>2. CASE i \in DOMAIN t.copies
    BY <1>2, <1>5, <2>1, <2>2
  <2>3. CASE i \notin DOMAIN t.copies
    <3>1. y = [t EXCEPT !.base = Put(t.base, i, docs[i]), !.copies = Put(t.copies, i, docs[i])]
      BY <1>5, <2>3
    <3>2. /\ IsSession(y) /\ y.op = t.op /\ y.pc = t.pc /\ y.of = t.of /\ y.date = t.date /\ y.amount = t.amount
          /\ y.no = t.no /\ y.plan = t.plan /\ y.pend = t.pend /\ y.rows = t.rows /\ y.applied = t.applied
          /\ y.left = t.left /\ y.delta = t.delta /\ y.stale = t.stale
          /\ y.base = Put(t.base, i, docs[i]) /\ y.copies = Put(t.copies, i, docs[i])
      BY <1>2, <3>1 DEF IsSession
    <3> QED BY <1>2, <2>1, <2>3, <3>2 DEF Put
  <2> QED BY <2>2, <2>3
<1>7. PICK c, b, a : c = y.copies[i] /\ b = y.base[i] /\ a = Applied(n, Owed(c))
  OBVIOUS
\* What the session has of the document.
<1>8. /\ RowOK(c) /\ RowOK(b) /\ Same(c, docs[i]) /\ Same(b, docs[i]) /\ (i \notin StaleDocs => Right(b))
      /\ i \notin DOMAIN t.rows => Adds(t, i) = 0 /\ c.paid = b.paid /\ docs[i].paid = b.paid
      /\ i \in DOMAIN t.rows /\ Clean(t, i) =>
           b.paid = t.rows[i].paid /\ c.paid = docs[i].paid + Adds(t, i)
  <2>1. DOMAIN t.copies = DOMAIN t.rows /\ (i \notin DOMAIN t.rows => Adds(t, i) = 0)
    BY <1>2, <1>3 DEF Settles, Adds
  <2>2. CASE i \in DOMAIN t.copies
    <3>1. CopyOK(t, i) /\ c = t.copies[i] /\ b = t.base[i]
      BY <1>2, <1>6, <1>7, <2>2
    <3> QED BY <1>2, <2>1, <2>2, <3>1 DEF CopyOK
  <2>3. CASE i \notin DOMAIN t.copies
    <3>1. c = docs[i] /\ b = docs[i]
      BY <1>6, <1>7, <2>3
    <3> QED BY <1>4, <2>1, <2>3, <3>1, DocRight
  <2> QED BY <2>2, <2>3
<1>9. PICK s : s = Settled(c, a)
  OBVIOUS
<1>10. /\ a \in Nat /\ RowOK(s) /\ Same(s, c) /\ Right(s) /\ s.paid = c.paid + a
       /\ c.paid \in Nat /\ b.paid \in Nat /\ docs[i].paid \in Nat
  <2>1. Owed(c) \in Nat /\ c.paid \in Nat /\ b.paid \in Nat
    <3>1. PICK u, v : u = c.total /\ v = c.paid
      OBVIOUS
    <3>2. u \in Nat /\ v \in Nat /\ v <= u /\ b.paid \in Nat
      BY <1>8, <3>1 DEF RowOK, DocRow
    <3> QED BY <3>1, <3>2 DEF Owed
  <2>2. a \in Nat /\ a <= Owed(c) /\ (a = 0 => Owed(c) = 0)
    BY <1>4, <1>7, <2>1, AppliedAmount
  <2>3. docs[i].paid \in Nat
    BY <1>4, DocRight DEF RowOK, DocRow
  <2> QED BY <1>8, <1>9, <2>1, <2>2, <2>3, SettledRight
<1>11. PICK g : g = IF a > 0 THEN Add(t.applied, i, a) ELSE t.applied
  OBVIOUS
<1>12. PICK z : z = [y EXCEPT !.copies = [y.copies EXCEPT ![i] = s], !.pend = {i}, !.applied = g,
                              !.left = t.left - a]
  OBVIOUS
<1>13. PICK x : x = [z EXCEPT !.plan = Tail(t.plan)]
  OBVIOUS
<1>14. /\ IsSession(x) /\ x.op = "settle" /\ x.pc = "apply" /\ x.of = t.of /\ x.date = t.date
       /\ x.amount = t.amount /\ x.no = t.no /\ x.plan = Tail(t.plan) /\ x.pend = {i} /\ x.rows = t.rows
       /\ x.applied = g /\ x.left = t.left - a /\ x.delta = t.delta /\ x.stale = t.stale
       /\ x.base = y.base /\ x.copies = [y.copies EXCEPT ![i] = s]
  <2>1. /\ IsSession(z) /\ z.op = y.op /\ z.pc = y.pc /\ z.of = y.of /\ z.date = y.date
        /\ z.amount = y.amount /\ z.no = y.no /\ z.pend = {i} /\ z.rows = y.rows
        /\ z.applied = g /\ z.left = t.left - a /\ z.delta = y.delta /\ z.stale = y.stale
        /\ z.base = y.base /\ z.copies = [y.copies EXCEPT ![i] = s]
    BY <1>6, <1>12 DEF IsSession
  <2>2. /\ IsSession(x) /\ x.op = z.op /\ x.pc = z.pc /\ x.of = z.of /\ x.date = z.date
        /\ x.amount = z.amount /\ x.no = z.no /\ x.pend = z.pend /\ x.rows = z.rows
        /\ x.applied = z.applied /\ x.left = z.left /\ x.delta = z.delta /\ x.stale = z.stale
        /\ x.base = z.base /\ x.copies = z.copies /\ x.plan = Tail(t.plan)
    BY <1>13, <2>1 DEF IsSession
  <2> QED BY <1>2, <1>3, <1>6, <2>1, <2>2
<1>15. tx' = [tx EXCEPT ![p] = x] /\ UNCHANGED tables /\ UNCHANGED locks
  <2>1. /\ UNCHANGED tables /\ UNCHANGED locks
        /\ tx' = [tx EXCEPT ![p] = [ApplyTo(y, i, n) EXCEPT !.plan = Tail(@)]]
    BY <1>1, <1>5 DEF ApplyNext, Goto
  <2>2. ApplyTo(y, i, n) = z
    <3>1. y.copies[i] = c /\ y.pend \cup {i} = {i} /\ y.applied = t.applied /\ y.left = t.left
      BY <1>6, <1>7
    <3>2. [y EXCEPT !.copies[i] = Settled(@, a)] = [y EXCEPT !.copies = [y.copies EXCEPT ![i] = Settled(c, a)]]
      BY <3>1
    <3> QED BY <1>7, <1>9, <1>11, <1>12, <3>1, <3>2 DEF ApplyTo
  <2>3. z.plan = t.plan
    BY <1>6, <1>12 DEF IsSession
  <2> QED BY <1>13, <2>1, <2>2, <2>3
<1>16. tx'[p] = x
  BY <1>14, <1>15, Given DEF ARInv
<1>17. /\ docs' = docs /\ stale' = stale /\ numLock' = numLock /\ docLock' = docLock /\ LocksKept(p)
       /\ StaleDocs' = StaleDocs /\ \A k : OfKind(k)' = OfKind(k)
  BY <1>15 DEF tables, locks, LocksKept, ARInv, Locks, StaleDocs, OfKind, Known
<1>18. /\ DOMAIN g \subseteq DOMAIN t.applied \cup {i} /\ \A j \in DOMAIN g : g[j] \in Nat
       /\ \A j : Adds(x, j) = Adds(t, j) + (IF j = i THEN a ELSE 0)
  <2>1. \A j \in DOMAIN t.applied : t.applied[j] \in Nat
    BY <1>3 DEF Settles
  <2>2. /\ DOMAIN g \subseteq DOMAIN t.applied \cup {i} /\ \A j \in DOMAIN g : g[j] \in Nat
        /\ \A j : (IF j \in DOMAIN g THEN g[j] ELSE 0)
                    = (IF j \in DOMAIN t.applied THEN t.applied[j] ELSE 0) + (IF j = i THEN a ELSE 0)
    BY <1>10, <1>11, <2>1, AddedAt
  <2> QED BY <1>14, <2>2 DEF Adds
<1>19. /\ DOMAIN x.copies = DOMAIN t.rows \cup {i} /\ DOMAIN x.base = DOMAIN x.copies
       /\ x.copies[i] = s /\ x.base[i] = b
       /\ \A j \in DOMAIN t.rows : j # i => x.copies[j] = t.copies[j] /\ x.base[j] = t.base[j]
       /\ DOMAIN t.copies = DOMAIN t.rows
  <2>1. DOMAIN t.copies = DOMAIN t.rows
    BY <1>2, <1>3 DEF Settles
  <2> QED BY <1>6, <1>7, <1>14, <2>1
<1>20. Asks(p)'
  <2>1. Settles(p, x)'
    <3>1. Settles(p, t)
      BY <1>3
    <3>2. \A j \in DOMAIN x.applied : x.applied[j] \in Nat /\ j \in x.pend \cup DOMAIN x.rows
      BY <1>2, <1>14, <1>18, <3>1 DEF Settles
    <3> QED BY <1>2, <1>4, <1>14, <1>17, <1>19, <3>1, <3>2 DEF Settles
  <2>2. t.left \in Int /\ t.amount \in Nat /\ t.delta \in Int
    BY <1>1, <1>2 DEF Asks
  <2>3. x.left \in Int
    BY <1>10, <1>14, <2>2
  <2> QED BY <1>3, <1>14, <1>16, <2>1, <2>2, <2>3 DEF Asks
<1>21. \A j : Clean(x, j)' <=> Clean(t, j)
  BY <1>14, <1>17 DEF Clean
<1>22. ASSUME NEW j \in DOMAIN x.copies PROVE CopyOK(x, j)'
  <2>1. CASE j = i
    <3>1. Same(s, docs[i]) /\ Same(b, docs[i])
      BY <1>8, <1>10 DEF Same
    <3>2. i \notin DOMAIN x.rows => s.paid = b.paid + Adds(x, i) /\ docs[i].paid = b.paid
      BY <1>8, <1>10, <1>14, <1>18
    <3>3. i \in DOMAIN x.rows /\ Clean(t, i) => b.paid = x.rows[i].paid /\ s.paid = docs[i].paid + Adds(x, i)
      <4>1. Adds(t, i) \in Nat
        BY <1>3 DEF Settles, Adds
      <4> QED BY <1>8, <1>10, <1>14, <1>18, <4>1
    <3> QED BY <1>4, <1>8, <1>10, <1>14, <1>17, <1>19, <1>21, <2>1, <3>1, <3>2, <3>3 DEF CopyOK
  <2>2. CASE j # i
    <3>1. j \in DOMAIN t.rows /\ CopyOK(t, j) /\ x.copies[j] = t.copies[j] /\ x.base[j] = t.base[j]
      BY <1>2, <1>19, <2>2
    <3>2. Adds(x, j) = Adds(t, j)
      <4>1. Adds(t, j) \in Nat
        BY <1>3 DEF Settles, Adds
      <4> QED BY <1>18, <2>2, <4>1
    <3> QED BY <1>2, <1>14, <1>17, <1>21, <3>1, <3>2 DEF CopyOK
  <2> QED BY <2>1, <2>2
<1>23. ASSUME NEW j \in DOMAIN x.rows PROVE WriteOK(p, x, j)'
  <2>1. WriteOK(p, t, j)
    BY <1>2, <1>14
  <2> QED BY <1>14, <1>17, <1>21, <2>1 DEF WriteOK
<1>24. Sound(p)'
  BY <1>16, <1>20, <1>22, <1>23 DEF Sound
<1> QED BY <1>14, <1>15, <1>17, <1>24, QuietAR

\* Oldest first.
LEMMA ApplyFifoAR == ASSUME ARInv, NEW p \in Proc, ApplyFifo(p) PROVE ARInv'
<1>1. PICK t : t = tx[p]
  OBVIOUS
<1>2. PICK hit : hit = {i \in OfKind(t.of) : Open(docs[i]) /\ Reaching(t.of, t.amount, i) > 0}
  OBVIOUS
<1>3. PICK part : part = [i \in hit |-> Applied(Reaching(t.of, t.amount, i), Owed(docs[i]))]
  OBVIOUS
<1>4. PICK base, copies, left :
        /\ base = [i \in hit |-> docs[i]]
        /\ copies = [i \in hit |-> Settled(docs[i], part[i])]
        /\ left = t.amount - SumFunctionOnSet(part, hit)
  OBVIOUS
<1>5. PICK x : x = [t EXCEPT !.pc = "apply", !.base = base, !.copies = copies, !.pend = hit,
                             !.applied = part, !.left = left]
  OBVIOUS
<1>6. IsSession(t) /\ Asks(p) /\ t.pc = "fifo" /\ tx' = [tx EXCEPT ![p] = x] /\ UNCHANGED tables /\ UNCHANGED locks
  BY <1>1, <1>2, <1>3, <1>4, <1>5 DEF ARInv, Shaped, Sound, ApplyFifo, At, Goto
<1>7. /\ IsSession(x) /\ x.op = t.op /\ x.pc = "apply" /\ x.of = t.of /\ x.date = t.date
      /\ x.amount = t.amount /\ x.no = t.no /\ x.plan = t.plan /\ x.pend = hit /\ x.rows = t.rows
      /\ x.applied = part /\ x.left = left /\ x.delta = t.delta /\ x.stale = t.stale
      /\ x.base = base /\ x.copies = copies
  BY <1>5, <1>6 DEF IsSession
<1>8. t.op = "settle" /\ Settles(p, t) /\ t.of \in Kind /\ Fresh(t) /\ t.amount \in Nat /\ t.delta \in Int
  BY <1>1, <1>6 DEF Asks, Documents, Voids, Settles
<1>9. tx'[p] = x
  BY <1>6, <1>7, Given DEF ARInv
<1>10. /\ docs' = docs /\ stale' = stale /\ numLock' = numLock /\ docLock' = docLock /\ LocksKept(p)
       /\ StaleDocs' = StaleDocs /\ \A k : OfKind(k)' = OfKind(k)
  BY <1>6 DEF tables, locks, LocksKept, ARInv, Locks, StaleDocs, OfKind, Known
<1>11. hit \subseteq OfKind(t.of) /\ hit \subseteq Known /\ IsFiniteSet(hit)
  <2>1. IsFiniteSet(Known)
    BY Places DEF ARInv
  <2>2. hit \subseteq OfKind(t.of) /\ hit \subseteq Known
    BY <1>2 DEF OfKind
  <2> QED BY <2>1, <2>2, FS_Subset
<1>12. ASSUME NEW i \in Known PROVE Owed(docs[i]) \in Nat
  <2>1. PICK n, m : n = docs[i].total /\ m = docs[i].paid
    OBVIOUS
  <2>2. n \in Nat /\ m \in Nat /\ m <= n
    BY <2>1, DocRight DEF RowOK, DocRow
  <2> QED BY <2>1, <2>2 DEF Owed
<1>13. ASSUME NEW i \in hit PROVE Reaching(t.of, t.amount, i) \in Int /\ Reaching(t.of, t.amount, i) > 0
  <2>1. PICK f, S : /\ f = [j \in Known |-> Owed(docs[j])]
                    /\ S = {j \in OfKind(t.of) : Open(docs[j]) /\ Before(docs[j], docs[i])}
    OBVIOUS
  <2>2. S \subseteq Known /\ IsFiniteSet(Known)
    BY <2>1, Places DEF ARInv, OfKind
  <2>3. IsFiniteSet(S) /\ \A j \in S : f[j] \in Int
    BY <1>12, <2>1, <2>2, FS_Subset
  <2>4. SumFunctionOnSet(f, S) \in Int
    BY <2>3, SumType
  <2>5. Reaching(t.of, t.amount, i) = t.amount - SumFunctionOnSet(f, S)
    BY <2>1 DEF Reaching
  <2> QED BY <1>2, <1>8, <2>4, <2>5
<1>14. ASSUME NEW i \in hit
       PROVE  /\ part[i] \in Nat /\ i \in OfKind(t.of) /\ i \in Known
              /\ RowOK(copies[i]) /\ Same(copies[i], docs[i]) /\ Right(copies[i])
              /\ copies[i].paid = docs[i].paid + part[i] /\ base[i] = docs[i]
  <2>1. i \in Known /\ i \in OfKind(t.of)
    BY <1>11
  <2>2. part[i] \in Nat /\ part[i] <= Owed(docs[i]) /\ (part[i] = 0 => Owed(docs[i]) = 0)
    BY <1>3, <1>12, <1>13, <2>1, AppliedAmount
  <2>3. RowOK(docs[i])
    BY <2>1, DocRight
  <2>4. copies[i] = Settled(docs[i], part[i]) /\ base[i] = docs[i]
    BY <1>4
  <2> QED BY <2>1, <2>2, <2>3, <2>4, SettledRight
<1>15. DOMAIN part = hit /\ DOMAIN copies = hit /\ DOMAIN base = hit
  BY <1>3, <1>4
<1>16. Asks(p)'
  <2>1. Settles(p, x)'
    BY <1>6, <1>7, <1>8, <1>10, <1>14, <1>15 DEF Settles, Fresh
  <2>2. left \in Int
    <3>1. SumFunctionOnSet(part, hit) \in Int
      BY <1>11, <1>14, SumType
    <3> QED BY <1>4, <1>8, <3>1
  <2> QED BY <1>7, <1>8, <1>9, <2>1, <2>2 DEF Asks
<1>17. ASSUME NEW i \in DOMAIN x.copies PROVE CopyOK(x, i)'
  <2>1. i \in hit /\ i \notin DOMAIN x.rows /\ i \in x.pend /\ Adds(x, i) = part[i]
    BY <1>7, <1>8, <1>15 DEF Fresh, Adds
  <2>2. RowOK(docs[i]) /\ Same(docs[i], docs[i]) /\ (i \notin StaleDocs => Right(docs[i]))
    BY <1>14, <2>1, DocRight
  <2> QED BY <1>7, <1>10, <1>14, <2>1, <2>2 DEF CopyOK
<1>18. Sound(p)'
  <2>1. DOMAIN x.rows = {}
    BY <1>7, <1>8 DEF Fresh
  <2> QED BY <1>9, <1>16, <1>17, <2>1 DEF Sound
<1> QED BY <1>1, <1>6, <1>7, <1>10, <1>18, QuietAR

-----------------------------------------------------------------------------
(* Rows written. *)

\* r is the row db with what a session changed of it between the copies b and c.
Rewrites(r, db, b, c, d) ==
  /\ RowOK(r) /\ Same(r, db) /\ r.last = d
  /\ db.paid = b.paid => r.paid = c.paid
  /\ db.status = b.status => r.status = c.status

\* The columns the session changed, over a row it may not have read.
LEMMA UpdatedRow ==
  ASSUME NEW db, RowOK(db), NEW b, NEW c, RowOK(c), Same(c, db), NEW d \in Date
  PROVE  Rewrites(Updated(db, b, c, d), db, b, c, d)
<1>1. PICK r, n, st : /\ r = Updated(db, b, c, d)
                      /\ n = IF c.paid # b.paid THEN c.paid ELSE db.paid
                      /\ st = IF c.status # b.status THEN c.status ELSE db.status
  OBVIOUS
<1>2. r = [db EXCEPT !.paid = n, !.status = st, !.last = d]
  BY <1>1 DEF Updated
<1>3. /\ db \in DocRow /\ c \in DocRow /\ n \in Nat /\ n <= db.total
      /\ st \in {"OPEN", "PARTIAL", "PAID"}
  BY <1>1 DEF RowOK, DocRow, Same
<1>4. /\ r \in DocRow /\ r.of = db.of /\ r.how = db.how /\ r.date = db.date /\ r.no = db.no
      /\ r.total = db.total /\ r.paid = n /\ r.status = st /\ r.last = d
  BY <1>2, <1>3 DEF DocRow
<1>5. RowOK(r) /\ Same(r, db)
  BY <1>3, <1>4 DEF RowOK, Same
<1>6. (db.paid = b.paid => n = c.paid) /\ (db.status = b.status => st = c.status)
  BY <1>1
<1> QED BY <1>1, <1>4, <1>5, <1>6 DEF Rewrites

\* Rows of one document that show the same as paid show the same status, if they are right.
LEMMA RightSame ==
  ASSUME NEW r, NEW s, Same(r, s), r.paid = s.paid
  PROVE  /\ Right(r) /\ Right(s) => r.status = s.status
         /\ Right(r) /\ r.status = s.status => Right(s)
BY DEF Right, Same

\* The session flushes a document it changed.
LEMMA FlushAR == ASSUME ARInv, NEW p \in Proc, Flush(p) PROVE ARInv'
<1>1. PICK t : t = tx[p]
  OBVIOUS
<1>2. PICK i \in t.pend :
        /\ Free(docLock[i], p)
        /\ docLock' = [docLock EXCEPT ![i] = p]
        /\ Goto(p, [t EXCEPT !.rows = Put(@, i, Updated(RowOf(p, i), t.base[i], t.copies[i], t.date)),
                             !.base[i] = t.copies[i], !.pend = @ \ {i},
                             !.stale = IF i \in DOMAIN t.rows \/ RowOf(p, i).paid = t.base[i].paid THEN @
                                       ELSE @ \cup {[doc |-> i, dates |-> <<RowOf(p, i).last, t.date>>]}])
        /\ UNCHANGED <<numLock, books>>
  BY <1>1 DEF Flush
<1>3. /\ IsSession(t) /\ Asks(p) /\ Locks
      /\ \A j \in DOMAIN t.copies : CopyOK(t, j)
      /\ \A j \in DOMAIN t.rows : WriteOK(p, t, j)
  BY <1>1 DEF ARInv, Shaped, Sound
<1>4. t.op = "settle" /\ Settles(p, t) /\ t.of \in Kind /\ t.pc = "apply" /\ t.date \in Date
  BY <1>1, <1>2, <1>3 DEF Asks, Settles, Fresh
<1>5. i \in DOMAIN t.copies /\ CopyOK(t, i) /\ i \in OfKind(t.of) /\ i \in Known /\ i \in Ids
  <2>1. i \in DOMAIN t.copies
    BY <1>2, <1>4 DEF Settles
  <2>2. CopyOK(t, i) /\ i \in OfKind(t.of) /\ i \in Known
    BY <1>3, <2>1 DEF CopyOK, OfKind
  <2>3. Known \subseteq Ids
    BY Places DEF ARInv
  <2> QED BY <2>1, <2>2, <2>3
<1>6. PICK db, b, c : db = RowOf(p, i) /\ b = t.base[i] /\ c = t.copies[i]
  OBVIOUS
<1>7. PICK w : w = IF i \in DOMAIN t.rows \/ db.paid = b.paid THEN {}
                   ELSE {[doc |-> i, dates |-> <<db.last, t.date>>]}
  OBVIOUS
<1>8. PICK r : r = Updated(db, b, c, t.date)
  OBVIOUS
<1>9. PICK x : x = [t EXCEPT !.rows = Put(t.rows, i, r), !.base = [t.base EXCEPT ![i] = c],
                             !.pend = t.pend \ {i}, !.stale = t.stale \cup w]
  OBVIOUS
<1>10. tx' = [tx EXCEPT ![p] = x] /\ UNCHANGED tables
  <2>1. t.stale \cup {} = t.stale
    OBVIOUS
  <2>2. (IF i \in DOMAIN t.rows \/ db.paid = b.paid THEN t.stale
         ELSE t.stale \cup {[doc |-> i, dates |-> <<db.last, t.date>>]}) = t.stale \cup w
    BY <1>7, <2>1
  <2>3. x = [t EXCEPT !.rows = Put(@, i, Updated(RowOf(p, i), t.base[i], t.copies[i], t.date)),
                      !.base[i] = t.copies[i], !.pend = @ \ {i},
                      !.stale = IF i \in DOMAIN t.rows \/ RowOf(p, i).paid = t.base[i].paid THEN @
                                ELSE @ \cup {[doc |-> i, dates |-> <<RowOf(p, i).last, t.date>>]}]
    BY <1>6, <1>8, <1>9, <2>2
  <2> QED BY <1>2, <2>3 DEF Goto
<1>11. /\ IsSession(x) /\ x.op = "settle" /\ x.pc = "apply" /\ x.of = t.of /\ x.date = t.date
       /\ x.amount = t.amount /\ x.no = t.no /\ x.plan = t.plan /\ x.pend = t.pend \ {i}
       /\ x.rows = Put(t.rows, i, r) /\ x.applied = t.applied /\ x.left = t.left /\ x.delta = t.delta
       /\ x.stale = t.stale \cup w /\ x.base = [t.base EXCEPT ![i] = c] /\ x.copies = t.copies
  BY <1>3, <1>4, <1>9 DEF IsSession
<1>12. tx'[p] = x
  BY <1>10, <1>11, Given DEF ARInv
<1>13. /\ docs' = docs /\ stale' = stale /\ numLock' = numLock
       /\ StaleDocs' = StaleDocs /\ \A k : OfKind(k)' = OfKind(k)
  BY <1>2, <1>10 DEF tables, StaleDocs, OfKind, Known
<1>14. LocksKept(p) /\ docLock'[i] = p /\ \A j \in Ids : docLock[j] = p => docLock'[j] = p
  BY <1>2, <1>3, <1>5 DEF LocksKept, Locks, Free
<1>15. /\ DOMAIN x.rows = DOMAIN t.rows \cup {i} /\ x.rows[i] = r
       /\ \A j \in DOMAIN t.rows : j # i => x.rows[j] = t.rows[j]
       /\ DOMAIN x.base = DOMAIN t.copies /\ x.base[i] = c
       /\ \A j \in DOMAIN t.copies : j # i => x.base[j] = t.base[j]
  BY <1>4, <1>5, <1>11 DEF Put, Settles
<1>16. \A j : Adds(x, j) = Adds(t, j)
  BY <1>11 DEF Adds
\* The row as the session finds it, and as it writes it.
<1>17. /\ RowOK(b) /\ RowOK(c) /\ Same(b, docs[i]) /\ Same(c, docs[i]) /\ Right(c)
       /\ i \notin StaleDocs => Right(b)
  BY <1>5, <1>6 DEF CopyOK
<1>18. /\ RowOK(db) /\ Same(db, docs[i])
       /\ i \in DOMAIN t.rows => db = t.rows[i] /\ (Clean(t, i) => Right(db) /\ b.paid = db.paid)
       /\ i \notin DOMAIN t.rows => db = docs[i]
  <2>1. CASE i \in DOMAIN t.rows
    <3>1. db = t.rows[i] /\ WriteOK(p, t, i)
      BY <1>1, <1>3, <1>6, <2>1 DEF RowOf
    <3>2. Clean(t, i) => b.paid = db.paid
      BY <1>5, <1>6, <2>1, <3>1 DEF CopyOK
    <3> QED BY <2>1, <3>1, <3>2 DEF WriteOK
  <2>2. CASE i \notin DOMAIN t.rows
    <3>1. db = docs[i]
      BY <1>1, <1>6, <2>2 DEF RowOf
    <3> QED BY <1>5, <2>2, <3>1, DocRight
  <2> QED BY <2>1, <2>2
<1>19. /\ RowOK(r) /\ Same(r, docs[i]) /\ r.last = t.date
       /\ db.paid = b.paid => r.paid = c.paid
       /\ db.status = b.status => r.status = c.status
  <2>1. Same(c, db)
    BY <1>17, <1>18 DEF Same
  <2>2. /\ RowOK(r) /\ Same(r, db) /\ r.last = t.date
        /\ db.paid = b.paid => r.paid = c.paid
        /\ db.status = b.status => r.status = c.status
    <3>1. RowOK(db) /\ RowOK(c) /\ t.date \in Date
      BY <1>4, <1>17, <1>18
    <3>2. PICK d \in Date : d = t.date
      BY <3>1
    <3>3. Rewrites(Updated(db, b, c, d), db, b, c, d)
      BY <2>1, <3>1, <3>2, UpdatedRow
    <3>4. r = Updated(db, b, c, d)
      BY <1>8, <3>2
    <3>5. Rewrites(r, db, b, c, d)
      BY <3>3, <3>4
    <3> QED BY <3>2, <3>5 DEF Rewrites
  <2> QED BY <1>18, <2>2 DEF Same
<1>20. /\ Clean(x, i)' => Clean(t, i) /\ i \notin StaleDocs /\ (i \in DOMAIN t.rows \/ db.paid = b.paid)
       /\ \A j : j # i => (Clean(x, j)' <=> Clean(t, j))
  <2>1. \A s \in w : s.doc = i
    BY <1>7
  <2>2. i \in DOMAIN t.rows \/ db.paid = b.paid \/ \E s \in w : s.doc = i
    BY <1>7
  <2> QED BY <1>11, <1>13, <2>1, <2>2 DEF Clean
<1>21. Clean(x, i)' => db.paid = b.paid /\ r.paid = c.paid /\ Right(r) /\ c.paid = docs[i].paid + Adds(x, i)
  <2>1. ASSUME Clean(x, i)' PROVE db.paid = b.paid /\ Right(b) /\ Right(db)
    <3>1. db.paid = b.paid
      BY <1>18, <1>20, <2>1
    <3>2. Right(b)
      BY <1>17, <1>20, <2>1
    <3>3. Right(db)
      BY <1>5, <1>18, <1>20, <2>1, DocRight
    <3> QED BY <3>1, <3>2, <3>3
  <2>2. ASSUME Clean(x, i)' PROVE r.paid = c.paid /\ Right(r)
    <3>1. db.status = b.status
      <4>1. Same(db, b)
        BY <1>17, <1>18 DEF Same
      <4> QED BY <2>1, <2>2, <4>1, RightSame
    <3>2. r.paid = c.paid /\ r.status = c.status
      BY <1>19, <2>1, <2>2, <3>1
    <3>3. Same(c, r)
      BY <1>17, <1>19 DEF Same
    <3> QED BY <1>17, <3>2, <3>3, RightSame
  <2>3. ASSUME Clean(x, i)' PROVE c.paid = docs[i].paid + Adds(x, i)
    <3>1. CASE i \in DOMAIN t.rows
      BY <1>5, <1>6, <1>16, <1>20, <2>3, <3>1 DEF CopyOK
    <3>2. CASE i \notin DOMAIN t.rows
      <4>1. db = docs[i] /\ db.paid = b.paid
        BY <1>18, <2>1, <2>3, <3>2
      <4>2. c.paid = b.paid + Adds(t, i)
        BY <1>5, <1>6, <3>2 DEF CopyOK
      <4> QED BY <1>16, <4>1, <4>2
    <3> QED BY <3>1, <3>2
  <2> QED BY <2>1, <2>2, <2>3
<1>22. \A s \in w : s.dates[1] # s.dates[2] /\ s.doc = i
  <2>1. CASE i \in DOMAIN t.rows \/ db.paid = b.paid
    BY <1>7, <2>1
  <2>2. CASE ~(i \in DOMAIN t.rows \/ db.paid = b.paid)
    <3>1. db.last # t.date
      BY <1>5, <1>6, <1>18, <2>2 DEF CopyOK
    <3>2. w = {[doc |-> i, dates |-> <<db.last, t.date>>]}
      BY <1>7, <2>2
    <3> QED BY <3>1, <3>2
  <2> QED BY <2>1, <2>2
<1>23. Asks(p)'
  <2>1. t.left \in Int /\ t.amount \in Nat /\ t.delta \in Int
    BY <1>1, <1>3 DEF Asks
  <2>2. Settles(p, x)'
    <3>1. \A s \in x.stale : s.dates[1] # s.dates[2] /\ s.doc \in DOMAIN x.rows
      BY <1>4, <1>11, <1>15, <1>22 DEF Settles
    <3>2. DOMAIN x.copies = x.pend \cup DOMAIN x.rows /\ DOMAIN x.copies = DOMAIN x.base
      BY <1>2, <1>4, <1>11, <1>15 DEF Settles
    <3>3. \A j \in DOMAIN x.applied : x.applied[j] \in Nat /\ j \in x.pend \cup DOMAIN x.rows
      BY <1>4, <1>11, <1>15 DEF Settles
    <3> QED BY <1>4, <1>11, <1>13, <3>1, <3>2, <3>3 DEF Settles
  <2> QED BY <1>4, <1>11, <1>12, <2>1, <2>2 DEF Asks
<1>24. ASSUME NEW j \in DOMAIN x.copies PROVE CopyOK(x, j)'
  <2>1. CASE j = i
    <3>1. /\ x.copies[i] = c /\ x.base[i] = c /\ i \in DOMAIN x.rows /\ x.rows[i] = r
      BY <1>6, <1>11, <1>15
    <3> QED BY <1>5, <1>11, <1>13, <1>17, <1>21, <2>1, <3>1 DEF CopyOK
  <2>2. CASE j # i
    <3>1. CopyOK(t, j) /\ x.copies[j] = t.copies[j] /\ x.base[j] = t.base[j]
      BY <1>3, <1>11, <1>15, <1>24, <2>2
    <3>2. /\ j \in DOMAIN x.rows <=> j \in DOMAIN t.rows
          /\ j \in DOMAIN t.rows => x.rows[j] = t.rows[j]
          /\ j \in x.pend <=> j \in t.pend
      BY <1>11, <1>15, <2>2
    <3> QED BY <1>11, <1>13, <1>16, <1>20, <2>2, <3>1, <3>2 DEF CopyOK
  <2> QED BY <2>1, <2>2
<1>25. ASSUME NEW j \in DOMAIN x.rows PROVE WriteOK(p, x, j)'
  <2>1. CASE j = i
    BY <1>5, <1>11, <1>13, <1>14, <1>15, <1>19, <1>21, <2>1 DEF WriteOK
  <2>2. CASE j # i
    <3>1. j \in DOMAIN t.rows /\ x.rows[j] = t.rows[j] /\ WriteOK(p, t, j)
      BY <1>3, <1>15, <1>25, <2>2
    <3>2. j \in Ids
      <4>1. Known \subseteq Ids
        BY Places DEF ARInv
      <4> QED BY <3>1, <4>1 DEF WriteOK, OfKind
    <3> QED BY <1>11, <1>13, <1>14, <1>20, <2>2, <3>1, <3>2 DEF WriteOK
  <2> QED BY <2>1, <2>2
<1>26. Sound(p)'
  BY <1>12, <1>23, <1>24, <1>25 DEF Sound
<1> QED BY <1>10, <1>11, <1>14, <1>26, QuietAR

-----------------------------------------------------------------------------
(* The entry, and the commit. *)

\* What a settlement applied, in all.
LEMMA AppliedSum ==
  ASSUME ARInv, NEW p \in Proc, tx[p].op = "settle"
  PROVE  /\ IsFiniteSet(DOMAIN tx[p].applied) /\ DOMAIN tx[p].applied \subseteq Ids
         /\ SumFunctionOnSet(tx[p].applied, DOMAIN tx[p].applied) \in Int
<1>1. PICK t : t = tx[p]
  OBVIOUS
<1>2. Settles(p, t) /\ Known \subseteq Ids /\ IsFiniteSet(Ids)
  BY <1>1, Places DEF ARInv, Sound, Asks
<1>3. ASSUME NEW i \in DOMAIN t.applied PROVE i \in Known
  <2>1. i \in DOMAIN t.rows \/ i \in DOMAIN t.copies
    BY <1>2 DEF Settles, Fresh
  <2> QED BY <1>1, <2>1 DEF ARInv, Sound, CopyOK, WriteOK, OfKind
<1>4. IsFiniteSet(DOMAIN t.applied) /\ DOMAIN t.applied \subseteq Ids
  <2>1. DOMAIN t.applied \subseteq Ids
    BY <1>2, <1>3
  <2> QED BY <1>2, <2>1, FS_Subset
<1>5. SumFunctionOnSet(t.applied, DOMAIN t.applied) \in Int
  <2>1. \A i \in DOMAIN t.applied : t.applied[i] \in Int
    BY <1>2 DEF Settles
  <2> QED BY <1>4, <2>1, SumType
<1> QED BY <1>1, <1>4, <1>5

\* post_entry.
LEMMA PostAR == ASSUME ARInv, NEW p \in Proc, PostEntry(p) PROVE ARInv'
<1>1. PICK t, pc : t = tx[p] /\ pc = IF t.op = "doc" THEN "number" ELSE "commit"
  OBVIOUS
<1>2. CASE Refuse(p)
  BY <1>2, RefuseAR
<1>3. CASE ~Refuse(p)
  <2>1. PICK x : x = [t EXCEPT !.delta = Posted(t), !.base = <<>>, !.copies = <<>>, !.pc = pc]
    OBVIOUS
  <2>2. /\ t.pc = "post" \/ (t.pc = "apply" /\ t.plan = <<>> /\ t.pend = {})
        /\ books' = p /\ tx' = [tx EXCEPT ![p] = x] /\ UNCHANGED tables /\ numLock' = numLock /\ docLock' = docLock
    BY <1>1, <1>3, <2>1 DEF PostEntry, At, Goto
  <2>3. /\ IsSession(t) /\ Asks(p)
        /\ \A j \in DOMAIN t.copies : CopyOK(t, j)
        /\ \A j \in DOMAIN t.rows : WriteOK(p, t, j)
    BY <1>1 DEF ARInv, Shaped, Sound
  <2>4. /\ IsSession(x) /\ x.op = t.op /\ x.pc = pc /\ x.of = t.of /\ x.date = t.date
        /\ x.amount = t.amount /\ x.how = t.how /\ x.doc = t.doc /\ x.no = t.no /\ x.plan = t.plan
        /\ x.pend = t.pend /\ x.rows = t.rows /\ x.applied = t.applied /\ x.left = t.left
        /\ x.delta = Posted(t) /\ x.stale = t.stale /\ x.base = <<>> /\ x.copies = <<>>
    BY <2>1, <2>3 DEF IsSession
  <2>5. tx'[p] = x
    BY <2>2, <2>4, Given DEF ARInv
  <2>6. /\ docs' = docs /\ stale' = stale /\ StaleDocs' = StaleDocs /\ \A k : OfKind(k)' = OfKind(k)
        /\ LocksKept(p)
    BY <2>2 DEF tables, StaleDocs, OfKind, Known, LocksKept, ARInv, Locks
  <2>7. DOMAIN x.base = {} /\ DOMAIN x.copies = {}
    BY <2>4
  <2>8. t.op \in {"doc", "void", "settle"} /\ t.of \in Kind /\ t.amount \in Nat /\ t.left \in Int
        /\ (t.op # "settle" => t.left = 0 /\ Fresh(t))
    BY <1>1, <2>2, <2>3 DEF Asks
  <2>9. CASE t.op = "doc"
    <3>1. Documents(t) /\ Fresh(t) /\ x.pc = "number" /\ t.pc = "post"
      BY <1>1, <2>2, <2>3, <2>4, <2>8, <2>9 DEF Asks, Documents
    <3>2. x.delta = IF t.how = "paid" THEN 0 ELSE t.amount
      BY <2>4, <2>9 DEF Posted
    <3>3. Fresh(x)
      BY <2>4, <2>7, <3>1 DEF Fresh
    <3>4. Documents(x)
      BY <2>4, <3>1, <3>2 DEF Documents
    <3>5. x.delta \in Int
      BY <2>8, <3>2
    <3>6. Asks(p)'
      BY <2>4, <2>5, <2>8, <2>9, <3>3, <3>4, <3>5 DEF Asks, Fresh, Documents
    <3>7. Sound(p)'
      BY <2>5, <3>3, <3>6, FreshSound
    <3> QED BY <1>1, <2>2, <2>4, <2>6, <3>7, QuietAR
  <2>10. CASE t.op = "void"
    <3>1. Voids(t) /\ Fresh(t) /\ x.pc = "commit"
      BY <1>1, <2>3, <2>4, <2>8, <2>10 DEF Asks
    <3>2. x.delta = -t.amount
      BY <2>4, <2>10 DEF Posted
    <3>3. Fresh(x)
      BY <2>4, <2>7, <3>1 DEF Fresh
    <3>4. Voids(x)'
      BY <2>4, <2>6, <3>1 DEF Voids
    <3>5. x.delta \in Int
      BY <2>8, <3>2
    <3>6. Asks(p)'
      BY <2>4, <2>5, <2>8, <2>10, <3>3, <3>4, <3>5 DEF Asks, Fresh
    <3>7. Sound(p)'
      BY <2>5, <3>3, <3>6, FreshSound
    <3> QED BY <1>1, <2>2, <2>4, <2>6, <2>10, <3>7, QuietAR
  <2>11. CASE t.op = "settle"
    <3>1. Settles(p, t) /\ x.pc = "commit" /\ t.pc = "apply" /\ t.pend = {} /\ DOMAIN t.copies = DOMAIN t.rows
      BY <1>1, <2>2, <2>3, <2>4, <2>11 DEF Asks, Settles
    <3>2. x.delta = -Relieved(SumFunctionOnSet(t.applied, DOMAIN t.applied), t.left)
      BY <2>4, <2>11 DEF Posted
    <3>3. x.delta \in Int
      <4>1. SumFunctionOnSet(t.applied, DOMAIN t.applied) \in Int
        BY <1>1, <2>11, AppliedSum
      <4> QED BY <2>8, <3>2, <4>1 DEF Relieved
    <3>4. Settles(p, x)'
      BY <2>2, <2>4, <2>6, <2>7, <3>1, <3>2 DEF Settles
    <3>5. Asks(p)'
      BY <2>4, <2>5, <2>8, <2>11, <3>3, <3>4 DEF Asks
    <3>6. \A j : (Clean(x, j)' <=> Clean(t, j)) /\ Adds(x, j) = Adds(t, j)
      BY <2>4, <2>6 DEF Clean, Adds
    <3>7. ASSUME NEW j \in DOMAIN x.rows PROVE WriteOK(p, x, j)'
      <4>1. j \in DOMAIN t.rows /\ WriteOK(p, t, j) /\ CopyOK(t, j)
        BY <2>3, <2>4, <3>1, <3>7
      <4>2. Clean(t, j) => t.rows[j].paid = docs[j].paid + Adds(t, j)
        BY <3>1, <4>1 DEF CopyOK
      <4> QED BY <2>2, <2>4, <2>6, <3>6, <4>1, <4>2 DEF WriteOK
    <3>8. Sound(p)'
      BY <2>5, <2>7, <3>5, <3>7 DEF Sound
    <3> QED BY <1>1, <2>2, <2>4, <2>6, <2>11, <3>8, QuietAR
  <2> QED BY <2>8, <2>9, <2>10, <2>11
<1> QED BY <1>2, <1>3

\* What a commit writes.
Committed(p, t) ==
  /\ t = tx[p] /\ t.pc = "commit" /\ t.op \in {"doc", "void", "settle"} /\ t.of \in Kind
  /\ t.amount \in Nat /\ t.delta \in Int /\ t.left \in Int
  /\ t.op # "settle" => DOMAIN t.rows = {} /\ DOMAIN t.applied = {} /\ t.stale = {} /\ t.left = 0
  /\ t.op = "doc" => Documents(t)
  /\ t.op = "void" => t.doc \in OfKind(t.of) /\ t.no = None
  /\ t.op = "settle" => Settles(p, t)
  /\ \A i \in DOMAIN t.rows : WriteOK(p, t, i)
  /\ \A i \in DOMAIN t.applied : i \in DOMAIN t.rows /\ t.applied[i] \in Nat
  /\ docs' = IF t.op = "doc" THEN Append(docs, NewRow(t)) ELSE [i \in Known |-> RowOf(p, i)]
  /\ \A i \in Ids : allocated'[i] = allocated[i] + Adds(t, i)
  /\ allocated' = [i \in Ids |-> allocated'[i]]
  /\ control' = [control EXCEPT ![t.of] = control[t.of] + t.delta]
  /\ unapplied' = [unapplied EXCEPT ![t.of] = unapplied[t.of] + t.left]
  /\ seq' = IF t.no = None THEN seq ELSE [seq EXCEPT ![PrefixOf(t)][t.date] = t.no]
  /\ voided' = IF t.op = "void" THEN voided \cup {t.doc} ELSE voided
  /\ stale' = stale \cup t.stale
  /\ over' = IF t.left < 0 THEN over \cup {t.of} ELSE over
  /\ tx' = [tx EXCEPT ![p] = IdleTx] /\ ReleaseAll(p)

\* db.commit(), of a session that knows what it says it knows.
LEMMA CommitWrites == ASSUME ARInv, NEW p \in Proc, Commit(p) PROVE Committed(p, tx[p])
<1>1. PICK t : t = tx[p]
  OBVIOUS
<1>2. t.pc = "commit" /\ Asks(p) /\ \A i \in DOMAIN t.rows : WriteOK(p, t, i)
  BY <1>1 DEF ARInv, Sound, Commit, At
<1>3. /\ t.op \in {"doc", "void", "settle"} /\ t.of \in Kind
      /\ t.amount \in Nat /\ t.delta \in Int /\ t.left \in Int
      /\ t.op # "settle" => Fresh(t) /\ t.left = 0
      /\ t.op = "doc" => Documents(t)
      /\ t.op = "void" => Voids(t)
      /\ t.op = "settle" => Settles(p, t)
  BY <1>1, <1>2 DEF Asks
<1>4. \A i \in DOMAIN t.applied : i \in DOMAIN t.rows /\ t.applied[i] \in Nat
  BY <1>2, <1>3 DEF Settles, Fresh
<1>5. /\ docs' = IF t.op = "doc" THEN Append(docs, NewRow(t)) ELSE [i \in Known |-> RowOf(p, i)]
      /\ allocated' = [i \in Ids |-> allocated[i] + IF i \in DOMAIN t.applied THEN t.applied[i] ELSE 0]
      /\ control' = [control EXCEPT ![t.of] = control[t.of] + t.delta]
      /\ unapplied' = [unapplied EXCEPT ![t.of] = unapplied[t.of] + t.left]
      /\ seq' = IF t.no = None THEN seq ELSE [seq EXCEPT ![PrefixOf(t)][t.date] = t.no]
      /\ voided' = IF t.op = "void" THEN voided \cup {t.doc} ELSE voided
      /\ stale' = stale \cup t.stale
      /\ over' = IF t.left < 0 THEN over \cup {t.of} ELSE over
      /\ tx' = [tx EXCEPT ![p] = IdleTx] /\ ReleaseAll(p)
  BY <1>1 DEF Commit
<1>6. /\ \A i \in Ids : allocated'[i] = allocated[i] + Adds(t, i)
      /\ allocated' = [i \in Ids |-> allocated'[i]]
  BY <1>5 DEF Adds
<1> QED BY <1>1, <1>2, <1>3, <1>4, <1>5, <1>6 DEF Committed, Fresh, Voids

\* The row of a new document.
LEMMA NewRowRight ==
  ASSUME NEW t, Documents(t), t.pc = "commit", t.of \in Kind, t.amount \in Nat
  PROVE  /\ RowOK(NewRow(t)) /\ Right(NewRow(t)) /\ NewRow(t).of = t.of
         /\ NewRow(t).paid = PaidAtOnce(NewRow(t)) /\ NewRow(t).total - PaidAtOnce(NewRow(t)) = t.delta
         /\ PaidAtOnce(NewRow(t)) \in Nat /\ NewRow(t).total \in Nat
<1>1. PICK r : r = [of |-> t.of, how |-> t.how, date |-> t.date, no |-> t.no, total |-> t.amount,
                    paid |-> 0, status |-> IF t.how = "paid" THEN "PAID" ELSE "OPEN", last |-> None]
  OBVIOUS
<1>2. PICK s, n : s = NewRow(t) /\ n = PaidAtOnce(r)
  OBVIOUS
<1>3. /\ t.date \in Date /\ t.amount \in Nat /\ t.amount # 0 /\ t.how \in {"account", "sale", "paid"}
      /\ (t.how = "sale" => t.of = "AR") /\ t.no \in Nat
      /\ t.delta = IF t.how = "paid" THEN 0 ELSE t.amount
  BY DEF Documents
<1>4. /\ r \in DocRow /\ r.of = t.of /\ r.how = t.how /\ r.total = t.amount
      /\ r.status = IF t.how = "paid" THEN "PAID" ELSE "OPEN"
  BY <1>1, <1>3 DEF DocRow
<1>5. n = (IF t.how = "paid" THEN t.amount ELSE 0) /\ n \in Nat
  BY <1>2, <1>3, <1>4 DEF PaidAtOnce
<1>6. s = [r EXCEPT !.paid = n]
  BY <1>1, <1>2 DEF NewRow
<1>7. s \in DocRow /\ s.of = t.of /\ s.how = t.how /\ s.total = t.amount /\ s.status = r.status /\ s.paid = n
  BY <1>4, <1>5, <1>6 DEF DocRow
<1>8. PaidAtOnce(s) = n
  BY <1>5, <1>7 DEF PaidAtOnce
<1>9. RowOK(s) /\ Right(s) /\ s.total - n = t.delta
  BY <1>3, <1>4, <1>5, <1>7 DEF RowOK, Right
<1> QED BY <1>2, <1>3, <1>5, <1>7, <1>8, <1>9

\* The documents after the commit.
Grown(p, t) ==
  /\ Len(docs') = Len(docs) + (IF t.op = "doc" THEN 1 ELSE 0) /\ docs' \in Seq(DocRow)
  /\ Known' = IF t.op = "doc" THEN Known \cup {Len(docs) + 1} ELSE Known
  /\ \A i \in Known : /\ RowOK(docs'[i]) /\ Same(docs'[i], docs[i])
                      /\ i \in DOMAIN t.rows => docs'[i] = t.rows[i]
                      /\ i \notin DOMAIN t.rows => docs'[i] = docs[i]
  /\ t.op = "doc" => docs'[Len(docs) + 1] = NewRow(t) /\ Len(docs) + 1 \in Ids \ Known

\* Rows written are written over, and a document is put after the others.
LEMMA CommitGrows == ASSUME ARInv, NEW p \in Proc, NEW t, Committed(p, t) PROVE Grown(p, t)
<1>1. PICK n : n = Len(docs)
  OBVIOUS
<1>2. docs \in Seq(DocRow) /\ n \in Nat /\ Known = 1..n /\ DOMAIN docs = 1..n /\ MaxDocs \in Nat
  BY <1>1, Places DEF ARInv, TablesTyped, Known
<1>3. CASE t.op = "doc"
  <2>1. PICK r : r = NewRow(t)
    OBVIOUS
  <2>2. RowOK(r) /\ r \in DocRow
    BY <1>3, <2>1, NewRowRight DEF Committed, RowOK
  <2>3. docs' = Append(docs, r) /\ DOMAIN t.rows = {}
    BY <1>3, <2>1 DEF Committed
  <2>4. /\ docs' \in Seq(DocRow) /\ Len(docs') = n + 1 /\ DOMAIN docs' = 1..(n + 1)
        /\ docs'[n + 1] = r /\ \A i \in 1..n : docs'[i] = docs[i]
    BY <1>1, <1>2, <2>2, <2>3
  <2>5. Known' = Known \cup {n + 1} /\ n + 1 \notin Known
    BY <1>2, <2>4 DEF Known
  <2>6. n + 1 \in Ids
    <3>1. PICK m : m = InFlight("doc")
      OBVIOUS
    <3>2. n + m <= MaxDocs /\ m \in Nat
      BY <1>1, <3>1, Places DEF ARInv, DocRoom
    <3>3. m # 0
      <4>1. p \in {q \in Proc : tx[q].op = "doc"} /\ IsFiniteSet({q \in Proc : tx[q].op = "doc"})
        BY <1>3, FS_Subset, ProcAssumption DEF Committed
      <4>2. Cardinality({q \in Proc : tx[q].op = "doc"}) # 0
        BY <4>1, FS_EmptySet
      <4> QED BY <3>1, <4>2 DEF InFlight
    <3> QED BY <1>2, <3>2, <3>3 DEF Ids
  <2>7. \A i \in Known : RowOK(docs'[i]) /\ Same(docs'[i], docs[i]) /\ docs'[i] = docs[i]
    BY <1>2, <2>4, DocRight
  <2> QED BY <1>1, <1>3, <2>1, <2>3, <2>4, <2>5, <2>6, <2>7 DEF Grown
<1>4. CASE t.op # "doc"
  <2>1. docs' = [i \in Known |-> RowOf(p, i)] /\ t = tx[p]
    BY <1>4 DEF Committed
  <2>2. \A i \in Known : /\ i \in DOMAIN t.rows => docs'[i] = t.rows[i]
                         /\ i \notin DOMAIN t.rows => docs'[i] = docs[i]
    BY <2>1 DEF RowOf
  <2>3. ASSUME NEW i \in Known PROVE RowOK(docs'[i]) /\ Same(docs'[i], docs[i])
    <3>1. i \in DOMAIN t.rows => RowOK(t.rows[i]) /\ Same(t.rows[i], docs[i])
      BY DEF Committed, WriteOK
    <3> QED BY <2>2, <3>1, DocRight
  <2>4. /\ docs' \in Seq(DocRow) /\ Len(docs') = n /\ DOMAIN docs' = 1..n
    <3>1. \A i \in 1..n : docs'[i] \in DocRow
      BY <1>2, <2>3 DEF RowOK
    <3> QED BY <1>2, <2>1, <3>1
  <2>5. Known' = Known
    BY <1>2, <2>4 DEF Known
  <2> QED BY <1>1, <1>2, <1>4, <2>2, <2>3, <2>4, <2>5 DEF Grown
<1> QED BY <1>3, <1>4

\* A commit changes no document another handler has written, and of those it has read only
\* ones that handler settles for another date.
LEMMA CommitSpares ==
  ASSUME ARInv, NEW p \in Proc, NEW t, Committed(p, t), Grown(p, t), LocksKept(p),
         NEW q \in Proc, q # p, tx'[q] = tx[q]
  PROVE  Spared(q)
<1>1. PICK x : x = tx[q]
  OBVIOUS
<1>2. /\ \A i \in DOMAIN x.rows : i \in OfKind(x.of) /\ i \in Ids /\ docLock[i] = q /\ docLock'[i] = q
      /\ x.op = "settle" /\ x.pc \in {"fifo", "apply", "commit"} =>
           /\ x.date \in Date /\ PayPrefix(x.of) \in Prefix
           /\ numLock[PayPrefix(x.of)][x.date] = q /\ numLock'[PayPrefix(x.of)][x.date] = q
  BY <1>1, OthersHold
<1>3. Asks(q) /\ \A i \in DOMAIN x.copies : CopyOK(x, i)
  BY <1>1 DEF ARInv, Sound
<1>4. ASSUME NEW i \in DOMAIN x.rows PROVE docs'[i] = docs[i]
  <2>1. docLock[i] = q /\ i \in Known
    BY <1>2, <1>4 DEF OfKind
  <2>2. i \notin DOMAIN t.rows
    BY <2>1 DEF Committed, WriteOK
  <2> QED BY <2>1, <2>2 DEF Grown
<1>5. ASSUME NEW i \in DOMAIN x.copies \ DOMAIN x.rows
      PROVE  docs'[i] = docs[i] \/ docs'[i].last \in Date \ {x.date}
  <2>1. i \in OfKind(x.of) /\ i \in Known
    BY <1>3, <1>5 DEF CopyOK, OfKind
  <2>2. CASE i \notin DOMAIN t.rows
    BY <2>1, <2>2 DEF Grown
  <2>3. CASE i \in DOMAIN t.rows
    <3>1. docs'[i].last = t.date /\ i \in OfKind(t.of)
      <4>1. WriteOK(p, t, i) /\ docs'[i] = t.rows[i]
        BY <2>1, <2>3 DEF Committed, Grown
      <4> QED BY <4>1 DEF WriteOK
    <3>2. x.of = t.of
      BY <2>1, <3>1 DEF OfKind
    <3>3. t.date \in Date /\ numLock[PayPrefix(t.of)][t.date] = p
      <4>1. t.op = "settle" /\ t.pc = "commit" /\ Settles(p, t)
        BY <2>3 DEF Committed
      <4> QED BY <4>1 DEF Settles
    <3>4. x.op = "settle" /\ x.pc = "apply" /\ x.date \in Date
      BY <1>1, <1>3, <1>5 DEF Asks, Fresh, Settles
    <3>5. numLock[PayPrefix(x.of)][x.date] = q
      BY <1>2, <3>4
    <3> QED BY <3>1, <3>2, <3>3, <3>5
  <2> QED BY <2>2, <2>3
<1>6. \A i \in Known : i \in Known' /\ Same(docs'[i], docs[i])
  BY DEF Grown
<1>7. StaleDocs \subseteq StaleDocs'
  BY DEF Committed, StaleDocs
<1> QED BY <1>1, <1>2, <1>4, <1>5, <1>6, <1>7 DEF Spared

\* What the tables hold.
LEMMA CommitTables ==
  ASSUME ARInv, NEW p \in Proc, NEW t, Committed(p, t), Grown(p, t)
  PROVE  TablesTyped' /\ Unborn'
<1>1. TablesTyped /\ Unborn
  BY DEF ARInv
<1>2. \A i : Adds(t, i) \in Nat
  BY DEF Committed, Adds
<1>3. allocated' \in [Ids -> Nat]
  <2>1. \A i \in Ids : allocated'[i] \in Nat
    BY <1>1, <1>2 DEF TablesTyped, Committed
  <2> QED BY <2>1 DEF Committed
<1>4. unapplied' \in [Kind -> Int] /\ control' \in [Kind -> Int]
  BY <1>1 DEF TablesTyped, Committed
<1>5. seq' \in [Prefix -> [Date -> Nat \cup {None}]]
  <2>1. CASE t.no = None
    BY <1>1, <2>1 DEF TablesTyped, Committed
  <2>2. CASE t.no # None
    <3>1. t.no \in Nat /\ t.date \in Date /\ seq' = [seq EXCEPT ![PrefixOf(t)][t.date] = t.no]
      BY <2>2 DEF Committed, Documents, Settles
    <3> QED BY <1>1, <3>1 DEF TablesTyped
  <2> QED BY <2>1, <2>2
<1>6. voided' \subseteq Known' /\ over' \subseteq Kind
  <2>1. Known \subseteq Known'
    BY DEF Grown
  <2>2. t.op = "void" => t.doc \in Known
    BY DEF Committed, OfKind
  <2>3. voided \subseteq Known /\ over \subseteq Kind /\ t.of \in Kind
    BY <1>1 DEF TablesTyped, Committed
  <2>4. voided' \in {voided, voided \cup {t.doc}} /\ (voided' # voided => t.op = "void")
    BY DEF Committed
  <2>5. over' \in {over, over \cup {t.of}}
    BY DEF Committed
  <2> QED BY <2>1, <2>2, <2>3, <2>4, <2>5
<1>7. ASSUME NEW i \in Known' PROVE RowOK(docs'[i])
  <2>1. CASE i \in Known
    BY <2>1 DEF Grown
  <2>2. CASE i \notin Known
    <3>1. t.op = "doc" /\ docs'[i] = NewRow(t)
      BY <1>7, <2>2 DEF Grown
    <3>2. Documents(t) /\ t.pc = "commit" /\ t.of \in Kind /\ t.amount \in Nat
      BY <3>1 DEF Committed
    <3>3. RowOK(NewRow(t))
      BY <3>2, NewRowRight
    <3> QED BY <3>1, <3>3
  <2> QED BY <2>1, <2>2
<1>8. TablesTyped'
  BY <1>3, <1>4, <1>5, <1>6, <1>7 DEF TablesTyped, Grown
<1>9. ASSUME NEW i \in Ids \ Known' PROVE allocated'[i] = 0
  <2>1. i \notin Known
    BY <1>9 DEF Grown
  <2>2. i \notin DOMAIN t.applied
    BY <2>1 DEF Committed, WriteOK, OfKind
  <2>3. Adds(t, i) = 0 /\ allocated[i] = 0
    BY <1>1, <1>9, <2>1, <2>2 DEF Adds, Unborn
  <2> QED BY <1>9, <2>3 DEF Committed
<1> QED BY <1>8, <1>9 DEF Unborn

\* A document that was made takes the place kept for it.
LEMMA CommitRoom ==
  ASSUME ARInv, NEW p \in Proc, NEW t, Committed(p, t), Grown(p, t), tx'[p] = IdleTx,
         \A q \in Proc : q # p => tx'[q] = tx[q]
  PROVE  DocRoom'
<1>1. PICK n, m, a, b : n = Len(docs) /\ m = Len(docs') /\ a = InFlight("doc") /\ b = InFlight("doc")'
  OBVIOUS
<1>2. n \in Nat /\ a \in Nat /\ n + a <= MaxDocs /\ MaxDocs \in Nat
  BY <1>1, Places DEF ARInv, DocRoom
<1>3. IdleTx.op # "doc" /\ t = tx[p]
  BY DEF IdleTx, Committed
<1>4. b \in Nat /\ b <= a /\ (t.op = "doc" => b = a - 1)
  BY <1>1, <1>3, InFlightMoves
<1>5. m = n + (IF t.op = "doc" THEN 1 ELSE 0)
  BY <1>1 DEF Grown
<1>6. m + b <= MaxDocs
  BY <1>2, <1>4, <1>5
<1> QED BY <1>1, <1>6 DEF DocRoom

\* What documents show as paid.
LEMMA CommitPaid ==
  ASSUME ARInv, NEW p \in Proc, NEW t, Committed(p, t), Grown(p, t)
  PROVE  SettlementsKept'
<1>1. StaleOnlyAcrossDates'
  <2>1. \A s \in t.stale : s.dates[1] # s.dates[2]
    BY DEF Committed, Settles
  <2> QED BY <2>1 DEF ARInv, SettlementsKept, StaleOnlyAcrossDates, Committed
<1>2. ASSUME NEW i \in Known', i \notin StaleDocs'
      PROVE  /\ docs'[i].paid = PaidAtOnce(docs'[i]) + allocated'[i] /\ docs'[i].paid <= docs'[i].total
             /\ Right(docs'[i])
  <2>1. Clean(t, i)
    BY <1>2 DEF Committed, StaleDocs, Clean
  <2>2. CASE i \in Known
    <3>1. PICK r, s, a : r = docs[i] /\ s = docs'[i] /\ a = Adds(t, i)
      OBVIOUS
    <3>2. i \notin StaleDocs
      BY <2>1 DEF Clean
    <3>3. r.paid = PaidAtOnce(r) + allocated[i] /\ Right(r) /\ RowOK(r)
      BY <2>2, <3>1, <3>2, DocRight DEF ARInv, SettlementsKept, PaidIsAllocated
    <3>4. s.paid = r.paid + a /\ Right(s)
      <4>1. CASE i \in DOMAIN t.rows
        <5>1. WriteOK(p, t, i) /\ s = t.rows[i] /\ t.pc = "commit"
          BY <2>2, <3>1, <4>1 DEF Committed, Grown
        <5> QED BY <2>1, <3>1, <5>1 DEF WriteOK
      <4>2. CASE i \notin DOMAIN t.rows
        <5>1. s = r /\ a = 0
          BY <2>2, <3>1, <4>2 DEF Committed, Grown, Adds
        <5>2. r.paid \in Nat
          BY <3>3 DEF RowOK, DocRow
        <5> QED BY <3>3, <5>1, <5>2
      <4> QED BY <4>1, <4>2
    <3>5. Same(s, r) /\ RowOK(s)
      BY <2>2, <3>1 DEF Grown
    <3>6. PaidAtOnce(s) = PaidAtOnce(r) /\ s.paid <= s.total /\ PaidAtOnce(r) \in Nat
      BY <3>3, <3>5 DEF Same, PaidAtOnce, RowOK, DocRow
    <3>7. allocated'[i] = allocated[i] + a /\ allocated[i] \in Nat /\ a \in Nat
      <4>1. i \in Ids
        BY <2>2, Places DEF ARInv
      <4> QED BY <3>1, <4>1 DEF Committed, ARInv, TablesTyped, Adds
    <3> QED BY <3>1, <3>3, <3>4, <3>6, <3>7
  <2>3. CASE i \notin Known
    <3>1. t.op = "doc" /\ docs'[i] = NewRow(t) /\ i \in Ids \ Known
      BY <1>2, <2>3 DEF Grown
    <3>2. /\ RowOK(NewRow(t)) /\ Right(NewRow(t)) /\ NewRow(t).paid = PaidAtOnce(NewRow(t))
          /\ PaidAtOnce(NewRow(t)) \in Nat
      BY <3>1, NewRowRight DEF Committed
    <3>3. allocated'[i] = 0
      <4>1. allocated[i] = 0 /\ Adds(t, i) = 0
        BY <3>1 DEF ARInv, Unborn, Committed, Adds
      <4> QED BY <3>1, <4>1 DEF Committed
    <3> QED BY <3>1, <3>2, <3>3 DEF RowOK
  <2> QED BY <2>2, <2>3
<1>3. PaidIsAllocated'
  BY <1>2 DEF PaidIsAllocated, Right
<1> QED BY <1>1, <1>3 DEF SettlementsKept

\* What a document is worth is a number.
LEMMA WorthType ==
  ASSUME TablesTyped, DocRoom, NEW k, NEW i \in Ids
  PROVE  Worth(k)[i] \in Int
<1>1. CASE i \in OfKind(k)
  <2>1. RowOK(docs[i]) /\ allocated[i] \in Nat
    BY <1>1 DEF TablesTyped, OfKind
  <2>2. docs[i].total \in Nat /\ PaidAtOnce(docs[i]) \in Nat
    BY <2>1 DEF RowOK, DocRow, PaidAtOnce
  <2>3. PICK n, m, a : n = docs[i].total /\ m = PaidAtOnce(docs[i]) /\ a = allocated[i]
    OBVIOUS
  <2>4. n - m - a \in Int
    BY <2>1, <2>2, <2>3
  <2> QED BY <1>1, <2>3, <2>4 DEF Worth
<1>2. CASE i \notin OfKind(k)
  BY <1>2 DEF Worth
<1> QED BY <1>1, <1>2

\* What a commit does to what each document is worth.
LEMMA WorthMoves ==
  ASSUME ARInv, NEW p \in Proc, NEW t, Committed(p, t), Grown(p, t), NEW k \in Kind, NEW i \in Ids
  PROVE  /\ i \in Known \/ t.op # "doc" \/ i # Len(docs) + 1 =>
              Worth(k)'[i] = Worth(k)[i] - (IF k = t.of THEN Adds(t, i) ELSE 0)
         /\ t.op = "doc" /\ i = Len(docs) + 1 =>
              Worth(k)[i] = 0 /\ Worth(k)'[i] = IF k = t.of THEN t.delta ELSE 0
<1>1. TablesTyped /\ allocated[i] \in Nat /\ Adds(t, i) \in Nat /\ allocated'[i] = allocated[i] + Adds(t, i)
  BY DEF ARInv, TablesTyped, Committed, Adds
<1>2. ASSUME i \in Known PROVE Worth(k)'[i] = Worth(k)[i] - (IF k = t.of THEN Adds(t, i) ELSE 0)
  <2>1. PICK r, s : r = docs[i] /\ s = docs'[i]
    OBVIOUS
  <2>2. RowOK(r) /\ Same(s, r) /\ i \in Known'
    BY <1>2, <2>1, DocRight DEF Grown
  <2>3. PICK n, m : n = r.total /\ m = PaidAtOnce(r)
    OBVIOUS
  <2>4. n \in Nat /\ m \in Nat /\ s.total = n /\ PaidAtOnce(s) = m /\ s.of = r.of
    BY <2>2, <2>3 DEF RowOK, DocRow, Same, PaidAtOnce
  <2>5. Adds(t, i) # 0 => r.of = t.of
    <3>1. Adds(t, i) # 0 => i \in DOMAIN t.rows
      BY DEF Committed, Adds
    <3> QED BY <2>1, <3>1 DEF Committed, WriteOK, OfKind
  <2>6. CASE r.of = k
    <3>1. Worth(k)[i] = n - m - allocated[i] /\ Worth(k)'[i] = n - m - allocated'[i]
      BY <1>2, <2>1, <2>2, <2>3, <2>4, <2>6 DEF Worth, OfKind
    <3>2. k # t.of => Adds(t, i) = 0
      BY <2>5, <2>6
    <3> QED BY <1>1, <2>4, <3>1, <3>2
  <2>7. CASE r.of # k
    <3>1. Worth(k)[i] = 0 /\ Worth(k)'[i] = 0
      BY <1>2, <2>1, <2>4, <2>7 DEF Worth, OfKind
    <3>2. k = t.of => Adds(t, i) = 0
      BY <2>5, <2>7
    <3> QED BY <3>1, <3>2
  <2> QED BY <2>6, <2>7
<1>3. ASSUME i \notin Known PROVE Worth(k)[i] = 0 /\ Adds(t, i) = 0
  <2>1. Adds(t, i) = 0
    BY <1>3 DEF Committed, WriteOK, OfKind, Adds
  <2> QED BY <1>3, <2>1 DEF Worth, OfKind
<1>4. ASSUME i \notin Known, t.op # "doc" \/ i # Len(docs) + 1 PROVE Worth(k)'[i] = 0
  <2>1. i \notin Known'
    BY <1>4 DEF Grown
  <2> QED BY <2>1 DEF Worth, OfKind
<1>5. ASSUME t.op = "doc", i = Len(docs) + 1
      PROVE  i \notin Known /\ Worth(k)'[i] = IF k = t.of THEN t.delta ELSE 0
  <2>1. PICK r : r = NewRow(t)
    OBVIOUS
  <2>2. docs'[i] = r /\ i \notin Known /\ i \in Known'
    BY <1>5, <2>1 DEF Grown
  <2>3. r.of = t.of /\ r.total - PaidAtOnce(r) = t.delta /\ t.delta \in Int
    BY <1>5, <2>1, NewRowRight DEF Committed
  <2>4. allocated'[i] = 0
    BY <1>1, <1>3, <2>2 DEF ARInv, Unborn
  <2>5. CASE k = t.of
    <3>1. Worth(k)'[i] = r.total - PaidAtOnce(r) - 0
      BY <2>2, <2>3, <2>4, <2>5 DEF Worth, OfKind
    <3> QED BY <2>2, <2>3, <2>5, <3>1
  <2>6. CASE k # t.of
    BY <2>2, <2>3, <2>6 DEF Worth, OfKind
  <2> QED BY <2>2, <2>5, <2>6
<1> QED BY <1>2, <1>3, <1>4, <1>5

\* The control accounts.
LEMMA CommitLedger ==
  ASSUME ARInv, NEW p \in Proc, NEW t, Committed(p, t), Grown(p, t), TablesTyped', DocRoom'
  PROVE  Ledger'
<1>1. TablesTyped /\ DocRoom /\ Ledger /\ IsFiniteSet(Ids)
  BY Places DEF ARInv
<1>2. SUFFICES ASSUME NEW k \in Kind, k \notin over', \A i \in voided' : docs'[i].of # k
               PROVE  control'[k] = SumFunctionOnSet(Worth(k)', Ids) - unapplied'[k]
  BY DEF Ledger
<1>3. \A i \in voided : i \in Known /\ docs'[i].of = docs[i].of /\ i \in voided'
  BY <1>1 DEF TablesTyped, Grown, Same, Committed
<1>4. k \notin over /\ \A i \in voided : docs[i].of # k
  BY <1>2, <1>3 DEF Committed
<1>5. PICK f, g, c, u : f = Worth(k) /\ g = Worth(k)' /\ c = control[k] /\ u = unapplied[k]
  OBVIOUS
<1>6. c = SumFunctionOnSet(f, Ids) - u
  BY <1>1, <1>4, <1>5 DEF Ledger
<1>7. (\A i \in Ids : f[i] \in Int /\ g[i] \in Int) /\ c \in Int /\ u \in Int
  <2>1. \A i \in Ids : Worth(k)[i] \in Int
    BY <1>1, WorthType
  <2>2. \A i \in Ids : Worth(k)'[i] \in Int
    <3> SUFFICES ASSUME NEW i \in Ids PROVE Worth(k)'[i] \in Int
      OBVIOUS
    <3>1. CASE i \in OfKind(k)'
      <4>1. RowOK(docs'[i]) /\ allocated'[i] \in Nat
        BY <3>1 DEF TablesTyped, OfKind
      <4>2. PICK n, m, a : n = docs'[i].total /\ m = PaidAtOnce(docs'[i]) /\ a = allocated'[i]
        OBVIOUS
      <4>3. n \in Nat /\ m \in Nat /\ a \in Nat
        BY <4>1, <4>2 DEF RowOK, DocRow, PaidAtOnce
      <4>4. n - m - a \in Int
        BY <4>3
      <4> QED BY <3>1, <4>2, <4>4 DEF Worth
    <3>2. CASE i \notin OfKind(k)'
      BY <3>2 DEF Worth
    <3> QED BY <3>1, <3>2
  <2> QED BY <1>1, <1>5, <2>1, <2>2 DEF TablesTyped
<1>8. PICK S : S = SumFunctionOnSet(f, Ids)
  OBVIOUS
<1>9. S \in Int
  BY <1>1, <1>7, <1>8, SumType
<1>10. CASE k # t.of
  <2>1. control'[k] = c /\ unapplied'[k] = u
    BY <1>1, <1>5, <1>10 DEF Committed, TablesTyped
  <2>2. \A i \in Ids : g[i] = f[i]
    BY <1>5, <1>7, <1>10, WorthMoves
  <2>3. SumFunctionOnSet(g, Ids) = S
    BY <1>1, <1>8, <2>2, SumSame
  <2> QED BY <1>5, <1>6, <1>8, <2>1, <2>3
<1>11. CASE k = t.of
  <2>1. control'[k] = c + t.delta /\ unapplied'[k] = u + t.left /\ t.delta \in Int /\ t.left \in Int
    BY <1>1, <1>5, <1>11 DEF Committed, TablesTyped
  <2>2. CASE t.op = "doc"
    <3>1. PICK j \in Ids : j = Len(docs) + 1 /\ j \notin Known
      BY <2>2 DEF Grown
    <3>2. f[j] = 0 /\ g[j] = t.delta
      BY <1>5, <1>11, <2>2, <3>1, WorthMoves
    <3>3. \A i \in Ids : i # j => g[i] = f[i]
      <4>1. \A i \in Ids : Adds(t, i) = 0
        BY <2>2 DEF Committed, Adds
      <4>2. \A i \in Ids : i # j => g[i] = f[i] - 0
        BY <1>5, <1>11, <3>1, <4>1, WorthMoves
      <4> QED BY <1>7, <4>2
    <3>4. SumFunctionOnSet(g, Ids) = S - f[j] + g[j]
      <4>1. j \in Ids /\ IsFiniteSet(Ids)
        BY <1>1, <3>1
      <4>2. \A i \in Ids : f[i] \in Int /\ g[i] \in Int
        BY <1>7
      <4>3. SumFunctionOnSet(g, Ids) = SumFunctionOnSet(f, Ids) - f[j] + g[j]
        BY <3>3, <4>1, <4>2, SumChange
      <4> QED BY <1>8, <4>3
    <3>5. t.left = 0
      BY <2>2 DEF Committed
    <3> QED BY <1>5, <1>6, <1>7, <1>8, <1>9, <2>1, <3>2, <3>4, <3>5
  <2>3. CASE t.op = "void"
    <3>1. t.doc \in voided' /\ t.doc \in OfKind(t.of)
      BY <2>3 DEF Committed
    <3>2. docs'[t.doc].of = t.of
      BY <3>1 DEF Grown, Same, OfKind
    <3> QED BY <1>2, <1>11, <3>1, <3>2
  <2>4. CASE t.op = "settle"
    <3>1. PICK h, D : h = [i \in Ids |-> Adds(t, i)] /\ D = DOMAIN t.applied
      OBVIOUS
    <3>2. (\A i \in Ids : h[i] \in Nat) /\ D \subseteq Ids /\ IsFiniteSet(D) /\ (\A i \in Ids \ D : h[i] = 0)
          /\ \A i \in D : h[i] = t.applied[i]
      <4>1. D \subseteq Ids /\ IsFiniteSet(D)
        BY <2>4, <3>1, AppliedSum DEF Committed
      <4> QED BY <3>1, <4>1 DEF Committed, Adds
    <3>3. PICK A : A = SumFunctionOnSet(t.applied, D)
      OBVIOUS
    <3>4. A \in Int /\ SumFunctionOnSet(h, Ids) = A
      <4>1. SumFunctionOnSet(h, Ids) = SumFunctionOnSet(h, D)
        BY <1>1, <3>2, SumSupport
      <4>2. SumFunctionOnSet(h, D) = A
        BY <3>2, <3>3, SumSame
      <4>3. SumFunctionOnSet(h, Ids) \in Int
        BY <1>1, <3>2, SumType
      <4> QED BY <4>1, <4>2, <4>3
    <3>5. \A i \in Ids : f[i] = h[i] + g[i]
      <4>1. \A i \in Ids : g[i] = f[i] - h[i]
        BY <1>5, <1>11, <2>4, <3>1, WorthMoves
      <4> QED BY <1>7, <3>2, <4>1
    <3>6. S = A + SumFunctionOnSet(g, Ids)
      <4>1. SumFunctionOnSet(f, Ids) = SumFunctionOnSet(h, Ids) + SumFunctionOnSet(g, Ids)
        BY <1>1, <1>7, <3>2, <3>5, SumPlus
      <4> QED BY <1>8, <3>4, <4>1
    <3>7. SumFunctionOnSet(g, Ids) \in Int
      BY <1>1, <1>7, SumType
    <3>8. ~(t.left < 0)
      BY <1>2, <1>11 DEF Committed
    <3>9. t.delta = -(A + t.left)
      <4>1. t.delta = -Relieved(A, t.left)
        BY <2>4, <3>1, <3>3 DEF Committed, Settles
      <4>2. Relieved(A, t.left) = A + t.left
        BY <2>1, <3>4, <3>8 DEF Relieved
      <4> QED BY <4>1, <4>2
    <3> QED BY <1>5, <1>6, <1>7, <1>8, <1>9, <2>1, <3>4, <3>6, <3>7, <3>9
  <2> QED BY <2>2, <2>3, <2>4 DEF Committed
<1> QED BY <1>10, <1>11

\* A commit writes what the session knows, and lets go of what it held.
LEMMA CommitAR == ASSUME ARInv, NEW p \in Proc, Commit(p) PROVE ARInv'
<1>1. PICK t : t = tx[p]
  OBVIOUS
<1>2. Committed(p, t) /\ Grown(p, t)
  BY <1>1, CommitWrites, CommitGrows
<1>3. Shaped /\ Locks /\ ReleaseAll(p) /\ tx' = [tx EXCEPT ![p] = IdleTx]
  BY <1>2 DEF ARInv, Committed
<1>4. LocksKept(p)
  BY <1>3, ReleaseKept
<1>5. IsSession(IdleTx)
  BY IdleFieldsAR
<1>6. Shaped' /\ tx'[p] = IdleTx /\ \A q \in Proc : q # p => tx'[q] = tx[q]
  BY <1>3, <1>5, Given
<1>7. ASSUME NEW q \in Proc PROVE Sound(q)'
  <2>1. CASE q = p
    BY <1>6, <2>1, IdleSound
  <2>2. CASE q # p
    <3>1. Spared(q)
      BY <1>2, <1>4, <1>6, <2>2, CommitSpares
    <3> QED BY <3>1, OthersSound DEF ARInv
  <2> QED BY <2>1, <2>2
<1>8. TablesTyped' /\ Unborn'
  BY <1>2, CommitTables
<1>9. DocRoom'
  BY <1>2, <1>6, CommitRoom
<1>10. Ledger' /\ SettlementsKept'
  BY <1>2, <1>8, <1>9, CommitLedger, CommitPaid
<1> QED BY <1>4, <1>6, <1>7, <1>8, <1>9, <1>10 DEF ARInv, LocksKept

-----------------------------------------------------------------------------
(* The invariant, from the first state on. *)

\* A shop that has no customer and no vendor yet.
LEMMA InitAR == ASSUME ReceivablesInit PROVE ARInv
<1>1. /\ docs = <<>> /\ allocated = [i \in Ids |-> 0]
      /\ unapplied = [k \in Kind |-> 0] /\ control = [k \in Kind |-> 0]
      /\ seq = [x \in Prefix |-> [d \in Date |-> None]]
      /\ numLock = [x \in Prefix |-> [d \in Date |-> None]]
      /\ docLock = [i \in Ids |-> None] /\ books = None
      /\ voided = {} /\ stale = {} /\ over = {} /\ tx = [p \in Proc |-> IdleTx]
  BY DEF ReceivablesInit
<1>2. docs \in Seq(DocRow) /\ Len(docs) = 0 /\ Known = {}
  BY <1>1 DEF Known
<1>3. TablesTyped /\ Locks /\ Unborn
  BY <1>1, <1>2 DEF TablesTyped, Locks, Unborn
<1>4. DocRoom
  <2>1. {p \in Proc : tx[p].op = "doc"} = {}
    BY <1>1 DEF IdleTx
  <2>2. InFlight("doc") = 0
    BY <2>1, FS_EmptySet DEF InFlight
  <2> QED BY <1>2, <2>2, BoundAssumption DEF DocRoom
<1>5. ASSUME NEW p \in Proc PROVE Sound(p) /\ IsSession(tx[p])
  <2>1. PICK x : x = tx[p]
    OBVIOUS
  <2>2. /\ IsSession(x) /\ x.of = "AR" /\ x.no = None /\ x.left = 0 /\ x.delta = 0
        /\ DOMAIN x.rows = {} /\ DOMAIN x.applied = {} /\ DOMAIN x.copies = {}
        /\ DOMAIN x.base = {} /\ x.pend = {} /\ x.stale = {}
        /\ x.op = "none" /\ x.pc = "none" /\ x.amount = 0
    <3>1. x = IdleTx
      BY <1>1, <2>1
    <3>2. IdleTx.op = "none" /\ IdleTx.pc = "none" /\ IdleTx.amount = 0
      BY DEF IdleTx
    <3> QED BY <3>1, <3>2, IdleFieldsAR
  <2>3. Asks(p)
    BY <2>1, <2>2 DEF Asks, Fresh, Kind
  <2> QED BY <2>1, <2>2, <2>3 DEF Sound
<1>6. Shaped
  BY <1>1, <1>5 DEF Shaped
<1>7. Ledger
  <2> SUFFICES ASSUME NEW k \in Kind PROVE control[k] = SumFunctionOnSet(Worth(k), Ids) - unapplied[k]
    BY DEF Ledger
  <2>1. \A i \in Ids : Worth(k)[i] = 0
    BY <1>2 DEF Worth, OfKind
  <2>2. IsFiniteSet(Ids)
    BY <1>3, <1>4, Places
  <2>3. SumFunctionOnSet(Worth(k), Ids) = SumFunctionOnSet(Worth(k), {})
    BY <2>1, <2>2, SumSupport
  <2>4. SumFunctionOnSet(Worth(k), {}) = 0
    BY FS_EmptySet, SumStep
  <2> QED BY <1>1, <2>3, <2>4
<1>8. SettlementsKept
  BY <1>1, <1>2 DEF SettlementsKept, PaidIsAllocated, StaleOnlyAcrossDates
<1> QED BY <1>3, <1>4, <1>5, <1>6, <1>7, <1>8 DEF ARInv

\* A step in which nothing changes.
LEMMA StutterAR == ASSUME ARInv, UNCHANGED receivablesVars PROVE ARInv'
<1>1. /\ UNCHANGED tables /\ tx' = tx
      /\ numLock' = numLock /\ docLock' = docLock /\ books' = books
  BY DEF receivablesVars, locks
<1>2. /\ docs' = docs /\ allocated' = allocated /\ unapplied' = unapplied /\ control' = control
      /\ seq' = seq /\ voided' = voided /\ stale' = stale /\ over' = over
  BY <1>1, TablesKept
<1>3. TablesTyped' /\ Locks' /\ DocRoom' /\ Shaped'
  BY <1>1, <1>2 DEF ARInv, TablesTyped, Locks, DocRoom, InFlight, Shaped, Known
<1>4. Unborn' /\ Ledger' /\ SettlementsKept'
  BY <1>2 DEF ARInv, Unborn, Ledger, Known, OfKind, Worth, SettlementsKept, PaidIsAllocated,
              StaleOnlyAcrossDates, StaleDocs
<1>5. ASSUME NEW q \in Proc PROVE Sound(q)'
  <2>1. Spared(q)
    <3>1. Asks(q) /\ \A i \in DOMAIN tx[q].rows : WriteOK(q, tx[q], i)
      BY DEF ARInv, Sound
    <3>2. \A i \in DOMAIN tx[q].rows : docLock[i] = q
      BY <3>1 DEF WriteOK
    <3>3. tx[q].op = "settle" /\ tx[q].pc \in {"fifo", "apply", "commit"} =>
            numLock[PayPrefix(tx[q].of)][tx[q].date] = q
      BY <3>1 DEF Asks, Settles
    <3> QED BY <1>1, <1>2, <3>2, <3>3 DEF Spared, Known, StaleDocs, Same
  <2> QED BY <2>1, OthersSound DEF ARInv
<1> QED BY <1>3, <1>4, <1>5 DEF ARInv

\* Every step keeps it.
LEMMA NextAR == ASSUME ARInv, [ReceivablesNext]_receivablesVars PROVE ARInv'
<1>1. ASSUME NEW p \in Proc, Request(p) PROVE ARInv'
  BY <1>1, RequestAR
<1>2. ASSUME NEW p \in Proc, Step(p) PROVE ARInv'
  <2>1. CASE CheckLimit(p)
    BY <2>1, LimitAR
  <2>2. CASE TakeNumber(p) \/ InsertNumber(p)
    BY <2>2, NumberAR
  <2>3. CASE ApplyNext(p)
    BY <2>3, ApplyNextAR
  <2>4. CASE ApplyFifo(p)
    BY <2>4, ApplyFifoAR
  <2>5. CASE Flush(p)
    BY <2>5, FlushAR
  <2>6. CASE PostEntry(p)
    BY <2>6, PostAR
  <2>7. CASE Commit(p)
    BY <2>7, CommitAR
  <2> QED BY <1>2, <2>1, <2>2, <2>3, <2>4, <2>5, <2>6, <2>7 DEF Step
<1>3. ASSUME NEW p \in Proc, Abort(p) \/ DeadlockAbort(p) PROVE ARInv'
  BY <1>3, RefuseAR DEF Abort, DeadlockAbort
<1>4. CASE Quiet \/ UNCHANGED receivablesVars
  BY <1>4, StutterAR DEF Quiet
<1> QED BY <1>1, <1>2, <1>3, <1>4 DEF ReceivablesNext

\* The invariant holds in every reachable state.
LEMMA ARHolds == ReceivablesSpec => []ARInv
<1>1. ReceivablesInit => ARInv
  BY InitAR
<1>2. ARInv /\ [ReceivablesNext]_receivablesVars => ARInv'
  BY NextAR
<1> QED BY <1>1, <1>2, PTL DEF ReceivablesSpec

\* A document shows as paid what was allocated to it, is never paid beyond its total and is
\* PAID exactly when nothing is owed, unless a settlement of another date was overwritten
\* (post_receipt, post_vendor_payment, _next_doc_no).
THEOREM SettlementsKeptRight == ReceivablesSpec => []SettlementsKept
<1>1. ARInv => SettlementsKept
  BY DEF ARInv
<1> QED BY <1>1, ARHolds, PTL

\* Every document of a kind whose ledger is undisturbed shows what is owed of it.
LEMMA OwedWorth ==
  ASSUME ARInv, NEW k \in Kind, ~Disturbed(k)
  PROVE  OwedOf(k) = SumFunctionOnSet(Worth(k), Ids)
<1>1. PICK f, g, S : /\ f = [i \in Known |-> Owed(docs[i])] /\ g = Worth(k)
                     /\ S = {i \in OfKind(k) : Open(docs[i])}
  OBVIOUS
<1>2. Known \subseteq Ids /\ IsFiniteSet(Ids) /\ S \subseteq Known /\ S \subseteq Ids
  BY <1>1, Places DEF ARInv, OfKind
<1>3. IsFiniteSet(S)
  BY <1>2, FS_Subset
<1>4. \A i \in Ids : g[i] \in Int
  BY <1>1, WorthType DEF ARInv
<1>5. ASSUME NEW i \in OfKind(k)
      PROVE  g[i] = Owed(docs[i]) /\ (i \notin S => g[i] = 0)
  <2>1. PICK r, n, m, c, a : r = docs[i] /\ n = r.total /\ m = r.paid /\ c = PaidAtOnce(r) /\ a = allocated[i]
    OBVIOUS
  <2>2. i \in Known /\ i \notin StaleDocs /\ i \in Ids
    BY <1>2, <1>5 DEF Disturbed, OfKind
  <2>3. RowOK(r) /\ Right(r) /\ m = c + a
    BY <2>1, <2>2, DocRight DEF ARInv, SettlementsKept, PaidIsAllocated
  <2>4. n \in Nat /\ m \in Nat /\ c \in Nat /\ a \in Nat
    <3>1. a \in Nat
      BY <2>1, <2>2 DEF ARInv, TablesTyped
    <3> QED BY <2>1, <2>3, <3>1 DEF RowOK, DocRow, PaidAtOnce
  <2>5. g[i] = n - c - a /\ Owed(r) = n - m
    BY <1>1, <1>5, <2>1, <2>2 DEF Worth, Owed
  <2>6. i \notin S => n = m
    BY <1>1, <1>5, <2>1, <2>3, <2>4 DEF Open, Right
  <2>7. n - c - a = n - m
    BY <2>3, <2>4
  <2> QED BY <2>1, <2>4, <2>5, <2>6, <2>7
<1>6. \A i \in Ids \ S : g[i] = 0
  BY <1>1, <1>5 DEF Worth
<1>7. SumFunctionOnSet(g, Ids) = SumFunctionOnSet(g, S)
  BY <1>2, <1>4, <1>6, SumSupport
<1>8. \A i \in S : f[i] = g[i]
  BY <1>1, <1>2, <1>5
<1>9. SumFunctionOnSet(f, S) = SumFunctionOnSet(g, S)
  BY <1>3, <1>8, SumSame
<1> QED BY <1>1, <1>7, <1>9 DEF OwedOf

\* The control account of receivables and of payables shows what their documents owe less
\* what is not applied, but for over-allocated settlements, voided credit sales and
\* settlements overwritten across dates (verify_ar_control, verify_vendor_ap).
THEOREM ControlsTie == ReceivablesSpec => []TiesOutUnlessDisturbed
<1>1. ARInv => TiesOutUnlessDisturbed
  <2> SUFFICES ASSUME ARInv, NEW k \in Kind, ~Disturbed(k) PROVE control[k] = OpenBalance(k)
    BY DEF TiesOutUnlessDisturbed
  <2>1. k \notin over /\ \A i \in voided : docs[i].of # k
    BY DEF Disturbed, ARInv, TablesTyped, OfKind
  <2>2. control[k] = SumFunctionOnSet(Worth(k), Ids) - unapplied[k]
    BY <2>1 DEF ARInv, Ledger
  <2> QED BY <2>2, OwedWorth DEF OpenBalance
<1> QED BY <1>1, ARHolds, PTL
=============================================================================
