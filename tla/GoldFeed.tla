------------------------------ MODULE GoldFeed ------------------------------
(***************************************************************************)
(* The gold rate everything is priced at: the job that polls the feed and  *)
(* the alarm it raises when the feed stays away                            *)
(* (jobs/gold_rate_poller.py, core/notify.py), the rate that is served and *)
(* when it counts as closed (core/gold_api.py), the admin's refresh and    *)
(* override (api/gold_price.py).                                           *)
(*                                                                         *)
(* A tick is one refresh interval: the job runs once in each, and ends     *)
(* long before the next.  The failure count and the alerted flag live in   *)
(* the process and are lost with it.  The figures themselves are left out: *)
(* what matters is how old the newest row is and which override is active. *)
(***************************************************************************)
EXTENDS Integers, FiniteSets, FiniteSetsExt

CONSTANTS
  Admin,      \* override requests that may be in flight at once
  Override,   \* rows of gold_rate_overrides
  Threshold,  \* GOLD_ALERT_FAILURE_THRESHOLD
  MaxAge,     \* bound: ages in ticks beyond this one are not told apart
  NONE

\* With a threshold of one the alarm comes a poll before the rate counts as closed.
ASSUME ThresholdAssumption == Threshold \in Nat /\ Threshold >= 2 /\ MaxAge \in Nat /\ MaxAge > Threshold
ASSUME OverrideAssumption == NONE \notin Admin \cup Override

VARIABLES
  feed,       \* the feed answers and the row can be written
  age,        \* ticks since the newest row of gold_rate_history
  running,    \* the application is up
  due,        \* this tick's poll has not begun
  poll,       \* the job: idle, or awaiting the webhook
  failures,   \* _state["consecutive_failures"], up to Threshold
  alerted,    \* _state["alerted"]
  told,       \* the last message that reached the channel
  unheard,    \* history: a message was lost since, or the process that sent it is gone
  apart,      \* history: the count is not of the polls since the newest row
  active,     \* overrides with is_active
  logged,     \* the override last set by the ledger's account, NONE once cleared
  rowLock,    \* holder of each override's row
  head,       \* holder of the ledger's head
  overlapped, \* history: active overrides whose request ran beside another
  request     \* the override request of each process

feedVars == <<feed, age, running, due, poll, failures, alerted, told, unheard, apart>>
overrideVars == <<active, logged, rowLock, head, overlapped, request>>
vars == <<feedVars, overrideVars>>

NoRequest == [op |-> "none", pc |-> "none", seen |-> {}, cleared |-> {}, row |-> NONE, beside |-> FALSE]

Init ==
  /\ feed \in BOOLEAN /\ age = 0
  /\ running = TRUE /\ due = TRUE /\ poll = "idle" /\ failures = 0 /\ alerted = FALSE
  /\ told = "fresh" /\ unheard = FALSE /\ apart = TRUE
  /\ active = {} /\ logged = NONE /\ rowLock = [o \in Override |-> NONE] /\ head = NONE
  /\ overlapped = {} /\ request = [p \in Admin |-> NoRequest]
-----------------------------------------------------------------------------
(* What is served. *)

ClosedAfter == Max({2, Threshold})

\* The override the query may return: it orders by nothing and takes one.
Served == IF active = {} THEN {NONE} ELSE active
\* Of the live rate: an override is served as neither stale nor closed.
MarketClosed == age >= ClosedAfter
-----------------------------------------------------------------------------
(* The job. *)

\* Mutant: the job is run once and not at every interval.
Unscheduled == FALSE
Scheduled == running
Tick ==
  /\ ~due /\ poll = "idle"
  /\ age' = Min({age + 1, MaxAge}) /\ due' = Scheduled
  /\ UNCHANGED <<feed, running, poll, failures, alerted, told, unheard, apart, overrideVars>>

FeedChanges ==
  /\ feed' = ~feed
  /\ UNCHANGED <<age, running, due, poll, failures, alerted, told, unheard, apart, overrideVars>>

\* The row is committed before the alarm is called off.
PollSucceeds ==
  /\ due /\ poll = "idle" /\ feed
  /\ age' = 0 /\ due' = FALSE /\ apart' = FALSE
  /\ IF alerted THEN poll' = "recovering" /\ UNCHANGED failures
     ELSE failures' = 0 /\ UNCHANGED poll
  /\ UNCHANGED <<feed, running, alerted, told, unheard, overrideVars>>

Alarming(count) == count >= Threshold
PollFails ==
  /\ due /\ poll = "idle" /\ ~feed
  /\ due' = FALSE /\ failures' = Min({failures + 1, Threshold})
  /\ poll' = IF ~alerted /\ Alarming(failures') THEN "alarming" ELSE "idle"
  /\ UNCHANGED <<feed, age, running, alerted, told, unheard, apart, overrideVars>>

\* send_discord_alert swallows what goes wrong: a message that is lost counts as sent.
Send(message) ==
  \/ told' = message /\ unheard' = FALSE
  \/ unheard' = TRUE /\ UNCHANGED told

\* Mutant: the flag stays down, and the next failure alarms again.
StaysDown == FALSE
Raised == TRUE
Alarm ==
  /\ poll = "alarming" /\ Send("stale")
  /\ poll' = "idle" /\ alerted' = Raised
  /\ UNCHANGED <<feed, age, running, due, failures, apart, overrideVars>>

CallOff ==
  /\ poll = "recovering" /\ Send("fresh")
  /\ poll' = "idle" /\ alerted' = FALSE /\ failures' = 0
  /\ UNCHANGED <<feed, age, running, due, apart, overrideVars>>

\* The admin's refresh adds a row and leaves the job's count alone.
Refresh ==
  /\ running /\ feed /\ age' = 0 /\ apart' = TRUE
  /\ UNCHANGED <<feed, running, due, poll, failures, alerted, told, unheard, overrideVars>>

Stop ==
  /\ running /\ running' = FALSE /\ due' = FALSE /\ poll' = "idle"
  /\ failures' = 0 /\ alerted' = FALSE
  /\ unheard' = (unheard \/ told = "stale") /\ apart' = TRUE
  /\ rowLock' = [o \in Override |-> NONE] /\ head' = NONE /\ request' = [p \in Admin |-> NoRequest]
  /\ UNCHANGED <<feed, age, told, active, logged, overlapped>>

\* The job is scheduled for now.
Start ==
  /\ ~running /\ running' = TRUE /\ due' = TRUE
  /\ UNCHANGED <<feed, age, poll, failures, alerted, told, unheard, apart, overrideVars>>
-----------------------------------------------------------------------------
(* The override. *)

Requesting == {p \in Admin : request[p].op # "none"}

\* POST and DELETE /gold-price/override: the UPDATE of the active rows sees those
\* committed when it starts.
BeginOverride(p, op) ==
  /\ running /\ p \notin Requesting
  /\ request' = [q \in Admin |->
       IF q = p THEN [NoRequest EXCEPT !.op = op, !.pc = "update", !.seen = active, !.beside = Requesting # {}]
       ELSE [request[q] EXCEPT !.beside = @ \/ q \in Requesting]]
  /\ UNCHANGED <<feedVars, active, logged, rowLock, head, overlapped>>

\* Mutant: the override before is left active.
NothingCleared(rows) == {}
Cleared(rows) == rows
\* It waits for the rows another request is deactivating, and passes over those that
\* have become inactive.
Deactivate(p) ==
  LET rows == Cleared(request[p].seen \cap active)
      new == {o \in Override : o \notin active /\ o # logged /\ \A q \in Admin : request[q].row # o} IN
  /\ request[p].pc = "update" /\ \A o \in rows : rowLock[o] = NONE
  /\ rowLock' = [o \in Override |-> IF o \in rows THEN p ELSE rowLock[o]]
  /\ \E row \in (IF request[p].op = "set" THEN new ELSE {NONE}) :
       request' = [request EXCEPT ![p].pc = "record", ![p].cleared = rows, ![p].row = row, ![p].seen = {}]
  /\ UNCHANGED <<feedVars, active, logged, head, overlapped>>

\* record() holds the ledger's head to the commit.
RecordOverride(p) ==
  /\ request[p].pc = "record" /\ head = NONE /\ head' = p
  /\ request' = [request EXCEPT ![p].pc = "commit"]
  /\ UNCHANGED <<feedVars, active, logged, rowLock, overlapped>>

Release(p) ==
  /\ rowLock' = [o \in Override |-> IF rowLock[o] = p THEN NONE ELSE rowLock[o]]
  /\ head' = IF head = p THEN NONE ELSE head
  /\ request' = [request EXCEPT ![p] = NoRequest]

CommitOverride(p) ==
  LET t == request[p] IN
  /\ t.pc = "commit"
  /\ active' = (active \ t.cleared) \cup ({t.row} \ {NONE})
  /\ logged' = t.row
  /\ overlapped' = (overlapped \cup (IF t.beside THEN {t.row} ELSE {})) \cap active'
  /\ Release(p) /\ UNCHANGED feedVars

AbortOverride(p) == p \in Requesting /\ Release(p) /\ UNCHANGED <<feedVars, active, logged, overlapped>>
-----------------------------------------------------------------------------
Job == PollSucceeds \/ PollFails \/ Alarm \/ CallOff
Next ==
  \/ Tick \/ Job \/ FeedChanges \/ Refresh \/ Stop \/ Start
  \/ \E p \in Admin : \/ \E op \in {"set", "clear"} : BeginOverride(p, op)
                     \/ Deactivate(p) \/ RecordOverride(p) \/ CommitOverride(p) \/ AbortOverride(p)

Spec == Init /\ [][Next]_vars

\* Time passes, and a job that is due runs to its end: every await in it times out.
FairSpec == Spec /\ WF_vars(Tick) /\ WF_vars(Job)
-----------------------------------------------------------------------------
(* Properties. *)

\* The alarm is up exactly while the rate counts as closed, "so the banner and the
\* Discord alert appear together" (core/gold_api.py), as long as the rows are the job's own and the
\* process has not been restarted since the newest; and the channel was last told
\* what the job believes, once per change, unless that message was lost.
AlarmMatchesRate ==
  running /\ ~due /\ poll = "idle" =>
    /\ apart \/ (alerted <=> MarketClosed)
    /\ unheard \/ (alerted <=> told = "stale")

\* The override that is served is the one the ledger says was set last, and none once
\* it says cleared, unless the request that set it ran beside another: then
\* an override may outlive the event that ended it, but the one set last is active.
OverrideAsLogged ==
  /\ \A o \in Served : o = logged \/ o \in overlapped
  /\ logged # NONE => logged \in active

\* An outage that lasts is alarmed, and a feed that comes back for good ends the alarm and
\* the closed market, if the process stays up.
OutageAlarmed ==
  /\ <>[](running /\ ~feed) => <>[]alerted
  /\ <>[](running /\ feed) => <>[](~alerted /\ age <= 1)
=============================================================================
