------------------------------- MODULE SignIn -------------------------------
(***************************************************************************)
(* Signing in: the lockout of an email after too many wrong passwords      *)
(* (core/login_lockout.py), which is counted from the rows of the auth     *)
(* audit log, and the sessions of its user (core/security.py, deps.py),    *)
(* whose tokens carry the version of the user's row they were issued       *)
(* under.  The requests are those of api/auth.py and api/staff.py on one   *)
(* account.                                                                *)
(*                                                                         *)
(* `log` holds the rows about the email that are younger than              *)
(* LOCKOUT_WINDOW and LOCKOUT_DURATION, both fifteen minutes, in the order *)
(* of the chain: a row's time is read while the chain's head is locked, so *)
(* rows leave the window from the front.  Rows nothing is decided from     *)
(* (LOGOUT, PASSWORD_CHANGED) are left out, and so are the per-address     *)
(* rate limit and the text of tokens.                                      *)
(***************************************************************************)
EXTENDS Integers, Sequences, FiniteSets, FiniteSetsExt, Functions

CONSTANTS Proc, Password, FirstPassword, Threshold, MaxRows, MaxVersion, None

ASSUME ThresholdAssumption == Threshold \in Nat \ {0}
ASSUME PasswordAssumption == FirstPassword \in Password /\ None \notin Password
ASSUME ProcAssumption == IsFiniteSet(Proc) /\ None \notin Proc
ASSUME BoundAssumption == MaxRows \in Nat /\ MaxVersion \in Nat

VARIABLES user,      \* the committed row: password hash, token_version, is_active
          rowLock,   \* the request whose UPDATE of the row is not committed
          tokens,    \* the sessions whose version is not behind the row's
          log,       \* the email's rows of the last fifteen minutes
          pending,   \* rows handed to background tasks and not written yet
          tx         \* each request in progress

signInVars == <<user, rowLock, tokens, log, pending, tx>>

\* A LOGIN_FAILED row is written for a wrong password and for a disabled account.
FailedRows == {"WRONG", "DISABLED"}
ResetRows == {"SUCCESS", "LOCKED", "UNLOCKED"}

UserRow == [hash : Password, ver : 0..MaxVersion, active : BOOLEAN]
\* `dead` is history: the session was ended after the row it came from was read.
Token == [ver : 0..MaxVersion, hash : Password, dead : BOOLEAN]

\* get_current_user: the version and the account are read again at every request.
Accepted(t) == user.active /\ t.ver = user.ver

Idle == [pc |-> "idle", op |-> "none", seen |-> None, new |-> None, active |-> None,
         bumps |-> 0, row |-> None, dead |-> FALSE]
SignInInit ==
  /\ user = [hash |-> FirstPassword, ver |-> 0, active |-> TRUE]
  /\ rowLock = None /\ tokens = {} /\ log = <<>> /\ pending = {}
  /\ tx = [p \in Proc |-> Idle]
----------------------------------------------------------------------------
(* The lockout. *)

Locked(l) ==
  \E i \in DOMAIN l : l[i] = "LOCKED" /\ \A j \in i + 1..Len(l) : l[j] # "UNLOCKED"

LastReset(l) == Max({0} \cup {i \in DOMAIN l : l[i] \in ResetRows})
Failures(l) == Cardinality({i \in DOMAIN l : i > LastReset(l) /\ l[i] \in FailedRows})

\* Mutant: the count is read before the failure is flushed.
CountedBefore(l) ==
  LET failed == Append(l, "WRONG") IN
  IF Failures(l) >= Threshold THEN Append(failed, "LOCKED") ELSE failed
\* The failure and, when it is one too many, the lock: one transaction under
\* the chain's head, which every writer of the log holds.
WithFailure(l) ==
  LET failed == Append(l, "WRONG") IN
  IF Failures(failed) >= Threshold THEN Append(failed, "LOCKED") ELSE failed

Write(l) == Len(l) <= MaxRows /\ log' = l

\* Mutant: the lock is looked at only after the password.
BeginAnyway(p, password) ==
  /\ tx[p] = Idle
  /\ tx' = [tx EXCEPT ![p].pc = "checked", ![p].op = "login", ![p].new = password]
  /\ UNCHANGED <<user, rowLock, tokens, log, pending>>
\* The check comes before the user is read; a refused request writes nothing.
BeginLogin(p, password) ==
  /\ tx[p] = Idle /\ ~Locked(log)
  /\ tx' = [tx EXCEPT ![p].pc = "checked", ![p].op = "login", ![p].new = password]
  /\ UNCHANGED <<user, rowLock, tokens, log, pending>>

\* The row is read once: the password is compared with its hash in a worker
\* thread, and the answer, whenever it comes, is about the row as it was.
VerifyLogin(p) ==
  /\ tx[p].pc = "checked"
  /\ tx' = [tx EXCEPT ![p].new = None,
                      ![p].pc = CASE tx[p].new # user.hash -> "wrong"
                                  [] ~user.active -> "disabled"
                                  [] OTHER -> "right",
                      ![p].seen = IF tx[p].new = user.hash /\ user.active THEN user ELSE None]
  /\ UNCHANGED <<user, rowLock, tokens, log, pending>>

\* The failure is written before the 401 is answered, or the write fails and
\* the attempt goes uncounted.
RecordFailure(p) ==
  /\ tx[p].pc = "wrong"
  /\ Write(WithFailure(log)) \/ UNCHANGED log
  /\ tx' = [tx EXCEPT ![p] = Idle]
  /\ UNCHANGED <<user, rowLock, tokens, pending>>

\* At most one background row is pending.
Fire(row) == pending = {} /\ pending' = {row}

RefuseDisabled(p) ==
  /\ tx[p].pc = "disabled" /\ Fire("DISABLED")
  /\ tx' = [tx EXCEPT ![p] = Idle]
  /\ UNCHANGED <<user, rowLock, tokens, log>>

\* A background task writes its row, late, or fails.
LandRow(row) ==
  /\ row \in pending /\ pending' = pending \ {row}
  /\ Write(Append(log, row)) \/ UNCHANGED log
  /\ UNCHANGED <<user, rowLock, tokens, tx>>

\* The admin's unlock is a row like the others.
Unlock ==
  /\ Write(Append(log, "UNLOCKED"))
  /\ UNCHANGED <<user, rowLock, tokens, pending, tx>>

\* The oldest row is fifteen minutes old.
Expire ==
  /\ log # <<>> /\ log' = Tail(log)
  /\ UNCHANGED <<user, rowLock, tokens, pending, tx>>
----------------------------------------------------------------------------
(* Sessions. *)

\* The session a request hands out carries the version it read with the hash.
Session(p) == [ver |-> tx[p].seen.ver, hash |-> tx[p].seen.hash, dead |-> tx[p].dead]
\* Versions never go down: a session behind the row is refused for good.
Kept(sessions, row) == {t \in sessions : t.ver >= row.ver}

IssueToken(p) ==
  /\ tx[p].pc = "right"
  /\ IF tx[p].op = "login" THEN Fire("SUCCESS") ELSE UNCHANGED pending
  /\ tokens' = Kept(tokens \cup {Session(p)}, user)
  /\ tx' = [tx EXCEPT ![p] = Idle]
  /\ UNCHANGED <<user, rowLock, log>>

\* A logout drops the device's cookie, and a token expires after eight hours.
DropToken(t) ==
  /\ t \in tokens /\ tokens' = tokens \ {t}
  /\ UNCHANGED <<user, rowLock, log, pending, tx>>

VersionsDue == SumFunctionOnSet([p \in Proc |-> tx[p].bumps], Proc)

\* A request that loads the row now and will write it: a new password or None,
\* is_active or None, and the increments of the version.
BeginWrite(p, op, new, active, bumps) ==
  /\ tx[p] = Idle /\ user.ver + VersionsDue + bumps <= MaxVersion
  /\ tx' = [tx EXCEPT ![p].pc = "loaded", ![p].op = op, ![p].seen = user,
                      ![p].new = new, ![p].active = active, ![p].bumps = bumps]
  /\ UNCHANGED <<user, rowLock, tokens, log, pending>>

\* The caller is signed in and gives the password in force as its old one.
BeginChange(p, new) ==
  (\E t \in tokens : Accepted(t)) /\ BeginWrite(p, "change", new, None, 1)

\* An admin resets the password, turns the account on or off (DELETE turns it
\* off), or both: each of the reset and the turning off ends the sessions,
\* the second only if the account was loaded as active.
BeginUpdate(p, new, active) ==
  LET reset == IF new = None THEN 0 ELSE 1
      off == IF user.active /\ active = FALSE THEN 1 ELSE 0 IN
  /\ new # None \/ active \in {~user.active}
  /\ BeginWrite(p, "update", new, IF active = user.active THEN None ELSE active, reset + off)

BeginForceLogout(p) == BeginWrite(p, "force", None, None, 1)

\* Mutant: the version is incremented on the loaded copy.
IncrementLoaded(p) ==
  [hash |-> IF tx[p].new = None THEN user.hash ELSE tx[p].new,
   ver |-> tx[p].seen.ver + tx[p].bumps,
   active |-> IF tx[p].active = None THEN user.active ELSE tx[p].active]
\* The UPDATE waits for the row and applies the changed columns to it as it is then.
Updated(p) ==
  [hash |-> IF tx[p].new = None THEN user.hash ELSE tx[p].new,
   ver |-> user.ver + tx[p].bumps,
   active |-> IF tx[p].active = None THEN user.active ELSE tx[p].active]

UpdateRow(p) ==
  /\ tx[p].pc = "loaded" /\ rowLock = None /\ rowLock' = p
  /\ tx' = [tx EXCEPT ![p].pc = "written", ![p].row = Updated(p),
                      ![p].seen = None, ![p].new = None, ![p].active = None]
  /\ UNCHANGED <<user, tokens, log, pending>>

\* A committed revocation: the session that request q is about to hand out is dead.
Revoked(q) == [tx[q] EXCEPT !.dead = @ \/ tx[q].pc = "right"]

\* A password change goes on to issue a session with the row it wrote.
AfterCommit(p) ==
  IF tx[p].op = "change"
  THEN [Idle EXCEPT !.pc = "right", !.op = "change", !.seen = tx[p].row]
  ELSE Idle

Commit(p) ==
  /\ tx[p].pc = "written"
  /\ user' = tx[p].row /\ rowLock' = None
  /\ IF tx[p].bumps = 0
     THEN /\ tx' = [tx EXCEPT ![p] = AfterCommit(p)] /\ UNCHANGED tokens
     ELSE /\ tokens' = Kept({[t EXCEPT !.dead = TRUE] : t \in tokens}, tx[p].row)
          /\ tx' = [q \in Proc |-> IF q = p THEN AfterCommit(p) ELSE Revoked(q)]
  /\ UNCHANGED <<log, pending>>

\* The request is dropped or the database fails: everything is rolled back.
Abort(p) ==
  /\ tx[p].pc \in {"loaded", "written"}
  /\ tx' = [tx EXCEPT ![p] = Idle]
  /\ rowLock' = IF rowLock = p THEN None ELSE rowLock
  /\ UNCHANGED <<user, tokens, log, pending>>
----------------------------------------------------------------------------
SignInNext ==
  \/ \E p \in Proc : \/ \E w \in Password : BeginLogin(p, w) \/ BeginChange(p, w)
                     \/ VerifyLogin(p) \/ RecordFailure(p) \/ RefuseDisabled(p)
                     \/ IssueToken(p) \/ BeginForceLogout(p)
                     \/ \E w \in Password \cup {None}, a \in BOOLEAN \cup {None} :
                          BeginUpdate(p, w, a)
                     \/ UpdateRow(p) \/ Commit(p) \/ Abort(p)
  \/ \E row \in pending : LandRow(row)
  \/ \E t \in tokens : DropToken(t)
  \/ Unlock \/ Expire

SignInSpec == SignInInit /\ [][SignInNext]_signInVars

\* Time passes.  Nothing else is assumed to happen.
FairSpec == SignInSpec /\ WF_signInVars(Expire)
----------------------------------------------------------------------------
TypeOK ==
  /\ user \in UserRow
  /\ rowLock \in Proc \cup {None}
  /\ tokens \subseteq Token
  /\ log \in Seq(FailedRows \cup ResetRows) /\ Len(log) <= MaxRows
  /\ pending \subseteq {"SUCCESS", "DISABLED"}
  /\ \A p \in Proc : tx[p].pc = "written" <=> rowLock = p

\* A session that is accepted was issued for the password in force, and no
\* password change, reset, deactivation or force-logout has committed since it
\* was issued or since the row it was issued from was read; the state is well typed.
OnlyLiveSessions ==
  TypeOK /\ \A t \in tokens : Accepted(t) => ~t.dead /\ t.hash = user.hash

\* Every wrong password that is one too many locks the email in the same
\* transaction, and no lock comes before another Threshold failures: racing
\* attempts cannot each decide they were the last one allowed.
OneLockPerThreshold ==
  \A i \in DOMAIN log :
    LET upTo == SubSeq(log, 1, i) IN
    /\ log[i] = "WRONG" /\ Failures(upTo) >= Threshold => i < Len(log) /\ log[i + 1] = "LOCKED"
    /\ \A j \in 1..i - 1 :
         log[i] = "LOCKED" /\ log[j] = "LOCKED" =>
           Cardinality({k \in j..i : log[k] \in FailedRows}) >= Threshold

LoginsInFlight == {p \in Proc : tx[p].pc \in {"checked", "wrong"}}

\* While a lock holds, only the logins that were in flight when it was
\* written can still try a password: fewer than the requests served at once.
BurstBounded ==
  \A i \in DOMAIN log :
    log[i] = "LOCKED" /\ (\A j \in i + 1..Len(log) : log[j] # "UNLOCKED") =>
      Cardinality({j \in i + 1..Len(log) : log[j] = "WRONG"}) + Cardinality(LoginsInFlight)
        < Cardinality(Proc)

\* Attempts that race are counted exactly: the threshold locks once, and the lock holds
\* off all that came after it.
LockoutExact == OneLockPerThreshold /\ BurstBounded

\* However many attempts are made, a locked email is released.
LockEnds == Locked(log) ~> ~Locked(log)
=============================================================================
