-------------------------- MODULE BackOfficeProofs --------------------------
(***************************************************************************)
(* Proofs about two parts of the back office that share no state, for      *)
(* every value of the constants.  SignIn: a session that is accepted was   *)
(* issued for the password in force and nothing has revoked it, and        *)
(* attempts that race are counted exactly.  History: the type of the       *)
(* tables and of the entries, and that whatever an office does - opening   *)
(* balances, replays, closings, late orders, refunds and melts - a closed  *)
(* year keeps every nominal account settled.                               *)
(***************************************************************************)
EXTENDS SignIn, History, SumTheorems, SequenceTheorems

-----------------------------------------------------------------------------
(* Sessions: what every request knows of the user's row. *)

Pcs == {"idle", "checked", "wrong", "disabled", "right", "loaded", "written"}

IsUser(u) ==
  /\ u = [hash |-> u.hash, ver |-> u.ver, active |-> u.active]
  /\ u.hash \in Password /\ u.ver \in 0..MaxVersion /\ u.active \in BOOLEAN

\* A request r, while the row is u: what it has written is ahead of the row by its own
\* increments, a new password comes with one, and what it read at an earlier version is
\* of no more use than the version.
RequestOK(r, u) ==
  /\ r = [pc |-> r.pc, op |-> r.op, seen |-> r.seen, new |-> r.new, active |-> r.active,
          bumps |-> r.bumps, row |-> r.row, dead |-> r.dead]
  /\ r.pc \in Pcs /\ r.bumps \in Nat /\ r.dead \in BOOLEAN
  /\ r.pc = "written" => IsUser(r.row) /\ r.row.ver = u.ver + r.bumps /\ (r.bumps = 0 => r.row.hash = u.hash)
  /\ r.pc = "loaded" => /\ r.new \in Password \cup {None} /\ (r.active = None \/ r.active \in BOOLEAN)
                        /\ r.new # None => r.bumps >= 1
  /\ r.pc = "right" => /\ IsUser(r.seen) /\ r.seen.ver <= u.ver
                       /\ r.seen.ver = u.ver => r.dead = FALSE /\ r.seen.hash = u.hash
  /\ r.pc # "right" => r.dead = FALSE

\* A session that is kept is one of the row as it is.
SessionOK(t, u) == t = [ver |-> u.ver, hash |-> u.hash, dead |-> FALSE]

RequestsOK ==
  /\ tx = [p \in Proc |-> tx[p]]
  /\ \A p \in Proc : RequestOK(tx[p], user) /\ (tx[p].pc = "written" <=> rowLock = p)

SessInv ==
  /\ IsUser(user) /\ rowLock \in Proc \cup {None}
  /\ RequestsOK
  /\ user.ver + VersionsDue <= MaxVersion
  /\ \A t \in tokens : SessionOK(t, user)

\* The fields of a process that serves no request.
LEMMA IdleFields ==
  /\ Idle = [pc |-> "idle", op |-> "none", seen |-> None, new |-> None, active |-> None,
             bumps |-> 0, row |-> None, dead |-> FALSE]
  /\ Idle.pc = "idle" /\ Idle.op = "none" /\ Idle.seen = None /\ Idle.new = None /\ Idle.active = None
  /\ Idle.bumps = 0 /\ Idle.row = None /\ Idle.dead = FALSE
BY DEF Idle

\* A process that serves no request knows nothing.
LEMMA IdleOK == ASSUME NEW u PROVE RequestOK(Idle, u)
BY IdleFields DEF RequestOK, Pcs

\* The increments still due are a number, none of them more than the sum.
LEMMA DueType ==
  ASSUME \A p \in Proc : tx[p].bumps \in Nat
  PROVE  VersionsDue \in Nat /\ \A p \in Proc : tx[p].bumps <= VersionsDue
<1> DEFINE f == [p \in Proc |-> tx[p].bumps]
<1>1. VersionsDue = SumFunctionOnSet(f, Proc) /\ \A p \in Proc : f[p] = tx[p].bumps
  BY DEF VersionsDue
<1> HIDE DEF f
<1>2. IsFiniteSet(Proc) /\ \A p \in Proc : f[p] \in Nat
  BY <1>1, ProcAssumption
<1>3. SumFunctionOnSet(f, Proc) \in Nat
  BY <1>2, SumNat
<1>4. ASSUME NEW p \in Proc PROVE f[p] <= SumFunctionOnSet(f, Proc)
  BY <1>2, SumAtLeast
<1> QED BY <1>1, <1>3, <1>4

\* When one request changes, the sum changes by what that one owes.
LEMMA DueChange ==
  ASSUME \A q \in Proc : tx[q].bumps \in Nat, NEW p \in Proc, tx'[p].bumps \in Nat,
         \A q \in Proc : q # p => tx'[q].bumps = tx[q].bumps
  PROVE  VersionsDue' = VersionsDue - tx[p].bumps + tx'[p].bumps
<1> DEFINE f == [q \in Proc |-> tx[q].bumps]
           g == [q \in Proc |-> tx'[q].bumps]
<1>1. /\ VersionsDue = SumFunctionOnSet(f, Proc) /\ VersionsDue' = SumFunctionOnSet(g, Proc)
      /\ \A q \in Proc : f[q] = tx[q].bumps /\ g[q] = tx'[q].bumps
  BY DEF VersionsDue
<1> HIDE DEF f, g
<1>2. IsFiniteSet(Proc) /\ (\A q \in Proc : f[q] \in Int) /\ (\A q \in Proc : g[q] \in Int)
      /\ \A q \in Proc \ {p} : f[q] = g[q]
  BY <1>1, ProcAssumption
<1>3. SumFunctionOnSet(g, Proc) = SumFunctionOnSet(f, Proc) - f[p] + g[p]
  BY <1>2, SumChange
<1> QED BY <1>1, <1>3

\* No process serves a request at first.
LEMMA InitSess == SignInInit => SessInv
<1> SUFFICES ASSUME SignInInit PROVE SessInv
  OBVIOUS
<1>1. /\ user = [hash |-> FirstPassword, ver |-> 0, active |-> TRUE] /\ rowLock = None /\ tokens = {}
      /\ tx = [p \in Proc |-> Idle]
  BY DEF SignInInit
<1>2. IsUser(user)
  <2>1. user.hash = FirstPassword /\ user.ver = 0
    BY <1>1
  <2>2. user.active = TRUE
    BY <1>1, Zenon
  <2>3. user.active \in BOOLEAN
    BY <2>2, Zenon
  <2>4. user = [hash |-> user.hash, ver |-> user.ver, active |-> user.active]
    BY <1>1, <2>1, <2>2, Zenon
  <2>5. user.ver \in 0..MaxVersion
    BY <2>1, BoundAssumption
  <2> QED BY <2>1, <2>3, <2>4, <2>5, PasswordAssumption, Zenon DEF IsUser
<1>3. \A p \in Proc : tx[p] = Idle
  BY <1>1
<1>4. RequestsOK
  <2>1. tx = [p \in Proc |-> tx[p]]
    BY <1>1
  <2>2. ASSUME NEW p \in Proc PROVE RequestOK(tx[p], user) /\ (tx[p].pc = "written" <=> rowLock = p)
    <3>1. rowLock # p /\ tx[p].pc # "written"
      BY <1>1, <1>3, IdleFields, ProcAssumption
    <3> QED BY <1>3, <3>1, IdleOK, Zenon
  <2> QED BY <2>1, <2>2 DEF RequestsOK
<1>5. user.ver + VersionsDue <= MaxVersion
  <2> DEFINE f == [p \in Proc |-> tx[p].bumps]
  <2>1. \A p \in Proc : f[p] = 0
    BY <1>3, IdleFields
  <2>2. VersionsDue = SumFunctionOnSet(f, Proc)
    BY DEF VersionsDue
  <2> HIDE DEF f
  <2>3. SumFunctionOnSet(f, Proc) = SumFunctionOnSet(f, {})
    BY <2>1, ProcAssumption, SumSupport
  <2>4. SumFunctionOnSet(f, {}) = 0
    BY SumStep, FS_EmptySet
  <2>5. user.ver = 0
    BY <1>1
  <2> QED BY <2>2, <2>3, <2>4, <2>5, BoundAssumption
<1> QED BY <1>1, <1>2, <1>4, <1>5 DEF SessInv

\* A step that changes one request and not the row.
LEMMA OwnStep ==
  ASSUME SessInv, NEW p \in Proc, NEW x, tx' = [tx EXCEPT ![p] = x], user' = user,
         RequestOK(x, user), rowLock' \in Proc \cup {None}, x.pc = "written" <=> rowLock' = p,
         \A q \in Proc \ {p} : rowLock' = q <=> rowLock = q,
         x.bumps <= tx[p].bumps \/ user.ver + VersionsDue + x.bumps <= MaxVersion,
         \A t \in tokens' : SessionOK(t, user)
  PROVE  SessInv'
<1>1. tx'[p] = x /\ (\A q \in Proc : q # p => tx'[q] = tx[q]) /\ tx' = [q \in Proc |-> tx'[q]]
  BY DEF SessInv, RequestsOK
<1>2. ASSUME NEW q \in Proc PROVE RequestOK(tx'[q], user) /\ (tx'[q].pc = "written" <=> rowLock' = q)
  <2>1. CASE q = p
    BY <1>1, <2>1
  <2>2. CASE q # p
    <3>1. RequestOK(tx[q], user) /\ (tx[q].pc = "written" <=> rowLock = q)
      BY DEF SessInv, RequestsOK
    <3>2. (rowLock' = q <=> rowLock = q) /\ tx'[q] = tx[q]
      BY <1>1, <2>2
    <3> QED BY <3>1, <3>2, Zenon
  <2> QED BY <2>1, <2>2
<1>3. RequestsOK'
  BY <1>1, <1>2 DEF RequestsOK
<1>4. user.ver + VersionsDue' <= MaxVersion
  <2>1. (\A q \in Proc : tx[q].bumps \in Nat) /\ tx'[p].bumps \in Nat
    BY <1>1 DEF SessInv, RequestsOK, RequestOK
  <2>2. VersionsDue' = VersionsDue - tx[p].bumps + tx'[p].bumps
    BY <1>1, <2>1, DueChange
  <2>3. VersionsDue \in Nat /\ tx[p].bumps <= VersionsDue
    BY <2>1, DueType
  <2>4. user.ver \in Nat /\ MaxVersion \in Nat /\ user.ver + VersionsDue <= MaxVersion
    BY BoundAssumption DEF SessInv, IsUser
  <2>5. tx[p].bumps \in Nat /\ tx'[p].bumps = x.bumps /\ x.bumps \in Nat
    BY <1>1, <2>1
  <2>6. CASE x.bumps <= tx[p].bumps
    BY <2>2, <2>3, <2>4, <2>5, <2>6
  <2>7. CASE user.ver + VersionsDue + x.bumps <= MaxVersion
    BY <2>2, <2>3, <2>4, <2>5, <2>7
  <2> QED BY <2>6, <2>7
<1>5. IsUser(user') /\ \A t \in tokens' : SessionOK(t, user')
  BY DEF SessInv
<1> QED BY <1>3, <1>4, <1>5 DEF SessInv

\* A request that ends without writing the row.
LEMMA EndsRequest ==
  ASSUME SessInv, NEW p \in Proc, tx' = [tx EXCEPT ![p] = Idle], user' = user,
         rowLock' = IF rowLock = p THEN None ELSE rowLock,
         \A t \in tokens' : SessionOK(t, user)
  PROVE  SessInv'
<1>1. RequestOK(Idle, user) /\ Idle.bumps = 0 /\ Idle.pc # "written"
  BY IdleOK, IdleFields
<1>2. rowLock' \in Proc \cup {None} /\ rowLock' # p /\ \A q \in Proc \ {p} : rowLock' = q <=> rowLock = q
  BY ProcAssumption DEF SessInv
<1>3. tx[p].bumps \in Nat
  BY DEF SessInv, RequestsOK, RequestOK
<1>4. Idle.bumps <= tx[p].bumps
  BY <1>1, <1>3
<1> QED BY <1>1, <1>2, <1>4, OwnStep

\* The lock of a request that has not written the row is another's.
LEMMA NotHolder == ASSUME SessInv, NEW p \in Proc, tx[p].pc # "written" PROVE rowLock # p
BY DEF SessInv, RequestsOK

\* A login reads nothing before the lock is looked at.
LEMMA BeginLoginKeeps == ASSUME SessInv, NEW p \in Proc, NEW w, BeginLogin(p, w) PROVE SessInv'
<1>1. /\ tx[p] = Idle /\ UNCHANGED <<user, rowLock, tokens>>
      /\ tx' = [tx EXCEPT ![p].pc = "checked", ![p].op = "login", ![p].new = w]
  BY DEF BeginLogin
<1>2. PICK x : x = [Idle EXCEPT !.pc = "checked", !.op = "login", !.new = w]
  OBVIOUS
<1>3. x = [pc |-> "checked", op |-> "login", seen |-> None, new |-> w, active |-> None,
           bumps |-> 0, row |-> None, dead |-> FALSE]
  BY <1>2, Zenon DEF Idle
<1>4. tx' = [tx EXCEPT ![p] = x]
  BY <1>1, <1>2 DEF SessInv, RequestsOK
<1>5. x.pc = "checked" /\ x.bumps = 0
  BY <1>3, Zenon
<1>6. RequestOK(x, user)
  BY <1>3 DEF RequestOK, Pcs
<1>7. rowLock # p
  BY <1>1, IdleFields, NotHolder
<1>8. /\ x.bumps <= tx[p].bumps /\ rowLock' \in Proc \cup {None} /\ \A t \in tokens' : SessionOK(t, user)
      /\ x.pc = "written" <=> rowLock' = p
      /\ \A q \in Proc \ {p} : rowLock' = q <=> rowLock = q
  BY <1>1, <1>5, <1>7, IdleFields DEF SessInv
<1> QED BY <1>1, <1>4, <1>6, <1>8, OwnStep

\* What a login found right it read with the password.
LEMMA VerifyKeeps == ASSUME SessInv, NEW p \in Proc, VerifyLogin(p) PROVE SessInv'
<1>1. PICK y : y = tx[p]
  OBVIOUS
<1>2. PICK pc, seen :
        /\ pc = (CASE y.new # user.hash -> "wrong" [] ~user.active -> "disabled" [] OTHER -> "right")
        /\ seen = IF y.new = user.hash /\ user.active THEN user ELSE None
  OBVIOUS
<1>3. /\ y.pc = "checked" /\ UNCHANGED <<user, rowLock, tokens>>
      /\ tx' = [tx EXCEPT ![p].new = None, ![p].pc = pc, ![p].seen = seen]
  BY <1>1, <1>2, Zenon DEF VerifyLogin
<1>4. pc \in {"wrong", "disabled", "right"} /\ (pc = "right" => seen = user)
  BY <1>2
<1>5. RequestOK(y, user)
  BY <1>1 DEF SessInv, RequestsOK
<1>6. /\ y = [pc |-> y.pc, op |-> y.op, seen |-> y.seen, new |-> y.new, active |-> y.active,
              bumps |-> y.bumps, row |-> y.row, dead |-> y.dead]
      /\ y.bumps \in Nat /\ y.dead = FALSE
  BY <1>3, <1>5 DEF RequestOK
<1>7. PICK x : x = [y EXCEPT !.new = None, !.pc = pc, !.seen = seen]
  OBVIOUS
<1>8. x = [pc |-> pc, op |-> y.op, seen |-> seen, new |-> None, active |-> y.active,
           bumps |-> y.bumps, row |-> y.row, dead |-> y.dead]
  BY <1>6, <1>7, Zenon
<1>9. x = [pc |-> x.pc, op |-> x.op, seen |-> x.seen, new |-> x.new, active |-> x.active,
           bumps |-> x.bumps, row |-> x.row, dead |-> x.dead]
      /\ x.pc = pc /\ x.seen = seen /\ x.bumps = y.bumps /\ x.dead = y.dead
  BY <1>8, Zenon
<1>10. tx' = [tx EXCEPT ![p] = x]
  BY <1>1, <1>3, <1>7 DEF SessInv, RequestsOK
<1>11. IsUser(user) /\ user.ver \in Int
  BY DEF SessInv, IsUser
<1>12. x.pc = "right" => /\ IsUser(x.seen) /\ x.seen.ver <= user.ver
                         /\ x.seen.ver = user.ver => x.dead = FALSE /\ x.seen.hash = user.hash
  <2> SUFFICES ASSUME x.pc = "right"
               PROVE  /\ IsUser(x.seen) /\ x.seen.ver <= user.ver
                      /\ x.seen.ver = user.ver => x.dead = FALSE /\ x.seen.hash = user.hash
    OBVIOUS
  <2>1. x.seen = user /\ x.dead = FALSE
    BY <1>4, <1>6, <1>9
  <2>2. x.seen.ver <= user.ver
    BY <1>11, <2>1
  <2> QED BY <1>11, <2>1, <2>2
<1>13. RequestOK(x, user)
  <2>1. x.pc \in Pcs /\ x.pc # "written" /\ x.pc # "loaded" /\ x.bumps \in Nat
    BY <1>4, <1>6, <1>9 DEF Pcs
  <2>2. x.dead = FALSE /\ x.dead \in BOOLEAN
    BY <1>6, <1>9, Zenon
  <2> QED BY <1>9, <1>12, <2>1, <2>2, Zenon DEF RequestOK
<1>14. rowLock # p /\ x.pc # "written"
  BY <1>1, <1>3, <1>4, <1>9, NotHolder
<1>15. /\ rowLock' \in Proc \cup {None} /\ \A t \in tokens' : SessionOK(t, user)
       /\ x.pc = "written" <=> rowLock' = p
       /\ \A q \in Proc \ {p} : rowLock' = q <=> rowLock = q
  BY <1>3, <1>14 DEF SessInv
<1>16. x.bumps <= tx[p].bumps
  BY <1>1, <1>6, <1>9
<1> QED BY <1>3, <1>10, <1>13, <1>15, <1>16, OwnStep

\* The session handed out is one of the row as it is, or behind it.
LEMMA IssueKeeps == ASSUME SessInv, NEW p \in Proc, IssueToken(p) PROVE SessInv'
<1>1. /\ tx[p].pc = "right" /\ UNCHANGED <<user, rowLock>>
      /\ tokens' = Kept(tokens \cup {Session(p)}, user)
      /\ tx' = [tx EXCEPT ![p] = Idle]
  BY DEF IssueToken
<1>a. RequestOK(tx[p], user) /\ IsUser(user)
  BY DEF SessInv, RequestsOK
<1>b. /\ IsUser(tx[p].seen) /\ tx[p].seen.ver <= user.ver
      /\ tx[p].seen.ver = user.ver => tx[p].dead = FALSE /\ tx[p].seen.hash = user.hash
  BY <1>1, <1>a DEF RequestOK
<1>2. /\ tx[p].seen.ver <= user.ver /\ tx[p].seen.ver \in Int /\ user.ver \in Int
      /\ tx[p].seen.ver = user.ver => tx[p].dead = FALSE /\ tx[p].seen.hash = user.hash
  <2>1. tx[p].seen.ver \in Int /\ user.ver \in Int
    BY <1>a, <1>b DEF IsUser
  <2> QED BY <1>b, <2>1
<1>3. ASSUME NEW t \in tokens' PROVE SessionOK(t, user)
  <2>1. CASE t \in tokens
    BY <2>1 DEF SessInv
  <2>2. CASE t = Session(p)
    <3>1. t = [ver |-> tx[p].seen.ver, hash |-> tx[p].seen.hash, dead |-> tx[p].dead]
      BY <2>2 DEF Session
    <3>2. t.ver >= user.ver /\ t.ver = tx[p].seen.ver
      BY <1>1, <3>1 DEF Kept
    <3>3. tx[p].seen.ver = user.ver /\ tx[p].seen.hash = user.hash
      BY <1>2, <3>2
    <3>4. tx[p].dead = FALSE
      BY <1>2, <3>3
    <3> QED BY <3>1, <3>3, <3>4, Zenon DEF SessionOK
  <2> QED BY <1>1, <2>1, <2>2 DEF Kept
<1>4. rowLock # p
  BY <1>1, NotHolder
<1> QED BY <1>1, <1>3, <1>4, EndsRequest

\* A request that will write the row, with an increment for every new password.
LEMMA BeginWriteKeeps ==
  ASSUME SessInv, NEW p \in Proc, NEW op, NEW w \in Password \cup {None}, NEW a, a = None \/ a \in BOOLEAN,
         NEW n \in Nat, w # None => n >= 1, BeginWrite(p, op, w, a, n)
  PROVE  SessInv'
<1>1. /\ tx[p] = Idle /\ UNCHANGED <<user, rowLock, tokens>> /\ user.ver + VersionsDue + n <= MaxVersion
      /\ tx' = [tx EXCEPT ![p].pc = "loaded", ![p].op = op, ![p].seen = user,
                      ![p].new = w, ![p].active = a, ![p].bumps = n]
  BY DEF BeginWrite
<1>2. PICK x : x = [Idle EXCEPT !.pc = "loaded", !.op = op, !.seen = user, !.new = w, !.active = a, !.bumps = n]
  OBVIOUS
<1>3. x = [pc |-> "loaded", op |-> op, seen |-> user, new |-> w, active |-> a,
           bumps |-> n, row |-> None, dead |-> FALSE]
  BY <1>2, Zenon DEF Idle
<1>4. tx' = [tx EXCEPT ![p] = x]
  BY <1>1, <1>2 DEF SessInv, RequestsOK
<1>5. /\ x = [pc |-> x.pc, op |-> x.op, seen |-> x.seen, new |-> x.new, active |-> x.active,
              bumps |-> x.bumps, row |-> x.row, dead |-> x.dead]
      /\ x.pc = "loaded" /\ x.new = w /\ x.active = a /\ x.bumps = n /\ x.dead = FALSE
  BY <1>3, Zenon
<1>6. RequestOK(x, user)
  <2>1. x.pc \in Pcs /\ x.pc # "written" /\ x.pc # "right"
    BY <1>5 DEF Pcs
  <2>2. x.dead = FALSE /\ x.dead \in BOOLEAN /\ (x.active = None \/ x.active \in BOOLEAN)
    BY <1>5, Zenon
  <2>3. x.bumps \in Nat /\ x.new \in Password \cup {None} /\ (x.new # None => x.bumps >= 1)
    BY <1>5
  <2> QED BY <1>5, <2>1, <2>2, <2>3, Zenon DEF RequestOK
<1>7. /\ rowLock' \in Proc \cup {None} /\ \A t \in tokens' : SessionOK(t, user)
      /\ x.pc = "written" <=> rowLock' = p
      /\ \A q \in Proc \ {p} : rowLock' = q <=> rowLock = q
  <2>1. rowLock # p
    BY <1>1, IdleFields, NotHolder
  <2> QED BY <1>1, <1>5, <2>1 DEF SessInv
<1>8. user.ver + VersionsDue + x.bumps <= MaxVersion
  BY <1>1, <1>5
<1> QED BY <1>1, <1>4, <1>6, <1>7, <1>8, OwnStep

\* An admin's update: the reset and the turning off come with an increment each.
LEMMA BeginUpdateKeeps ==
  ASSUME SessInv, NEW p \in Proc, NEW w \in Password \cup {None}, NEW a \in BOOLEAN \cup {None},
         BeginUpdate(p, w, a)
  PROVE  SessInv'
<1>1. PICK b, n : /\ b = (IF a = user.active THEN None ELSE a)
                  /\ n = (IF w = None THEN 0 ELSE 1) + (IF user.active /\ a = FALSE THEN 1 ELSE 0)
  OBVIOUS
<1>2. n \in Nat /\ (w # None => n >= 1)
  BY <1>1
<1>3. b = None \/ b \in BOOLEAN
  BY <1>1, Zenon
<1>4. BeginWrite(p, "update", w, b, n)
  BY <1>1, Zenon DEF BeginUpdate
<1> QED BY <1>2, <1>3, <1>4, BeginWriteKeeps

\* The row written is ahead of the committed one by the increments of the request.
LEMMA UpdateRowKeeps == ASSUME SessInv, NEW p \in Proc, UpdateRow(p) PROVE SessInv'
<1>1. PICK y, row : y = tx[p] /\ row = Updated(p)
  OBVIOUS
<1>2. /\ y.pc = "loaded" /\ rowLock = None /\ rowLock' = p /\ UNCHANGED <<user, tokens>>
      /\ tx' = [tx EXCEPT ![p].pc = "written", ![p].row = row,
                      ![p].seen = None, ![p].new = None, ![p].active = None]
  BY <1>1 DEF UpdateRow
<1>3. RequestOK(y, user)
  BY <1>1 DEF SessInv, RequestsOK
<1>4. /\ y = [pc |-> y.pc, op |-> y.op, seen |-> y.seen, new |-> y.new, active |-> y.active,
              bumps |-> y.bumps, row |-> y.row, dead |-> y.dead]
      /\ y.bumps \in Nat /\ y.dead = FALSE
      /\ y.new \in Password \cup {None} /\ (y.active = None \/ y.active \in BOOLEAN) /\ (y.new # None => y.bumps >= 1)
  BY <1>2, <1>3 DEF RequestOK
<1>5. PICK x : x = [y EXCEPT !.pc = "written", !.row = row, !.seen = None, !.new = None, !.active = None]
  OBVIOUS
<1>6. x = [pc |-> "written", op |-> y.op, seen |-> None, new |-> None, active |-> None,
           bumps |-> y.bumps, row |-> row, dead |-> y.dead]
  BY <1>4, <1>5, Zenon
<1>7. /\ x = [pc |-> x.pc, op |-> x.op, seen |-> x.seen, new |-> x.new, active |-> x.active,
              bumps |-> x.bumps, row |-> x.row, dead |-> x.dead]
      /\ x.pc = "written" /\ x.bumps = y.bumps /\ x.row = row /\ x.dead = y.dead
  BY <1>6, Zenon
<1>8. tx' = [tx EXCEPT ![p] = x]
  BY <1>1, <1>2, <1>5 DEF SessInv, RequestsOK
<1>9. row = [hash |-> IF y.new = None THEN user.hash ELSE y.new, ver |-> user.ver + y.bumps,
             active |-> IF y.active = None THEN user.active ELSE y.active]
  BY <1>1, Zenon DEF Updated
<1>10. /\ row.hash = (IF y.new = None THEN user.hash ELSE y.new) /\ row.ver = user.ver + y.bumps
       /\ row.active = (IF y.active = None THEN user.active ELSE y.active)
       /\ row = [hash |-> row.hash, ver |-> row.ver, active |-> row.active]
  BY <1>9, Zenon
<1>11. /\ user.hash \in Password /\ user.ver \in 0..MaxVersion /\ user.active \in BOOLEAN
       /\ user.ver + VersionsDue <= MaxVersion
  BY DEF SessInv, IsUser
<1>12. row.active \in BOOLEAN
  BY <1>4, <1>10, <1>11, Zenon
<1>13. row.hash \in Password /\ (y.bumps = 0 => row.hash = user.hash)
  BY <1>4, <1>10, <1>11
<1>14. row.ver \in 0..MaxVersion
  <2>1. \A q \in Proc : tx[q].bumps \in Nat
    BY DEF SessInv, RequestsOK, RequestOK
  <2>2. VersionsDue \in Nat /\ y.bumps <= VersionsDue
    BY <1>1, <2>1, DueType
  <2>3. MaxVersion \in Nat /\ user.ver \in Nat
    BY <1>11, BoundAssumption
  <2> QED BY <1>4, <1>10, <1>11, <2>2, <2>3
<1>15. IsUser(row)
  BY <1>10, <1>12, <1>13, <1>14, Zenon DEF IsUser
<1>16. RequestOK(x, user)
  <2>1. x.pc \in Pcs /\ x.pc # "loaded" /\ x.pc # "right" /\ x.bumps \in Nat
    BY <1>4, <1>7 DEF Pcs
  <2>2. x.dead = FALSE /\ x.dead \in BOOLEAN
    BY <1>4, <1>7, Zenon
  <2>3. IsUser(x.row) /\ x.row.ver = user.ver + x.bumps /\ (x.bumps = 0 => x.row.hash = user.hash)
    BY <1>7, <1>10, <1>13, <1>15
  <2> QED BY <1>7, <2>1, <2>2, <2>3, Zenon DEF RequestOK
<1>17. /\ rowLock' \in Proc \cup {None} /\ \A t \in tokens' : SessionOK(t, user)
       /\ x.pc = "written" <=> rowLock' = p
       /\ \A q \in Proc \ {p} : rowLock' = q <=> rowLock = q
  BY <1>2, <1>7, ProcAssumption DEF SessInv
<1>18. x.bumps <= tx[p].bumps
  BY <1>1, <1>4, <1>7
<1> QED BY <1>2, <1>8, <1>16, <1>17, <1>18, OwnStep

\* What another request knows of the row stays true of a row with the same version and
\* password, and of a later version once the session it is about to hand out is dead.
LEMMA OtherKeeps ==
  ASSUME NEW r, NEW u, NEW v, RequestOK(r, u), IsUser(u), IsUser(v), r.pc # "written"
  PROVE  /\ v.ver = u.ver /\ v.hash = u.hash => RequestOK(r, v)
         /\ v.ver > u.ver => RequestOK([r EXCEPT !.dead = @ \/ r.pc = "right"], v)
<1>0. u.ver \in Int /\ v.ver \in Int
  BY DEF IsUser
<1>1. ASSUME v.ver = u.ver, v.hash = u.hash PROVE RequestOK(r, v)
  BY <1>1 DEF RequestOK
<1>2. ASSUME v.ver > u.ver PROVE RequestOK([r EXCEPT !.dead = @ \/ r.pc = "right"], v)
  <2>1. PICK b : b = (r.dead \/ r.pc = "right")
    OBVIOUS
  <2>2. PICK x : x = [r EXCEPT !.dead = b]
    OBVIOUS
  <2>3. /\ r = [pc |-> r.pc, op |-> r.op, seen |-> r.seen, new |-> r.new, active |-> r.active,
                bumps |-> r.bumps, row |-> r.row, dead |-> r.dead]
        /\ r.pc \in Pcs /\ r.bumps \in Nat
        /\ r.pc = "loaded" => /\ r.new \in Password \cup {None} /\ (r.active = None \/ r.active \in BOOLEAN)
                              /\ r.new # None => r.bumps >= 1
        /\ r.pc = "right" => IsUser(r.seen) /\ r.seen.ver <= u.ver
        /\ r.pc # "right" => r.dead = FALSE
    BY DEF RequestOK
  <2>4. b \in BOOLEAN /\ (r.pc # "right" => b = FALSE)
    BY <2>1, <2>3, Zenon
  <2>5. x = [pc |-> r.pc, op |-> r.op, seen |-> r.seen, new |-> r.new, active |-> r.active,
             bumps |-> r.bumps, row |-> r.row, dead |-> b]
    BY <2>2, <2>3, Zenon
  <2>6. /\ x = [pc |-> x.pc, op |-> x.op, seen |-> x.seen, new |-> x.new, active |-> x.active,
                bumps |-> x.bumps, row |-> x.row, dead |-> x.dead]
        /\ x.pc = r.pc /\ x.seen = r.seen /\ x.new = r.new /\ x.active = r.active
        /\ x.bumps = r.bumps /\ x.dead = b
    BY <2>5, Zenon
  <2>7. r.pc = "right" => x.seen.ver <= v.ver /\ x.seen.ver # v.ver
    <3>1. ASSUME r.pc = "right" PROVE r.seen.ver <= v.ver /\ r.seen.ver # v.ver
      <4>1. r.seen.ver \in Int
        BY <2>3, <3>1 DEF IsUser
      <4> QED BY <1>0, <1>2, <2>3, <3>1, <4>1
    <3> QED BY <2>6, <3>1
  <2>8. RequestOK(x, v)
    BY <2>3, <2>4, <2>6, <2>7, Zenon DEF RequestOK
  <2>9. x = [r EXCEPT !.dead = @ \/ r.pc = "right"]
    BY <2>1, <2>2, Zenon
  <2> QED BY <2>8, <2>9, Zenon
<1> QED BY <1>1, <1>2

\* What a committed request goes on with: a password change hands out a session of the
\* row it wrote.
LEMMA AfterCommitOK ==
  ASSUME SessInv, NEW p \in Proc, tx[p].pc = "written"
  PROVE  /\ RequestOK(AfterCommit(p), tx[p].row) /\ AfterCommit(p).bumps = 0
         /\ AfterCommit(p).pc # "written"
<1>1. RequestOK(tx[p], user)
  BY DEF SessInv, RequestsOK
<1>2. IsUser(tx[p].row)
  BY <1>1 DEF RequestOK
<1>3. CASE tx[p].op # "change"
  <2>1. AfterCommit(p) = Idle
    BY <1>3, Zenon DEF AfterCommit
  <2> QED BY <2>1, IdleOK, IdleFields
<1>4. CASE tx[p].op = "change"
  <2>1. PICK row, x : row = tx[p].row /\ x = [Idle EXCEPT !.pc = "right", !.op = "change", !.seen = row]
    OBVIOUS
  <2>2. AfterCommit(p) = x
    BY <1>4, <2>1, Zenon DEF AfterCommit
  <2>3. x = [pc |-> "right", op |-> "change", seen |-> row, new |-> None, active |-> None,
             bumps |-> 0, row |-> None, dead |-> FALSE]
    BY <2>1, Zenon DEF Idle
  <2>4. /\ x = [pc |-> x.pc, op |-> x.op, seen |-> x.seen, new |-> x.new, active |-> x.active,
                bumps |-> x.bumps, row |-> x.row, dead |-> x.dead]
        /\ x.pc = "right" /\ x.seen = row /\ x.bumps = 0 /\ x.dead = FALSE
    BY <2>3, Zenon
  <2>5. IsUser(row) /\ row.ver <= row.ver
    BY <1>2, <2>1 DEF IsUser
  <2>6. x.pc \in Pcs /\ x.pc # "written" /\ x.pc # "loaded" /\ x.bumps \in Nat
    BY <2>4 DEF Pcs
  <2>7. x.dead \in BOOLEAN
    BY <2>4, Zenon
  <2>8. RequestOK(x, row)
    BY <2>4, <2>5, <2>6, <2>7, Zenon DEF RequestOK
  <2> QED BY <2>1, <2>2, <2>4, <2>6, <2>8
<1> QED BY <1>3, <1>4

\* A commit of the row: an increment ends every session there is and every one about to
\* be handed out.
LEMMA CommitKeeps == ASSUME SessInv, NEW p \in Proc, Commit(p) PROVE SessInv'
<1>1. PICK y, row, x : y = tx[p] /\ row = tx[p].row /\ x = AfterCommit(p)
  OBVIOUS
<1>2. y.pc = "written" /\ user' = row /\ rowLock' = None
  BY <1>1 DEF Commit
<1>3. RequestOK(x, row) /\ x.bumps = 0 /\ x.pc # "written"
  BY <1>1, <1>2, AfterCommitOK
<1>4. RequestOK(y, user) /\ rowLock = p /\ \A q \in Proc : q # p => RequestOK(tx[q], user) /\ tx[q].pc # "written"
  BY <1>1, <1>2 DEF SessInv, RequestsOK
<1>5. IsUser(row) /\ row.ver = user.ver + y.bumps /\ (y.bumps = 0 => row.hash = user.hash) /\ y.bumps \in Nat
  BY <1>1, <1>2, <1>4 DEF RequestOK
<1>6. IsUser(user) /\ user.ver \in Nat
  BY DEF SessInv, IsUser
<1>7. CASE y.bumps = 0
  <2>1. tx' = [tx EXCEPT ![p] = x] /\ tokens' = tokens
    BY <1>1, <1>7 DEF Commit
  <2>2. row.ver = user.ver /\ row.hash = user.hash
    BY <1>5, <1>6, <1>7
  <2>3. tx'[p] = x /\ (\A q \in Proc : q # p => tx'[q] = tx[q]) /\ tx' = [q \in Proc |-> tx'[q]]
    BY <2>1 DEF SessInv, RequestsOK
  <2>4. ASSUME NEW q \in Proc PROVE RequestOK(tx'[q], row) /\ tx'[q].pc # "written"
    <3>1. CASE q = p
      BY <1>3, <2>3, <3>1
    <3>2. CASE q # p
      <4>1. RequestOK(tx[q], user) /\ tx[q].pc # "written" /\ tx'[q] = tx[q]
        BY <1>4, <2>3, <3>2
      <4>2. RequestOK(tx[q], row)
        BY <1>5, <1>6, <2>2, <4>1, OtherKeeps
      <4> QED BY <4>1, <4>2
    <3> QED BY <3>1, <3>2
  <2>5. RequestsOK'
    BY <1>2, <2>3, <2>4, ProcAssumption DEF RequestsOK
  <2>6. user'.ver + VersionsDue' <= MaxVersion
    <3>1. (\A q \in Proc : tx[q].bumps \in Nat) /\ tx'[p].bumps = 0
          /\ \A q \in Proc : q # p => tx'[q].bumps = tx[q].bumps
      BY <1>3, <2>3 DEF SessInv, RequestsOK, RequestOK
    <3>2. VersionsDue' = VersionsDue - tx[p].bumps + tx'[p].bumps
      BY <3>1, DueChange
    <3>3. VersionsDue \in Nat
      BY <3>1, DueType
    <3>4. VersionsDue' = VersionsDue
      BY <1>1, <1>7, <3>1, <3>2, <3>3
    <3>5. user.ver + VersionsDue <= MaxVersion
      BY DEF SessInv
    <3> QED BY <1>2, <2>2, <3>4, <3>5
  <2>7. \A t \in tokens' : SessionOK(t, user')
    BY <1>2, <2>1, <2>2 DEF SessInv, SessionOK
  <2> QED BY <1>2, <1>5, <2>5, <2>6, <2>7 DEF SessInv
<1>8. CASE y.bumps # 0
  <2>1. tx' = [q \in Proc |-> IF q = p THEN x ELSE Revoked(q)]
        /\ tokens' = Kept({[t EXCEPT !.dead = TRUE] : t \in tokens}, row)
    BY <1>1, <1>8 DEF Commit
  <2>2. row.ver > user.ver
    BY <1>5, <1>6, <1>8
  <2>3. /\ tx'[p] = x /\ (\A q \in Proc : q # p => tx'[q] = [tx[q] EXCEPT !.dead = @ \/ tx[q].pc = "right"])
        /\ tx' = [q \in Proc |-> tx'[q]]
    BY <2>1 DEF Revoked
  <2>4. ASSUME NEW q \in Proc, q # p PROVE RequestOK(tx'[q], row) /\ tx'[q].pc = tx[q].pc /\ tx'[q].bumps = tx[q].bumps
    <3>1. PICK r : r = tx[q]
      OBVIOUS
    <3>2. RequestOK(r, user) /\ r.pc # "written" /\ tx'[q] = [r EXCEPT !.dead = @ \/ r.pc = "right"]
      BY <1>4, <2>3, <2>4, <3>1
    <3>3. RequestOK(tx'[q], row)
      BY <1>5, <1>6, <2>2, <3>2, OtherKeeps
    <3>4. r = [pc |-> r.pc, op |-> r.op, seen |-> r.seen, new |-> r.new, active |-> r.active,
               bumps |-> r.bumps, row |-> r.row, dead |-> r.dead]
      BY <3>2 DEF RequestOK
    <3>5. PICK b : b = (r.dead \/ r.pc = "right")
      OBVIOUS
    <3>6. PICK z : z = [r EXCEPT !.dead = b]
      OBVIOUS
    <3>7. z.pc = r.pc /\ z.bumps = r.bumps
      BY <3>4, <3>6
    <3>8. tx'[q] = z
      BY <3>2, <3>5, <3>6, Zenon
    <3> QED BY <3>1, <3>3, <3>7, <3>8
  <2>5. RequestsOK'
    <3>1. ASSUME NEW q \in Proc PROVE RequestOK(tx'[q], user') /\ (tx'[q].pc = "written" <=> rowLock' = q)
      <4>1. rowLock' # q
        BY <1>2, ProcAssumption
      <4>2. CASE q = p
        BY <1>2, <1>3, <2>3, <4>1, <4>2
      <4>3. CASE q # p
        <5>1. RequestOK(tx'[q], row) /\ tx'[q].pc # "written"
          BY <1>4, <2>4, <4>3
        <5> QED BY <1>2, <4>1, <5>1, Zenon
      <4> QED BY <4>2, <4>3
    <3> QED BY <2>3, <3>1 DEF RequestsOK
  <2>6. user'.ver + VersionsDue' <= MaxVersion
    <3>1. (\A q \in Proc : tx[q].bumps \in Nat) /\ tx'[p].bumps = 0
      BY <1>3, <2>3 DEF SessInv, RequestsOK, RequestOK
    <3>a. \A q \in Proc : q # p => tx'[q].bumps = tx[q].bumps
      BY <2>4
    <3>2. VersionsDue' = VersionsDue - tx[p].bumps + tx'[p].bumps
      BY <3>1, <3>a, DueChange
    <3>3. VersionsDue \in Nat
      BY <3>1, DueType
    <3>4. VersionsDue' = VersionsDue - y.bumps
      BY <1>1, <1>5, <3>1, <3>2, <3>3
    <3>5. user.ver + VersionsDue <= MaxVersion /\ MaxVersion \in Nat
      BY BoundAssumption DEF SessInv
    <3>6. user'.ver = user.ver + y.bumps
      BY <1>2, <1>5
    <3> QED BY <1>5, <1>6, <3>3, <3>4, <3>5, <3>6
  <2>7. tokens' = {}
    <3> SUFFICES ASSUME NEW t \in tokens' PROVE FALSE
      OBVIOUS
    <3>1. PICK s \in tokens : t = [s EXCEPT !.dead = TRUE]
      BY <2>1 DEF Kept
    <3>2. s = [ver |-> user.ver, hash |-> user.hash, dead |-> FALSE]
      BY <3>1 DEF SessInv, SessionOK
    <3>3. t.ver = user.ver
      BY <3>1, <3>2
    <3>4. t.ver >= row.ver
      BY <2>1 DEF Kept
    <3>5. row.ver \in Int
      BY <1>5 DEF IsUser
    <3> QED BY <1>6, <2>2, <3>3, <3>4, <3>5
  <2> QED BY <1>2, <1>5, <2>5, <2>6, <2>7 DEF SessInv
<1> QED BY <1>7, <1>8

\* Every step keeps what is known of the row.
LEMMA NextSess == SessInv /\ [SignInNext]_signInVars => SessInv'
<1> SUFFICES ASSUME SessInv, [SignInNext]_signInVars PROVE SessInv'
  OBVIOUS
<1>1. ASSUME UNCHANGED <<user, rowLock, tx>>, tokens' \subseteq tokens PROVE SessInv'
  <2>1. VersionsDue' = VersionsDue
    BY <1>1 DEF VersionsDue
  <2> QED BY <1>1, <2>1 DEF SessInv, RequestsOK
<1>2. CASE UNCHANGED signInVars
  BY <1>1, <1>2 DEF signInVars
<1>3. CASE Unlock \/ Expire \/ (\E row \in pending : LandRow(row)) \/ \E t \in tokens : DropToken(t)
  BY <1>1, <1>3 DEF Unlock, Expire, LandRow, DropToken
<1>4. ASSUME NEW p \in Proc, RecordFailure(p) \/ RefuseDisabled(p) \/ Abort(p) PROVE SessInv'
  <2>1. tx' = [tx EXCEPT ![p] = Idle] /\ UNCHANGED <<user, tokens>>
    BY <1>4 DEF RecordFailure, RefuseDisabled, Abort
  <2>2. CASE Abort(p)
    <3>1. rowLock' = IF rowLock = p THEN None ELSE rowLock
      BY <2>2 DEF Abort
    <3> QED BY <2>1, <3>1, EndsRequest DEF SessInv
  <2>3. CASE RecordFailure(p) \/ RefuseDisabled(p)
    <3>1. tx[p].pc # "written" /\ rowLock' = rowLock
      BY <2>3 DEF RecordFailure, RefuseDisabled
    <3>2. rowLock # p
      BY <3>1, NotHolder
    <3> QED BY <2>1, <3>1, <3>2, EndsRequest DEF SessInv
  <2> QED BY <1>4, <2>2, <2>3
<1>5. ASSUME NEW p \in Proc, NEW w \in Password, BeginChange(p, w) PROVE SessInv'
  <2>1. BeginWrite(p, "change", w, None, 1)
    BY <1>5 DEF BeginChange
  <2> QED BY <2>1, BeginWriteKeeps
<1>6. ASSUME NEW p \in Proc, BeginForceLogout(p) PROVE SessInv'
  <2>1. BeginWrite(p, "force", None, None, 1)
    BY <1>6 DEF BeginForceLogout
  <2> QED BY <2>1, BeginWriteKeeps
<1> QED BY <1>2, <1>3, <1>4, <1>5, <1>6, BeginLoginKeeps, VerifyKeeps, IssueKeeps, BeginUpdateKeeps,
           UpdateRowKeeps, CommitKeeps DEF SignInNext

-----------------------------------------------------------------------------
(* The rows of the log. *)

LogTypes ==
  /\ log \in Seq(FailedRows \cup ResetRows) /\ Len(log) <= MaxRows
  /\ pending \subseteq {"SUCCESS", "DISABLED"}

\* What is written is a row of the log, and so is what is left of it.
LEMMA NextLogTypes == LogTypes /\ [SignInNext]_signInVars => LogTypes'
<1> SUFFICES ASSUME LogTypes, [SignInNext]_signInVars PROVE LogTypes'
  OBVIOUS
<1>1. CASE UNCHANGED <<log, pending>>
  BY <1>1 DEF LogTypes
<1>2. ASSUME NEW l, l \in Seq(FailedRows \cup ResetRows), Write(l) \/ UNCHANGED log, pending' \subseteq pending
      PROVE  LogTypes'
  BY <1>2 DEF LogTypes, Write
<1>3. \A l \in Seq(FailedRows \cup ResetRows), row \in FailedRows \cup ResetRows :
        Append(l, row) \in Seq(FailedRows \cup ResetRows)
  OBVIOUS
<1>4. CASE Unlock
  <2>1. Append(log, "UNLOCKED") \in Seq(FailedRows \cup ResetRows)
    BY <1>3 DEF LogTypes, ResetRows
  <2> QED BY <1>2, <1>4, <2>1 DEF Unlock
<1>5. CASE Expire
  <2>1. log # <<>> /\ log' = Tail(log) /\ pending' = pending
    BY <1>5 DEF Expire
  <2>2. Tail(log) \in Seq(FailedRows \cup ResetRows) /\ Len(Tail(log)) = Len(log) - 1 /\ Len(log) \in Nat
    BY <2>1, HeadTailProperties DEF LogTypes
  <2> QED BY <2>1, <2>2, BoundAssumption DEF LogTypes
<1>6. ASSUME NEW row \in pending, LandRow(row) PROVE LogTypes'
  <2>1. Append(log, row) \in Seq(FailedRows \cup ResetRows)
    BY <1>3 DEF LogTypes, ResetRows, FailedRows
  <2> QED BY <1>2, <1>6, <2>1 DEF LandRow
<1>7. ASSUME NEW p \in Proc, RecordFailure(p) PROVE LogTypes'
  <2>1. Append(log, "WRONG") \in Seq(FailedRows \cup ResetRows)
    BY <1>3 DEF LogTypes, FailedRows
  <2>2. Append(Append(log, "WRONG"), "LOCKED") \in Seq(FailedRows \cup ResetRows)
    BY <1>3, <2>1 DEF ResetRows
  <2>3. WithFailure(log) \in Seq(FailedRows \cup ResetRows)
    BY <2>1, <2>2 DEF WithFailure
  <2> QED BY <1>2, <1>7, <2>3 DEF RecordFailure
<1>8. ASSUME NEW p \in Proc, RefuseDisabled(p) \/ IssueToken(p) PROVE LogTypes'
  BY <1>8 DEF RefuseDisabled, IssueToken, Fire, LogTypes
<1>9. ASSUME NEW p \in Proc,
             \/ \E w \in Password : BeginLogin(p, w) \/ BeginChange(p, w)
             \/ VerifyLogin(p) \/ BeginForceLogout(p)
             \/ \E w \in Password \cup {None}, a \in BOOLEAN \cup {None} : BeginUpdate(p, w, a)
             \/ UpdateRow(p) \/ Commit(p) \/ Abort(p) \/ \E t \in tokens : DropToken(t)
      PROVE  UNCHANGED <<log, pending>>
  BY <1>9 DEF BeginLogin, BeginChange, VerifyLogin, BeginForceLogout, BeginUpdate, BeginWrite, UpdateRow,
              Commit, Abort, DropToken
<1>10. ASSUME NEW t \in tokens, DropToken(t) PROVE LogTypes'
  BY <1>1, <1>10 DEF DropToken
<1>11. CASE UNCHANGED signInVars
  BY <1>1, <1>11 DEF signInVars
<1> QED BY <1>1, <1>4, <1>5, <1>6, <1>7, <1>8, <1>9, <1>10, <1>11 DEF SignInNext

\* A session that is accepted was issued for the password in force and under the version
\* in force, and nothing has revoked it (deps.get_current_user, auth.change_password,
\* staff.update_staff).
THEOREM LiveSessions == SignInSpec => []OnlyLiveSessions
<1>1. SignInInit => LogTypes
  BY BoundAssumption DEF SignInInit, LogTypes
<1>2. SessInv /\ LogTypes => OnlyLiveSessions
  <2> SUFFICES ASSUME SessInv, LogTypes PROVE OnlyLiveSessions
    OBVIOUS
  <2>1. user \in UserRow
    BY DEF SessInv, IsUser, UserRow
  <2>2. ASSUME NEW t \in tokens PROVE t \in Token /\ t.dead = FALSE /\ t.hash = user.hash
    <3>1. t = [ver |-> user.ver, hash |-> user.hash, dead |-> FALSE]
      BY DEF SessInv, SessionOK
    <3>2. t.dead = FALSE
      BY <3>1, Zenon
    <3>3. user.ver \in 0..MaxVersion /\ user.hash \in Password
      BY DEF SessInv, IsUser
    <3>4. t \in Token
      BY <3>1, <3>3 DEF Token
    <3> QED BY <3>1, <3>2, <3>4
  <2>3. \A p \in Proc : tx[p].pc = "written" <=> rowLock = p
    BY DEF SessInv, RequestsOK
  <2>4. TypeOK
    BY <2>1, <2>2, <2>3 DEF TypeOK, LogTypes, SessInv
  <2> QED BY <2>2, <2>4 DEF OnlyLiveSessions
<1> QED BY <1>1, <1>2, InitSess, NextSess, NextLogTypes, PTL DEF SignInSpec

-----------------------------------------------------------------------------
(* The lockout: what is counted. *)

LogRow == FailedRows \cup ResetRows

\* The failures among the first i rows of l with no reset between them and row i.
FailedUpTo(l, i) == {k \in 1..i : l[k] \in FailedRows /\ \A j \in k + 1..i : l[j] \notin ResetRows}

\* A row that counts as a failure resets nothing.
LEMMA FailedNotReset == FailedRows \cap ResetRows = {} /\ "LOCKED" \in ResetRows /\ "WRONG" \in FailedRows
BY DEF FailedRows, ResetRows

\* A finite set of numbers that is not empty has a largest.
LEMMA LargestExists ==
  ASSUME NEW S, IsFiniteSet(S), S # {}, S \subseteq Nat
  PROVE  \E m \in S : \A y \in S : m >= y
<1> DEFINE G == {T \in SUBSET S : T = {} \/ \E m \in T : \A y \in T : m >= y}
<1>1. ASSUME NEW T \in SUBSET S, \A U \in SUBSET T : U # T => U \in G
      PROVE  T \in G
  <2>1. CASE T = {}
    BY <2>1
  <2>2. CASE T # {}
    <3>1. PICK a \in T : TRUE
      BY <2>2
    <3>2. T \ {a} \in G
      BY <1>1, <3>1
    <3>3. CASE T \ {a} = {}
      BY <3>1, <3>3
    <3>4. CASE T \ {a} # {}
      <4>1. PICK m \in T \ {a} : \A y \in T \ {a} : m >= y
        BY <3>2, <3>4
      <4>2. m \in Nat /\ a \in Nat /\ T \subseteq Nat
        BY <3>1, <4>1
      <4>3. CASE m >= a
        BY <4>1, <4>3
      <4>4. CASE ~(m >= a)
        <5>1. \A y \in T : a >= y
          BY <4>1, <4>2, <4>4
        <5> QED BY <3>1, <5>1
      <4> QED BY <4>3, <4>4
    <3> QED BY <3>3, <3>4
  <2> QED BY <2>1, <2>2
<1> HIDE DEF G
<1>2. S \in G
  BY <1>1, SubsetInduction
<1> QED BY <1>2 DEF G

\* The last reset of a log: no row after it resets.
LEMMA LastResetIs ==
  ASSUME NEW l, NEW n \in Nat, DOMAIN l = 1..n
  PROVE  /\ LastReset(l) \in 0..n /\ \A i \in 1..n : l[i] \in ResetRows => i <= LastReset(l)
         /\ LastReset(l) # 0 => l[LastReset(l)] \in ResetRows
<1> DEFINE S == {0} \cup {i \in DOMAIN l : l[i] \in ResetRows}
<1>1. S \subseteq 0..n /\ S # {} /\ S \subseteq Nat
  OBVIOUS
<1>2. IsFiniteSet(0..n)
  BY FS_Interval
<1>3. IsFiniteSet(S)
  BY <1>1, <1>2, FS_Subset
<1>4. LastReset(l) = Max(S)
  BY DEF LastReset
<1>5. \A i \in 1..n : l[i] \in ResetRows => i \in S
  OBVIOUS
<1>6. \A i \in S : i # 0 => l[i] \in ResetRows
  OBVIOUS
<1> HIDE DEF S
<1>7. \E m \in S : \A y \in S : m >= y
  BY <1>1, <1>3, LargestExists
<1>8. Max(S) \in S /\ \A y \in S : Max(S) >= y
  BY <1>7 DEF Max
<1> QED BY <1>1, <1>4, <1>5, <1>6, <1>8

\* The failures counted are those no later row has reset.
LEMMA FailuresAre ==
  ASSUME NEW l, NEW n \in Nat, DOMAIN l = 1..n
  PROVE  Failures(l) = Cardinality(FailedUpTo(l, n))
<1>1. /\ LastReset(l) \in 0..n /\ \A i \in 1..n : l[i] \in ResetRows => i <= LastReset(l)
      /\ LastReset(l) # 0 => l[LastReset(l)] \in ResetRows
  BY LastResetIs
<1> DEFINE S == {i \in DOMAIN l : i > LastReset(l) /\ l[i] \in FailedRows}
<1>2. ASSUME NEW k \in 1..n, l[k] \in FailedRows
      PROVE  k > LastReset(l) <=> \A j \in k + 1..n : l[j] \notin ResetRows
  <2>1. ASSUME k > LastReset(l), NEW j \in k + 1..n PROVE l[j] \notin ResetRows
    <3>1. j \in 1..n /\ j > LastReset(l)
      BY <1>1, <2>1
    <3> QED BY <1>1, <3>1
  <2>2. ASSUME \A j \in k + 1..n : l[j] \notin ResetRows PROVE k > LastReset(l)
    <3>1. l[k] \notin ResetRows
      BY <1>2, FailedNotReset
    <3>2. CASE LastReset(l) = 0
      BY <3>2
    <3>3. CASE LastReset(l) # 0
      <4>1. l[LastReset(l)] \in ResetRows
        BY <1>1, <3>3
      <4>2. LastReset(l) # k /\ LastReset(l) \notin k + 1..n
        BY <2>2, <3>1, <4>1
      <4> QED BY <1>1, <4>2
    <3> QED BY <3>2, <3>3
  <2> QED BY <2>1, <2>2
<1>3. S = FailedUpTo(l, n)
  BY <1>2 DEF FailedUpTo
<1> QED BY <1>3 DEF Failures

\* Cardinalities of sets of places in a log.
LEMMA PlacesFinite == ASSUME NEW n \in Nat, NEW S, S \subseteq 1..n PROVE IsFiniteSet(S) /\ Cardinality(S) \in Nat
<1>1. IsFiniteSet(1..n)
  BY FS_Interval
<1>2. IsFiniteSet(S)
  BY <1>1, FS_Subset
<1> QED BY <1>2, FS_CardinalityType

\* Places that all move down by one are as many.
LEMMA ShiftDown ==
  ASSUME NEW n \in Nat, NEW S, NEW T, S \subseteq Int, T \subseteq 1..n, \A k \in S : k + 1 \in T
  PROVE  IsFiniteSet(S) /\ Cardinality(S) <= Cardinality(T)
<1> DEFINE f == [k \in S |-> k + 1]
<1>1. f \in Injection(S, T)
  BY DEF Injection, IsInjective
<1> HIDE DEF f
<1>2. IsFiniteSet(T)
  BY PlacesFinite
<1> QED BY <1>1, <1>2, FS_Injection

\* Places that all move up by one are as many.
LEMMA ShiftUp ==
  ASSUME NEW n \in Nat, NEW S, NEW T, S \subseteq Int, T \subseteq 1..n, \A k \in S : k - 1 \in T
  PROVE  IsFiniteSet(S) /\ Cardinality(S) <= Cardinality(T)
<1> DEFINE f == [k \in S |-> k - 1]
<1>1. f \in Injection(S, T)
  BY DEF Injection, IsInjective
<1> HIDE DEF f
<1>2. IsFiniteSet(T)
  BY PlacesFinite
<1> QED BY <1>1, <1>2, FS_Injection

-----------------------------------------------------------------------------
(* One lock for every threshold of failures. *)

\* A log of n rows that locks at once, and never twice for the same failures.
LocksInTime(l, n) ==
  \A i \in 1..n : l[i] = "WRONG" /\ Cardinality(FailedUpTo(l, i)) >= Threshold => i < n /\ l[i + 1] = "LOCKED"
LocksApart(l, n) ==
  \A i \in 1..n, j \in 1..n :
    j < i /\ l[i] = "LOCKED" /\ l[j] = "LOCKED" => Cardinality({k \in j..i : l[k] \in FailedRows}) >= Threshold
LockLog(l) == LocksInTime(l, Len(l)) /\ LocksApart(l, Len(l))

\* That is what the property says.
LEMMA LockLogIs == ASSUME log \in Seq(LogRow) PROVE LockLog(log) => OneLockPerThreshold
<1> SUFFICES ASSUME LockLog(log) PROVE OneLockPerThreshold
  OBVIOUS
<1> DEFINE n == Len(log)
<1>1. n \in Nat /\ DOMAIN log = 1..n
  OBVIOUS
<1>2. ASSUME NEW i \in 1..n PROVE Failures(SubSeq(log, 1, i)) = Cardinality(FailedUpTo(log, i))
  <2>1. PICK s : s = SubSeq(log, 1, i)
    OBVIOUS
  <2>2. DOMAIN s = 1..i /\ i \in Nat /\ \A k \in 1..i : s[k] = log[k]
    BY <1>1, <2>1
  <2>3. FailedUpTo(s, i) = FailedUpTo(log, i)
    BY <2>2 DEF FailedUpTo
  <2>4. Failures(s) = Cardinality(FailedUpTo(s, i))
    BY <2>2, FailuresAre
  <2> QED BY <2>1, <2>3, <2>4
<1>3. ASSUME NEW i \in DOMAIN log, log[i] = "WRONG", Failures(SubSeq(log, 1, i)) >= Threshold
      PROVE  i < Len(log) /\ log[i + 1] = "LOCKED"
  <2>1. i \in 1..n /\ Cardinality(FailedUpTo(log, i)) >= Threshold
    BY <1>1, <1>2, <1>3
  <2> QED BY <1>3, <2>1 DEF LockLog, LocksInTime
<1>4. ASSUME NEW i \in DOMAIN log, NEW j \in 1..i - 1, log[i] = "LOCKED", log[j] = "LOCKED"
      PROVE  Cardinality({k \in j..i : log[k] \in FailedRows}) >= Threshold
  <2>1. i \in 1..n /\ j \in 1..n /\ j < i
    BY <1>1
  <2> QED BY <1>4, <2>1 DEF LockLog, LocksApart
<1> QED BY <1>3, <1>4 DEF OneLockPerThreshold

\* A row that neither counts nor locks.
LEMMA AppendOther ==
  ASSUME NEW l \in Seq(LogRow), NEW row \in LogRow, row # "WRONG", row # "LOCKED", LockLog(l)
  PROVE  LockLog(Append(l, row))
<1>1. PICK s, n : s = Append(l, row) /\ n = Len(l)
  OBVIOUS
<1>2. n \in Nat /\ Len(s) = n + 1 /\ s[n + 1] = row /\ \A k \in 1..n : s[k] = l[k]
  BY <1>1
<1>3. \A i \in 1..n : FailedUpTo(s, i) = FailedUpTo(l, i)
  BY <1>2 DEF FailedUpTo
<1>4. LocksInTime(s, n + 1)
  <2> SUFFICES ASSUME NEW i \in 1..n + 1, s[i] = "WRONG", Cardinality(FailedUpTo(s, i)) >= Threshold
               PROVE  i < n + 1 /\ s[i + 1] = "LOCKED"
    BY DEF LocksInTime
  <2>1. i \in 1..n /\ l[i] = "WRONG" /\ Cardinality(FailedUpTo(l, i)) >= Threshold
    BY <1>2, <1>3
  <2>2. i < n /\ l[i + 1] = "LOCKED"
    BY <1>1, <2>1 DEF LockLog, LocksInTime
  <2> QED BY <1>2, <2>2
<1>5. LocksApart(s, n + 1)
  <2> SUFFICES ASSUME NEW i \in 1..n + 1, NEW j \in 1..n + 1, j < i, s[i] = "LOCKED", s[j] = "LOCKED"
               PROVE  Cardinality({k \in j..i : s[k] \in FailedRows}) >= Threshold
    BY DEF LocksApart
  <2>1. i \in 1..n /\ j \in 1..n /\ l[i] = "LOCKED" /\ l[j] = "LOCKED"
    BY <1>2
  <2>2. Cardinality({k \in j..i : l[k] \in FailedRows}) >= Threshold
    BY <1>1, <2>1 DEF LockLog, LocksApart
  <2>3. {k \in j..i : l[k] \in FailedRows} = {k \in j..i : s[k] \in FailedRows}
    BY <1>2, <2>1
  <2> QED BY <2>2, <2>3
<1> QED BY <1>1, <1>2, <1>4, <1>5 DEF LockLog

\* A failure, and the lock when it is one too many.
LEMMA AppendFailure ==
  ASSUME NEW l \in Seq(LogRow), LockLog(l)
  PROVE  LockLog(WithFailure(l))
<1>1. PICK s, n : s = Append(l, "WRONG") /\ n = Len(l)
  OBVIOUS
<1>2. n \in Nat /\ Len(s) = n + 1 /\ s[n + 1] = "WRONG" /\ (\A k \in 1..n : s[k] = l[k]) /\ s \in Seq(LogRow)
      /\ DOMAIN s = 1..(n + 1)
  BY <1>1, FailedNotReset DEF LogRow
<1>3. \A i \in 1..n : FailedUpTo(s, i) = FailedUpTo(l, i)
  BY <1>2 DEF FailedUpTo
<1>4. Failures(s) = Cardinality(FailedUpTo(s, n + 1))
  BY <1>2, FailuresAre
<1>5. \A i \in 1..n : s[i] = "WRONG" /\ Cardinality(FailedUpTo(s, i)) >= Threshold => i < n /\ s[i + 1] = "LOCKED"
  BY <1>1, <1>2, <1>3 DEF LockLog, LocksInTime
<1>6. \A i \in 1..n, j \in 1..n :
        j < i /\ s[i] = "LOCKED" /\ s[j] = "LOCKED" => Cardinality({k \in j..i : s[k] \in FailedRows}) >= Threshold
  <2> SUFFICES ASSUME NEW i \in 1..n, NEW j \in 1..n, j < i, s[i] = "LOCKED", s[j] = "LOCKED"
               PROVE  Cardinality({k \in j..i : s[k] \in FailedRows}) >= Threshold
    OBVIOUS
  <2>1. l[i] = "LOCKED" /\ l[j] = "LOCKED"
    BY <1>2
  <2>2. Cardinality({k \in j..i : l[k] \in FailedRows}) >= Threshold
    BY <1>1, <2>1 DEF LockLog, LocksApart
  <2>3. {k \in j..i : l[k] \in FailedRows} = {k \in j..i : s[k] \in FailedRows}
    BY <1>2
  <2> QED BY <2>2, <2>3
<1>7. CASE ~(Failures(s) >= Threshold)
  <2>1. WithFailure(l) = s
    BY <1>1, <1>7 DEF WithFailure
  <2>2. LocksInTime(s, n + 1)
    <3> SUFFICES ASSUME NEW i \in 1..n + 1, s[i] = "WRONG", Cardinality(FailedUpTo(s, i)) >= Threshold
                 PROVE  i < n + 1 /\ s[i + 1] = "LOCKED"
      BY DEF LocksInTime
    <3>1. i # n + 1
      BY <1>4, <1>7
    <3>2. i < n /\ s[i + 1] = "LOCKED"
      BY <1>2, <1>5, <3>1
    <3> QED BY <1>2, <3>2
  <2>3. LocksApart(s, n + 1)
    <3> SUFFICES ASSUME NEW i \in 1..n + 1, NEW j \in 1..n + 1, j < i, s[i] = "LOCKED", s[j] = "LOCKED"
                 PROVE  Cardinality({k \in j..i : s[k] \in FailedRows}) >= Threshold
      BY DEF LocksApart
    <3>1. i \in 1..n /\ j \in 1..n
      BY <1>2
    <3> QED BY <1>6, <3>1
  <2> QED BY <1>2, <2>1, <2>2, <2>3 DEF LockLog
<1>8. CASE Failures(s) >= Threshold
  <2>1. PICK z : z = Append(s, "LOCKED")
    OBVIOUS
  <2>2. WithFailure(l) = z
    BY <1>1, <1>8, <2>1 DEF WithFailure
  <2>3. Len(z) = n + 2 /\ z[n + 2] = "LOCKED" /\ \A k \in 1..n + 1 : z[k] = s[k]
    BY <1>2, <2>1
  <2>4. \A i \in 1..n : FailedUpTo(z, i) = FailedUpTo(s, i)
    BY <1>2, <2>3 DEF FailedUpTo
  <2>5. LocksInTime(z, n + 2)
    <3> SUFFICES ASSUME NEW i \in 1..n + 2, z[i] = "WRONG", Cardinality(FailedUpTo(z, i)) >= Threshold
                 PROVE  i < n + 2 /\ z[i + 1] = "LOCKED"
      BY DEF LocksInTime
    <3>1. CASE i = n + 1
      BY <1>2, <2>3, <3>1
    <3>2. CASE i # n + 1
      <4>1. i \in 1..n /\ s[i] = "WRONG" /\ Cardinality(FailedUpTo(s, i)) >= Threshold
        BY <1>2, <2>3, <2>4, <3>2
      <4>2. i < n /\ s[i + 1] = "LOCKED"
        BY <1>5, <4>1
      <4> QED BY <1>2, <2>3, <4>2
    <3> QED BY <3>1, <3>2
  <2>6. LocksApart(z, n + 2)
    <3> SUFFICES ASSUME NEW i \in 1..n + 2, NEW j \in 1..n + 2, j < i, z[i] = "LOCKED", z[j] = "LOCKED"
                 PROVE  Cardinality({k \in j..i : z[k] \in FailedRows}) >= Threshold
      BY DEF LocksApart
    <3>1. j \in 1..n
      BY <1>2, <2>3
    <3>2. CASE i = n + 2
      <4> DEFINE A == FailedUpTo(s, n + 1)
                 B == {k \in j..i : z[k] \in FailedRows}
      <4>1. A \subseteq B
        <5> SUFFICES ASSUME NEW k \in 1..n + 1, s[k] \in FailedRows, \A m \in k + 1..n + 1 : s[m] \notin ResetRows
                     PROVE  k \in j..i /\ z[k] \in FailedRows
          BY DEF FailedUpTo
        <5>1. j \in 1..n + 1
          BY <1>2, <3>1
        <5>2. s[j] = "LOCKED"
          BY <2>3, <5>1
        <5>3. j \notin k + 1..n + 1
          BY <5>2, FailedNotReset
        <5>4. ~(k < j)
          BY <1>2, <5>1, <5>3
        <5> QED BY <1>2, <2>3, <3>1, <3>2, <5>4
      <4>2. B \subseteq 1..(n + 2)
        BY <1>2, <3>1, <3>2
      <4> HIDE DEF A, B
      <4>a. n + 2 \in Nat
        BY <1>2
      <4>3. IsFiniteSet(B)
        BY <4>2, <4>a, PlacesFinite
      <4>4. IsFiniteSet(A) /\ Cardinality(A) <= Cardinality(B)
        BY <4>1, <4>3, FS_Subset
      <4>5. Cardinality(A) \in Nat /\ Cardinality(B) \in Nat
        BY <4>3, <4>4, FS_CardinalityType
      <4>6. Cardinality(A) >= Threshold
        BY <1>4, <1>8 DEF A
      <4>7. Cardinality(B) >= Threshold
        BY <4>4, <4>5, <4>6, ThresholdAssumption
      <4> QED BY <4>7 DEF B
    <3>3. CASE i # n + 2
      <4>1. i \in 1..n /\ s[i] = "LOCKED" /\ s[j] = "LOCKED"
        BY <1>2, <2>3, <3>1, <3>3
      <4>2. Cardinality({k \in j..i : s[k] \in FailedRows}) >= Threshold
        BY <1>6, <3>1, <4>1
      <4>3. {k \in j..i : s[k] \in FailedRows} = {k \in j..i : z[k] \in FailedRows}
        BY <1>2, <2>3, <3>1, <4>1
      <4> QED BY <4>2, <4>3
    <3> QED BY <3>2, <3>3
  <2> QED BY <1>2, <2>2, <2>3, <2>5, <2>6 DEF LockLog
<1> QED BY <1>7, <1>8

\* What is left when the oldest row has gone.
LEMMA TailKeeps ==
  ASSUME NEW l \in Seq(LogRow), l # <<>>, LockLog(l)
  PROVE  LockLog(Tail(l))
<1>1. PICK s, n : s = Tail(l) /\ n = Len(s)
  OBVIOUS
<1>2. s \in Seq(LogRow) /\ n \in Nat /\ Len(l) = n + 1 /\ \A k \in 1..n : s[k] = l[k + 1]
  BY <1>1, HeadTailProperties
<1>3. ASSUME NEW i \in 1..n
      PROVE  /\ Cardinality(FailedUpTo(s, i)) <= Cardinality(FailedUpTo(l, i + 1))
             /\ Cardinality(FailedUpTo(s, i)) \in Nat /\ Cardinality(FailedUpTo(l, i + 1)) \in Nat
  <2>1. FailedUpTo(s, i) \subseteq 1..n /\ FailedUpTo(l, i + 1) \subseteq 1..(n + 1)
    BY <1>2 DEF FailedUpTo
  <2>2. ASSUME NEW k \in FailedUpTo(s, i) PROVE k + 1 \in FailedUpTo(l, i + 1)
    <3>1. k \in 1..i /\ s[k] \in FailedRows /\ \A j \in k + 1..i : s[j] \notin ResetRows
      BY DEF FailedUpTo
    <3>2. ASSUME NEW j \in k + 1 + 1..i + 1 PROVE l[j] \notin ResetRows
      <4>1. j - 1 \in k + 1..i /\ j - 1 \in 1..n /\ j - 1 + 1 = j
        BY <3>1, <1>2
      <4> QED BY <1>2, <3>1, <4>1
    <3>3. k + 1 \in 1..i + 1 /\ l[k + 1] \in FailedRows
      BY <1>2, <3>1
    <3> QED BY <3>2, <3>3 DEF FailedUpTo
  <2>3. FailedUpTo(s, i) \subseteq Int /\ n + 1 \in Nat
    BY <1>2, <2>1
  <2>4. Cardinality(FailedUpTo(s, i)) <= Cardinality(FailedUpTo(l, i + 1))
    BY <2>1, <2>2, <2>3, ShiftDown
  <2> QED BY <1>2, <2>1, <2>3, <2>4, PlacesFinite
<1>4. LocksInTime(s, n)
  <2> SUFFICES ASSUME NEW i \in 1..n, s[i] = "WRONG", Cardinality(FailedUpTo(s, i)) >= Threshold
               PROVE  i < n /\ s[i + 1] = "LOCKED"
    BY DEF LocksInTime
  <2>1. Cardinality(FailedUpTo(l, i + 1)) >= Threshold
    BY <1>3, ThresholdAssumption
  <2>2. i + 1 \in 1..(n + 1) /\ l[i + 1] = "WRONG"
    BY <1>2
  <2>3. i + 1 < n + 1 /\ l[i + 1 + 1] = "LOCKED"
    BY <1>2, <2>1, <2>2 DEF LockLog, LocksInTime
  <2>4. i + 1 \in 1..n
    BY <1>2, <2>3
  <2> QED BY <1>2, <2>3, <2>4
<1>5. LocksApart(s, n)
  <2> SUFFICES ASSUME NEW i \in 1..n, NEW j \in 1..n, j < i, s[i] = "LOCKED", s[j] = "LOCKED"
               PROVE  Cardinality({k \in j..i : s[k] \in FailedRows}) >= Threshold
    BY DEF LocksApart
  <2> DEFINE A == {k \in j + 1..i + 1 : l[k] \in FailedRows}
             B == {k \in j..i : s[k] \in FailedRows}
  <2>1. i + 1 \in 1..(n + 1) /\ j + 1 \in 1..(n + 1) /\ j + 1 < i + 1 /\ l[i + 1] = "LOCKED" /\ l[j + 1] = "LOCKED"
    BY <1>2
  <2>2. Cardinality(A) >= Threshold
    BY <1>2, <2>1 DEF LockLog, LocksApart
  <2>3. A \subseteq 1..(n + 1) /\ B \subseteq 1..n /\ A \subseteq Int
    BY <1>2
  <2>4. ASSUME NEW k \in A PROVE k - 1 \in B
    <3>1. k - 1 \in j..i /\ k - 1 \in 1..n /\ k - 1 + 1 = k
      BY <1>2
    <3>2. s[k - 1] = l[k]
      BY <1>2, <3>1
    <3> QED BY <3>1, <3>2
  <2> HIDE DEF A, B
  <2>5. Cardinality(A) <= Cardinality(B)
    BY <1>2, <2>3, <2>4, ShiftUp
  <2>a. n + 1 \in Nat
    BY <1>2
  <2>6. Cardinality(A) \in Nat /\ Cardinality(B) \in Nat
    BY <1>2, <2>3, <2>a, PlacesFinite
  <2>7. Cardinality(B) >= Threshold
    BY <2>2, <2>5, <2>6, ThresholdAssumption
  <2> QED BY <2>7 DEF B
<1> QED BY <1>1, <1>4, <1>5 DEF LockLog

-----------------------------------------------------------------------------
(* While a lock holds. *)

Holding(l, i) == l[i] = "LOCKED" /\ \A j \in i + 1..Len(l) : l[j] # "UNLOCKED"
Wrongs(l, i) == {j \in i + 1..Len(l) : l[j] = "WRONG"}
Burst(l, logins) ==
  \A i \in 1..Len(l) : Holding(l, i) => Cardinality(Wrongs(l, i)) + Cardinality(logins) < Cardinality(Proc)

\* That is what the property says.
LEMMA BurstIs == ASSUME log \in Seq(LogRow) PROVE BurstBounded <=> Burst(log, LoginsInFlight)
<1>1. DOMAIN log = 1..Len(log)
  OBVIOUS
<1> QED BY <1>1 DEF BurstBounded, Burst, Holding, Wrongs

\* Logins are as many numbers as there are, at most all the requests.
LEMMA LoginsFinite ==
  ASSUME NEW S, S \subseteq Proc
  PROVE  /\ IsFiniteSet(S) /\ Cardinality(S) \in Nat /\ Cardinality(Proc) \in Nat
         /\ \A T \in SUBSET S : IsFiniteSet(T) /\ Cardinality(T) \in Nat /\ Cardinality(T) <= Cardinality(S)
         /\ S # Proc => Cardinality(S) < Cardinality(Proc)
<1>1. IsFiniteSet(S) /\ Cardinality(S) <= Cardinality(Proc) /\ (Cardinality(Proc) = Cardinality(S) => Proc = S)
  BY ProcAssumption, FS_Subset
<1>2. Cardinality(S) \in Nat /\ Cardinality(Proc) \in Nat
  BY <1>1, ProcAssumption, FS_CardinalityType
<1>3. ASSUME NEW T \in SUBSET S PROVE IsFiniteSet(T) /\ Cardinality(T) \in Nat /\ Cardinality(T) <= Cardinality(S)
  <2>1. IsFiniteSet(T) /\ Cardinality(T) <= Cardinality(S)
    BY <1>1, FS_Subset
  <2> QED BY <2>1, FS_CardinalityType
<1> QED BY <1>1, <1>2, <1>3

\* Fewer logins in flight keep the bound, whatever row is added that is no wrong password
\* and no lock.
LEMMA BurstAppend ==
  ASSUME NEW l \in Seq(LogRow), NEW row, row # "WRONG", row # "LOCKED",
         NEW S \in SUBSET Proc, NEW T \in SUBSET S, Burst(l, S)
  PROVE  Burst(l, T) /\ Burst(Append(l, row), T)
<1>1. PICK s, n : s = Append(l, row) /\ n = Len(l)
  OBVIOUS
<1>2. n \in Nat /\ Len(s) = n + 1 /\ s[n + 1] = row /\ \A k \in 1..n : s[k] = l[k]
  BY <1>1
<1>3. Cardinality(S) \in Nat /\ Cardinality(T) \in Nat /\ Cardinality(Proc) \in Nat /\ Cardinality(T) <= Cardinality(S)
  BY LoginsFinite
<1>4. ASSUME NEW i \in 1..n, Holding(l, i)
      PROVE  Cardinality(Wrongs(l, i)) + Cardinality(T) < Cardinality(Proc)
  <2>1. Cardinality(Wrongs(l, i)) + Cardinality(S) < Cardinality(Proc)
    BY <1>1, <1>4 DEF Burst
  <2>2. Wrongs(l, i) \subseteq 1..n
    BY <1>1, <1>2 DEF Wrongs
  <2>3. Cardinality(Wrongs(l, i)) \in Nat
    BY <1>2, <2>2, PlacesFinite
  <2> QED BY <1>3, <2>1, <2>3
<1>5. ASSUME NEW i \in 1..n + 1, Holding(s, i)
      PROVE  Cardinality(Wrongs(s, i)) + Cardinality(T) < Cardinality(Proc)
  <2>1. i \in 1..n
    BY <1>2, <1>5 DEF Holding
  <2>2. Holding(l, i)
    BY <1>1, <1>2, <1>5, <2>1 DEF Holding
  <2>3. Wrongs(s, i) = Wrongs(l, i)
    <3>1. \A j \in i + 1..n : s[j] = l[j]
      BY <1>2, <2>1
    <3>2. \A j \in i + 1..n + 1 : j \in i + 1..n \/ j = n + 1
      BY <1>2, <2>1
    <3> QED BY <1>1, <1>2, <3>1, <3>2 DEF Wrongs
  <2> QED BY <1>4, <2>1, <2>2, <2>3
<1> QED BY <1>1, <1>2, <1>4, <1>5 DEF Burst

\* Fewer logins are in flight.
LEMMA BurstFewer ==
  ASSUME NEW l \in Seq(LogRow), NEW S \in SUBSET Proc, NEW T \in SUBSET S, Burst(l, S)
  PROVE  Burst(l, T)
<1>1. PICK row : row = "UNLOCKED"
  OBVIOUS
<1>2. row # "WRONG" /\ row # "LOCKED"
  BY <1>1
<1> QED BY <1>2, BurstAppend

\* The oldest row leaves.
LEMMA BurstTail ==
  ASSUME NEW l \in Seq(LogRow), l # <<>>, NEW S \in SUBSET Proc, Burst(l, S)
  PROVE  Burst(Tail(l), S)
<1>1. PICK s, n : s = Tail(l) /\ n = Len(s)
  OBVIOUS
<1>2. s \in Seq(LogRow) /\ n \in Nat /\ Len(l) = n + 1 /\ \A k \in 1..n : s[k] = l[k + 1]
  BY <1>1, HeadTailProperties
<1>3. ASSUME NEW i \in 1..n, Holding(s, i)
      PROVE  Cardinality(Wrongs(s, i)) + Cardinality(S) < Cardinality(Proc)
  <2>1. Holding(l, i + 1)
    <3>1. l[i + 1] = "LOCKED"
      BY <1>2, <1>3 DEF Holding
    <3>2. ASSUME NEW j \in i + 1 + 1..n + 1 PROVE l[j] # "UNLOCKED"
      <4>1. j - 1 \in i + 1..n /\ j - 1 \in 1..n /\ j - 1 + 1 = j
        BY <1>2
      <4>2. s[j - 1] # "UNLOCKED"
        BY <1>1, <1>3, <4>1 DEF Holding
      <4> QED BY <1>2, <4>1, <4>2
    <3> QED BY <1>2, <3>1, <3>2 DEF Holding
  <2>2. i + 1 \in 1..Len(l)
    BY <1>2
  <2>3. Cardinality(Wrongs(l, i + 1)) + Cardinality(S) < Cardinality(Proc)
    BY <2>1, <2>2 DEF Burst
  <2>4. Wrongs(s, i) \subseteq 1..n /\ Wrongs(l, i + 1) \subseteq 1..(n + 1) /\ n + 1 \in Nat /\ Wrongs(s, i) \subseteq Int
    BY <1>1, <1>2 DEF Wrongs
  <2>5. ASSUME NEW k \in Wrongs(s, i) PROVE k + 1 \in Wrongs(l, i + 1)
    <3>1. k \in i + 1..n /\ s[k] = "WRONG"
      BY <1>1 DEF Wrongs
    <3> QED BY <1>2, <3>1 DEF Wrongs
  <2>6. Cardinality(Wrongs(s, i)) <= Cardinality(Wrongs(l, i + 1))
    BY <2>4, <2>5, ShiftDown
  <2>7. Cardinality(Wrongs(s, i)) \in Nat /\ Cardinality(Wrongs(l, i + 1)) \in Nat
    BY <1>2, <2>4, PlacesFinite
  <2>8. Cardinality(S) \in Nat /\ Cardinality(Proc) \in Nat
    BY LoginsFinite
  <2> QED BY <2>3, <2>6, <2>7, <2>8
<1> QED BY <1>1, <1>3 DEF Burst

\* A wrong password is one more row and one login less; a lock it brings is new, and the
\* login that brought it is over.
LEMMA BurstFailure ==
  ASSUME NEW l \in Seq(LogRow), NEW S \in SUBSET Proc, NEW p \in S, Burst(l, S)
  PROVE  Burst(WithFailure(l), S \ {p})
<1>1. PICK s, n, T : s = Append(l, "WRONG") /\ n = Len(l) /\ T = S \ {p}
  OBVIOUS
<1>2. n \in Nat /\ Len(s) = n + 1 /\ s[n + 1] = "WRONG" /\ (\A k \in 1..n : s[k] = l[k]) /\ s \in Seq(LogRow)
  BY <1>1, FailedNotReset DEF LogRow
<1>3. IsFiniteSet(S) /\ Cardinality(S) \in Nat /\ Cardinality(Proc) \in Nat
  BY LoginsFinite
<1>4. Cardinality(T) = Cardinality(S) - 1 /\ T # Proc /\ T \subseteq Proc
  BY <1>1, <1>3, FS_RemoveElement
<1>5. Cardinality(T) \in Nat /\ Cardinality(T) < Cardinality(Proc)
  BY <1>4, LoginsFinite
<1>6. ASSUME NEW i \in 1..n, Holding(l, i)
      PROVE  Cardinality(Wrongs(l, i) \cup {n + 1}) + Cardinality(T) < Cardinality(Proc)
  <2>1. Cardinality(Wrongs(l, i)) + Cardinality(S) < Cardinality(Proc)
    BY <1>1, <1>6 DEF Burst
  <2>2. Wrongs(l, i) \subseteq 1..n
    BY <1>1, <1>2 DEF Wrongs
  <2>3. IsFiniteSet(Wrongs(l, i)) /\ Cardinality(Wrongs(l, i)) \in Nat /\ n + 1 \notin Wrongs(l, i)
    BY <1>2, <2>2, PlacesFinite
  <2>4. Cardinality(Wrongs(l, i) \cup {n + 1}) = Cardinality(Wrongs(l, i)) + 1
    BY <2>3, FS_AddElement
  <2> QED BY <1>3, <1>4, <2>1, <2>3, <2>4
<1>7. CASE ~(Failures(s) >= Threshold)
  <2>1. WithFailure(l) = s
    BY <1>1, <1>7 DEF WithFailure
  <2>2. ASSUME NEW i \in 1..n + 1, Holding(s, i)
        PROVE  Cardinality(Wrongs(s, i)) + Cardinality(T) < Cardinality(Proc)
    <3>1. i \in 1..n
      BY <1>2, <2>2 DEF Holding
    <3>2. Holding(l, i)
      BY <1>1, <1>2, <2>2, <3>1 DEF Holding
    <3>3. Wrongs(s, i) = Wrongs(l, i) \cup {n + 1}
      <4>1. \A j \in i + 1..n : s[j] = l[j]
        BY <1>2, <3>1
      <4>2. \A j : j \in i + 1..n + 1 <=> j \in i + 1..n \/ j = n + 1
        BY <1>2, <3>1
      <4> QED BY <1>1, <1>2, <4>1, <4>2 DEF Wrongs
    <3> QED BY <1>6, <3>1, <3>2, <3>3
  <2> QED BY <1>1, <1>2, <2>1, <2>2 DEF Burst
<1>8. CASE Failures(s) >= Threshold
  <2>1. PICK z : z = Append(s, "LOCKED")
    OBVIOUS
  <2>2. WithFailure(l) = z
    BY <1>1, <1>8, <2>1 DEF WithFailure
  <2>3. Len(z) = n + 2 /\ z[n + 2] = "LOCKED" /\ \A k \in 1..n + 1 : z[k] = s[k]
    BY <1>2, <2>1
  <2>4. ASSUME NEW i \in 1..n + 2, Holding(z, i)
        PROVE  Cardinality(Wrongs(z, i)) + Cardinality(T) < Cardinality(Proc)
    <3>1. CASE i = n + 2
      <4>1. Wrongs(z, i) = {}
        BY <1>2, <2>3, <3>1 DEF Wrongs
      <4>2. Cardinality(Wrongs(z, i)) = 0
        BY <4>1, FS_EmptySet
      <4> QED BY <1>5, <4>2
    <3>2. CASE i # n + 2
      <4>1. i \in 1..n
        BY <1>2, <2>3, <2>4, <3>2 DEF Holding
      <4>2. Holding(l, i)
        BY <1>1, <1>2, <2>3, <2>4, <4>1 DEF Holding
      <4>3. Wrongs(z, i) = Wrongs(l, i) \cup {n + 1}
        <5>1. \A j \in i + 1..n : z[j] = l[j]
          BY <1>2, <2>3, <4>1
        <5>2. \A j : j \in i + 1..n + 2 <=> j \in i + 1..n \/ j = n + 1 \/ j = n + 2
          BY <1>2, <4>1
        <5>3. z[n + 1] = "WRONG" /\ z[n + 2] = "LOCKED"
          BY <1>2, <2>3
        <5> QED BY <1>1, <1>2, <2>3, <5>1, <5>2, <5>3 DEF Wrongs
      <4> QED BY <1>6, <4>1, <4>2, <4>3
    <3> QED BY <3>1, <3>2
  <2> QED BY <1>1, <1>2, <2>2, <2>3, <2>4 DEF Burst
<1> QED BY <1>7, <1>8

\* No login begins while the lock holds.
LEMMA LockedIs == ASSUME log \in Seq(LogRow), ~Locked(log) PROVE \A i \in 1..Len(log) : ~Holding(log, i)
<1>1. DOMAIN log = 1..Len(log)
  OBVIOUS
<1> QED BY <1>1 DEF Locked, Holding

\* A request that goes on without trying a password adds no login.
LEMMA LoginsKeep ==
  ASSUME SessInv, [SignInNext]_signInVars, ~\E p \in Proc, w \in Password : BeginLogin(p, w)
  PROVE  LoginsInFlight' \subseteq LoginsInFlight /\ \A p \in Proc : RecordFailure(p) => p \notin LoginsInFlight'
<1>1. \A p \in Proc : tx[p] = [pc |-> tx[p].pc, op |-> tx[p].op, seen |-> tx[p].seen, new |-> tx[p].new,
                               active |-> tx[p].active, bumps |-> tx[p].bumps, row |-> tx[p].row, dead |-> tx[p].dead]
      /\ tx = [q \in Proc |-> tx[q]]
  BY DEF SessInv, RequestsOK, RequestOK
<1>2. ASSUME NEW p \in Proc, NEW x, tx' = [tx EXCEPT ![p] = x], x.pc \in {"checked", "wrong"} => p \in LoginsInFlight
      PROVE  LoginsInFlight' \subseteq LoginsInFlight
  <2>1. tx'[p] = x /\ \A q \in Proc : q # p => tx'[q] = tx[q]
    BY <1>1, <1>2
  <2> QED BY <1>2, <2>1 DEF LoginsInFlight
<1>3. ASSUME UNCHANGED tx PROVE LoginsInFlight' \subseteq LoginsInFlight
  BY <1>3 DEF LoginsInFlight
<1>4. ASSUME NEW p \in Proc, tx' = [tx EXCEPT ![p] = Idle]
      PROVE  LoginsInFlight' \subseteq LoginsInFlight /\ p \notin LoginsInFlight'
  <2>1. tx'[p] = Idle
    BY <1>1, <1>4
  <2>2. Idle.pc \notin {"checked", "wrong"}
    BY IdleFields
  <2> QED BY <1>2, <1>4, <2>1, <2>2 DEF LoginsInFlight
<1>5. ASSUME NEW p \in Proc, VerifyLogin(p) PROVE LoginsInFlight' \subseteq LoginsInFlight
  <2>1. p \in LoginsInFlight
    BY <1>5 DEF VerifyLogin, LoginsInFlight
  <2>2. \A q \in Proc : q # p => tx'[q] = tx[q]
    BY <1>1, <1>5 DEF VerifyLogin
  <2> QED BY <2>1, <2>2 DEF LoginsInFlight
<1>6. ASSUME NEW p \in Proc, NEW op, NEW w, NEW a, NEW n, BeginWrite(p, op, w, a, n)
      PROVE  LoginsInFlight' \subseteq LoginsInFlight
  <2>1. tx' = [tx EXCEPT ![p].pc = "loaded", ![p].op = op, ![p].seen = user,
                         ![p].new = w, ![p].active = a, ![p].bumps = n]
    BY <1>6 DEF BeginWrite
  <2>2. PICK y : y = tx[p]
    OBVIOUS
  <2>3. PICK x : x = [y EXCEPT !.pc = "loaded", !.op = op, !.seen = user, !.new = w, !.active = a, !.bumps = n]
    OBVIOUS
  <2>4. y = [pc |-> y.pc, op |-> y.op, seen |-> y.seen, new |-> y.new,
             active |-> y.active, bumps |-> y.bumps, row |-> y.row, dead |-> y.dead]
    BY <1>1, <2>2
  <2>5. x.pc = "loaded"
    BY <2>3, <2>4
  <2>6. tx' = [tx EXCEPT ![p] = x]
    BY <1>1, <2>1, <2>2, <2>3
  <2> QED BY <1>2, <2>5, <2>6
<1>7. ASSUME NEW p \in Proc, UpdateRow(p) PROVE LoginsInFlight' \subseteq LoginsInFlight
  <2>1. PICK row : tx' = [tx EXCEPT ![p].pc = "written", ![p].row = row,
                                    ![p].seen = None, ![p].new = None, ![p].active = None]
    BY <1>7 DEF UpdateRow
  <2>2. PICK y : y = tx[p]
    OBVIOUS
  <2>3. PICK x : x = [y EXCEPT !.pc = "written", !.row = row, !.seen = None, !.new = None, !.active = None]
    OBVIOUS
  <2>4. y = [pc |-> y.pc, op |-> y.op, seen |-> y.seen, new |-> y.new,
             active |-> y.active, bumps |-> y.bumps, row |-> y.row, dead |-> y.dead]
    BY <1>1, <2>2
  <2>5. x.pc = "written"
    BY <2>3, <2>4
  <2>6. tx' = [tx EXCEPT ![p] = x]
    BY <1>1, <2>1, <2>2, <2>3
  <2> QED BY <1>2, <2>5, <2>6
<1>8. ASSUME NEW p \in Proc, Commit(p) PROVE LoginsInFlight' \subseteq LoginsInFlight
  <2>1. AfterCommit(p).pc \notin {"checked", "wrong"}
    <3>1. CASE tx[p].op = "change"
      <4>1. PICK x : x = [Idle EXCEPT !.pc = "right", !.op = "change", !.seen = tx[p].row]
        OBVIOUS
      <4>2. x.pc = "right" /\ AfterCommit(p) = x
        BY <3>1, <4>1, IdleFields DEF AfterCommit
      <4> QED BY <4>2
    <3>2. CASE tx[p].op # "change"
      BY <3>2, IdleFields DEF AfterCommit
    <3> QED BY <3>1, <3>2
  <2>2. CASE tx[p].bumps = 0
    <3>1. tx' = [tx EXCEPT ![p] = AfterCommit(p)]
      BY <1>8, <2>2 DEF Commit
    <3> QED BY <1>2, <2>1, <3>1
  <2>3. CASE tx[p].bumps # 0
    <3>1. tx' = [q \in Proc |-> IF q = p THEN AfterCommit(p) ELSE Revoked(q)]
      BY <1>8, <2>3 DEF Commit
    <3>2. ASSUME NEW q \in Proc, q # p PROVE tx'[q].pc = tx[q].pc
      <4>1. PICK r, b : r = tx[q] /\ b = (r.dead \/ r.pc = "right")
        OBVIOUS
      <4>2. PICK z : z = [r EXCEPT !.dead = b]
        OBVIOUS
      <4>3. r = [pc |-> r.pc, op |-> r.op, seen |-> r.seen, new |-> r.new,
                 active |-> r.active, bumps |-> r.bumps, row |-> r.row, dead |-> r.dead]
        BY <1>1, <4>1
      <4>4. z.pc = r.pc
        BY <4>2, <4>3
      <4>5. tx'[q] = Revoked(q)
        BY <3>1, <3>2
      <4>6. tx'[q] = z
        BY <4>1, <4>2, <4>5, Zenon DEF Revoked
      <4> QED BY <4>1, <4>4, <4>6
    <3>3. tx'[p].pc \notin {"checked", "wrong"}
      BY <2>1, <3>1
    <3> QED BY <3>2, <3>3 DEF LoginsInFlight
  <2> QED BY <2>2, <2>3
<1>9. ASSUME NEW p \in Proc, RecordFailure(p) \/ RefuseDisabled(p) \/ IssueToken(p) \/ Abort(p)
      PROVE  LoginsInFlight' \subseteq LoginsInFlight /\ p \notin LoginsInFlight'
  BY <1>4, <1>9 DEF RecordFailure, RefuseDisabled, IssueToken, Abort
<1>10. ASSUME NEW p \in Proc, RecordFailure(p) PROVE p \notin LoginsInFlight'
  BY <1>9, <1>10
<1>11. LoginsInFlight' \subseteq LoginsInFlight
  <2>1. CASE Unlock \/ Expire \/ (\E row \in pending : LandRow(row)) \/ (\E t \in tokens : DropToken(t)) \/ UNCHANGED signInVars
    BY <1>3, <2>1 DEF Unlock, Expire, LandRow, DropToken, signInVars
  <2>2. ASSUME NEW p \in Proc, (\E w \in Password : BeginChange(p, w)) \/ BeginForceLogout(p)
                               \/ \E w \in Password \cup {None}, a \in BOOLEAN \cup {None} : BeginUpdate(p, w, a)
        PROVE  LoginsInFlight' \subseteq LoginsInFlight
    BY <1>6, <2>2 DEF BeginChange, BeginForceLogout, BeginUpdate
  <2> QED BY <1>5, <1>7, <1>8, <1>9, <2>1, <2>2 DEF SignInNext
<1> QED BY <1>10, <1>11

LockInv == LockLog(log) /\ Burst(log, LoginsInFlight)

\* Every step keeps the lockout exact.
LEMMA NextLock == SessInv /\ LogTypes /\ LockInv /\ [SignInNext]_signInVars => LockInv'
<1> SUFFICES ASSUME SessInv, LogTypes, LockInv, [SignInNext]_signInVars PROVE LockInv'
  OBVIOUS
<1>1. log \in Seq(LogRow) /\ LoginsInFlight \in SUBSET Proc /\ LoginsInFlight' \in SUBSET Proc
  BY DEF LogTypes, LogRow, LoginsInFlight
<1>2. CASE \E p \in Proc, w \in Password : BeginLogin(p, w)
  <2>1. log' = log /\ ~Locked(log)
    BY <1>2 DEF BeginLogin
  <2>2. \A i \in 1..Len(log) : ~Holding(log, i)
    BY <1>1, <2>1, LockedIs
  <2> QED BY <2>1, <2>2 DEF LockInv, LockLog, Burst
<1>3. CASE ~\E p \in Proc, w \in Password : BeginLogin(p, w)
  <2>1. LoginsInFlight' \in SUBSET LoginsInFlight /\ \A p \in Proc : RecordFailure(p) => p \notin LoginsInFlight'
    BY <1>3, LoginsKeep
  <2>2. CASE log' = log
    <3>1. Burst(log, LoginsInFlight')
      <4>1. \A row : row # "WRONG" /\ row # "LOCKED" => Burst(log, LoginsInFlight')
        BY <1>1, <2>1, BurstAppend DEF LockInv
      <4>2. "SUCCESS" # "WRONG" /\ "SUCCESS" # "LOCKED"
        OBVIOUS
      <4> QED BY <4>1, <4>2
    <3> QED BY <2>2, <3>1 DEF LockInv
  <2>3. ASSUME NEW row \in {"SUCCESS", "DISABLED", "UNLOCKED"}, log' = Append(log, row) PROVE LockInv'
    <3>1. row \in LogRow /\ row # "WRONG" /\ row # "LOCKED"
      BY DEF LogRow, FailedRows, ResetRows
    <3>2. LockLog(Append(log, row))
      BY <1>1, <3>1, AppendOther DEF LockInv
    <3>3. Burst(Append(log, row), LoginsInFlight')
      BY <1>1, <2>1, <3>1, BurstAppend DEF LockInv
    <3> QED BY <2>3, <3>2, <3>3 DEF LockInv
  <2>4. CASE Expire
    <3>1. log # <<>> /\ log' = Tail(log) /\ UNCHANGED tx
      BY <2>4 DEF Expire
    <3>2. LockLog(Tail(log))
      BY <1>1, <3>1, TailKeeps DEF LockInv
    <3>3. LoginsInFlight' = LoginsInFlight
      BY <3>1 DEF LoginsInFlight
    <3>4. Burst(Tail(log), LoginsInFlight)
      BY <1>1, <3>1, BurstTail DEF LockInv
    <3> QED BY <3>1, <3>2, <3>3, <3>4 DEF LockInv
  <2>5. ASSUME NEW p \in Proc, RecordFailure(p) PROVE LockInv'
    <3>1. log' = WithFailure(log) \/ log' = log
      BY <2>5 DEF RecordFailure, Write
    <3>2. CASE log' = log
      BY <2>2, <3>2
    <3>3. CASE log' = WithFailure(log)
      <4>1. p \in LoginsInFlight /\ p \notin LoginsInFlight'
        BY <2>1, <2>5 DEF RecordFailure, LoginsInFlight
      <4>2. LockLog(WithFailure(log))
        BY <1>1, AppendFailure DEF LockInv
      <4>3. Burst(WithFailure(log), LoginsInFlight \ {p})
        BY <1>1, <4>1, BurstFailure DEF LockInv
      <4>4. WithFailure(log) \in Seq(LogRow)
        <5>1. Append(log, "WRONG") \in Seq(LogRow)
          BY <1>1, FailedNotReset DEF LogRow
        <5>2. Append(Append(log, "WRONG"), "LOCKED") \in Seq(LogRow)
          BY <5>1, FailedNotReset DEF LogRow
        <5> QED BY <5>1, <5>2 DEF WithFailure
      <4>5. LoginsInFlight' \in SUBSET (LoginsInFlight \ {p}) /\ LoginsInFlight \ {p} \in SUBSET Proc
        BY <1>1, <2>1, <4>1
      <4>6. Burst(WithFailure(log), LoginsInFlight')
        BY <4>3, <4>4, <4>5, BurstFewer
      <4> QED BY <3>3, <4>2, <4>6 DEF LockInv
    <3> QED BY <3>1, <3>2, <3>3
  <2>6. CASE Unlock
    <3>1. log' = Append(log, "UNLOCKED")
      BY <2>6 DEF Unlock, Write
    <3> QED BY <2>3, <3>1
  <2>7. ASSUME NEW row \in pending, LandRow(row) PROVE LockInv'
    <3>1. row \in {"SUCCESS", "DISABLED"} /\ (log' = Append(log, row) \/ log' = log)
      BY <2>7 DEF LandRow, Write, LogTypes
    <3> QED BY <2>2, <2>3, <3>1
  <2>8. ASSUME NEW p \in Proc,
               \/ \E w \in Password : BeginChange(p, w)
               \/ VerifyLogin(p) \/ RefuseDisabled(p) \/ IssueToken(p) \/ BeginForceLogout(p)
               \/ \E w \in Password \cup {None}, a \in BOOLEAN \cup {None} : BeginUpdate(p, w, a)
               \/ UpdateRow(p) \/ Commit(p) \/ Abort(p)
        PROVE  log' = log
    BY <2>8 DEF BeginChange, VerifyLogin, RefuseDisabled, IssueToken, BeginForceLogout, BeginUpdate, BeginWrite,
                UpdateRow, Commit, Abort
  <2>9. ASSUME NEW t \in tokens, DropToken(t) PROVE log' = log
    BY <2>9 DEF DropToken
  <2>10. CASE UNCHANGED signInVars
    BY <2>2, <2>10 DEF signInVars
  <2> QED BY <1>3, <2>2, <2>4, <2>5, <2>6, <2>7, <2>8, <2>9, <2>10 DEF SignInNext
<1> QED BY <1>2, <1>3

\* Every wrong password that is one too many locks the email in the same transaction, a
\* lock comes only after as many failures again, and while it holds fewer attempts than
\* the requests served at once get through (login_lockout.record_failed_login, is_locked).
THEOREM LockoutRight == SignInSpec => []LockoutExact
<1>1. SignInInit => LogTypes
  BY BoundAssumption DEF SignInInit, LogTypes
<1>2. SignInInit => LockInv
  BY DEF SignInInit, LockInv, LockLog, LocksInTime, LocksApart, Burst
<1>3. LogTypes /\ LockInv => LockoutExact
  <2> SUFFICES ASSUME LogTypes, LockInv PROVE LockoutExact
    OBVIOUS
  <2>1. log \in Seq(LogRow)
    BY DEF LogTypes, LogRow
  <2> QED BY <2>1, LockLogIs, BurstIs DEF LockInv, LockoutExact
<1> QED BY <1>1, <1>2, <1>3, InitSess, NextSess, NextLogTypes, NextLock, PTL DEF SignInSpec

-----------------------------------------------------------------------------
(* History: what the books and the tables hold. *)

PostLine ==
  [acct : Accounts, base : Int, money : Int, currency : {"USD"}, grams : Int, karat : KaratSet \cup {NONE}]
Sources ==
  ({"ORDER", "VOID", "BUYBACK", "SUPPLIER_PURCHASE", "ADJUSTMENT", "MANUAL", "YEAR_CLOSE"} \X Nat)
    \cup ({"MELT"} \X DOMAIN Workshop) \cup ({"ORDER_REFUND"} \X Nat \X Nat \X Nat) \cup {<<"OPENING">>}
Writers == {"LIVE", "REPLAY", "LISTED"}
EntrySet ==
  [year : 1..Years, source : Sources, lines : Seq(PostLine), by : Writers, upto : Nat]
ItemSet == [unit : DOMAIN Catalogue, qty : Nat, refunded : Nat]
OrderSet ==
  [pay : {"CASH"}, status : {"COMPLETED", "PARTIALLY_REFUNDED", "REFUNDED", "VOIDED"},
   vatPercent : Nat, percent : Nat, items : Seq(ItemSet),
   subtotal : Int, vat : Int, discount : Int, total : Int, handed : Int, retaxed : BOOLEAN]
PieceSet ==
  [karat : KaratSet, grams : Nat, cost : Nat, stone : Nat, status : {"AWAY", "HERE", "MELTED"}]

\* A document, by what it says of itself.
Papers(sources, details) == [year : 1..Years, source : sources, lines : Seq(PostLine), of : details]
Sold == Papers({"ORDER", "VOID"} \X Nat, [n : Nat])
Returned ==
  Papers({"ORDER_REFUND"} \X Nat \X Nat \X Nat, [n : Nat, i : Nat, qty : Nat, handed : Int])
Molten ==
  Papers({"MELT"} \X DOMAIN Workshop,
         [p : DOMAIN Workshop, to : [karat : KaratSet, grams : Nat], cost : Nat,
          karatToo : BOOLEAN, weightToo : BOOLEAN])
Weighed == Papers({"BUYBACK", "ADJUSTMENT"} \X Nat, LotSet)
Delivered == Papers({"SUPPLIER_PURCHASE"} \X Nat, Deliveries)
DocSet == Sold \cup Returned \cup Molten \cup Weighed \cup Delivered

\* Documents of an order name one of its sales and its lines.
Grounded(d, sales) ==
  /\ d \in Sold \cup Returned => d.of.n \in 1..Len(sales)
  /\ d \in Returned => d.of.i \in 1..Len(sales[d.of.n].items)

TablesTyped ==
  /\ year \in 1..Years /\ vat \in VatRates /\ autoPost \in BOOLEAN
  /\ orders \in Seq(OrderSet) /\ docs \in Seq(DocSet)
  /\ \A k \in 1..Len(docs) : Grounded(docs[k], orders)
  /\ units \in [DOMAIN Stock -> Int] /\ pieces \in [DOMAIN Workshop -> PieceSet]
  /\ lots \in Seq(LotSet) /\ owed \in [{"CASH"} \cup KaratSet -> Int]
Months == {"NONE", "OPEN", "CLOSED"}
BooksTyped ==
  /\ journal \in Seq(EntrySet) /\ closings \in Seq(1..Years)
  /\ period \in [1..Years -> Months] /\ reopened \subseteq 1..Years
HistoryTyped == TablesTyped /\ BooksTyped

\* The inductive invariant: a closed year that has an open month is one that was
\* opened again, so that whoever posts into it is known to do so.
Noticed == \A y \in Closed : period[y] = "OPEN" => y \in reopened
BooksInv == BooksTyped /\ Noticed /\ SettledBooksKept
HistoryInv == TablesTyped /\ BooksInv

-----------------------------------------------------------------------------
(* Lines of the books. *)

\* A line in dollars.
LEMMA UsdPost ==
  ASSUME NEW acct \in Accounts, NEW amount \in Int
  PROVE  Usd(acct, amount) \in PostLine
BY DEF Usd, Line, PostLine

\* A line of metal.
LEMMA MetalPost ==
  ASSUME NEW acct \in Dual, NEW cost \in Int, NEW grams \in Int, NEW k \in KaratSet
  PROVE  Metal(acct, cost, grams, k) \in PostLine
<1>1. acct \in Accounts
  BY DEF Dual, Accounts, Assets, Liabilities, Equity, Income, Expenses
<1> QED BY <1>1 DEF Metal, Line, PostLine

\* The accounts the mappers name.
LEMMA Chart ==
  /\ {"CASH", "AR", "SALES_REVENUE", "MAKING_CHARGE_REVENUE", "VAT_PAYABLE", "SALES_DISCOUNTS", "STONE_COGS",
      "STONE_INVENTORY", "PRODUCT_INVENTORY", "AP", "ADJUSTMENT_EXPENSE", "OPENING_BALANCE_EQUITY",
      "RETAINED_EARNINGS"} \subseteq Accounts
  /\ {"METAL_INVENTORY", "METAL_COGS", "METAL_AP", "METAL_CLEARING", "OPENING_BALANCE_EQUITY"} \subseteq Dual
BY DEF Accounts, Assets, Liabilities, Equity, Income, Expenses, CashKeys, Dual

\* An entry of one line.
LEMMA LinesOne == ASSUME NEW l \in PostLine PROVE <<l>> \in Seq(PostLine)
OBVIOUS

\* An entry of two lines: what is debited and what is credited.
LEMMA LinesTwo ==
  ASSUME NEW l \in PostLine, NEW m \in PostLine
  PROVE  <<l, m>> \in Seq(PostLine)
OBVIOUS

\* An entry of three lines, as a deal that is paid in cash over a metal line.
LEMMA LinesThree ==
  ASSUME NEW l \in PostLine, NEW m \in PostLine, NEW n \in PostLine
  PROVE  <<l, m, n>> \in Seq(PostLine)
OBVIOUS

\* An entry of four lines, as a melt: out of one karat and into another.
LEMMA LinesFour ==
  ASSUME NEW l \in PostLine, NEW m \in PostLine, NEW n \in PostLine, NEW o \in PostLine
  PROVE  <<l, m, n, o>> \in Seq(PostLine)
OBVIOUS

\* Lines after lines.
LEMMA LinesJoin ==
  ASSUME NEW s \in Seq(PostLine), NEW t \in Seq(PostLine)
  PROVE  s \o t \in Seq(PostLine)
OBVIOUS

\* A line that may be left out.
LEMMA LinesWhen ==
  ASSUME NEW c, NEW l \in PostLine
  PROVE  When(c, l) \in Seq(PostLine)
<1>1. <<l>> \in Seq(PostLine) /\ <<>> \in Seq(PostLine)
  OBVIOUS
<1> QED BY <1>1 DEF When

\* A block of lines for each karat, and for each of any number.
LEMMA LinesFlat ==
  ASSUME NEW ss \in Seq(Seq(PostLine))
  PROVE  FlattenSeq(ss) \in Seq(PostLine)
<1>1. PICK f : f = [l \in PostLine |-> 0]
  OBVIOUS
<1>2. Measure(f, PostLine)
  BY <1>1 DEF Measure
<1> QED BY <1>2, OverFlatten

\* A line of a reversal.
Opposite(l) == [l EXCEPT !.base = -@, !.money = -@, !.grams = -@]

\* The lines of a reversal.
LEMMA LinesNegated ==
  ASSUME NEW s \in Seq(PostLine)
  PROVE  Negated(s) \in Seq(PostLine)
<1>1. PICK n : n = Len(s) /\ n \in Nat /\ DOMAIN s = 1..n /\ \A i \in 1..n : s[i] \in PostLine
  OBVIOUS
<1>2. ASSUME NEW l \in PostLine PROVE Opposite(l) \in PostLine
  <2>1. PICK m, b, y, g : m = Opposite(l) /\ b = -l.base /\ y = -l.money /\ g = -l.grams
    OBVIOUS
  <2>2. /\ l.acct \in Accounts /\ l.currency \in {"USD"} /\ l.karat \in KaratSet \cup {NONE}
        /\ l.base \in Int /\ l.money \in Int /\ l.grams \in Int
        /\ l = [acct |-> l.acct, base |-> l.base, money |-> l.money, currency |-> l.currency,
                grams |-> l.grams, karat |-> l.karat]
    BY DEF PostLine
  <2>3. m = [acct |-> l.acct, base |-> b, money |-> y, currency |-> l.currency, grams |-> g, karat |-> l.karat]
    BY <2>1, <2>2 DEF Opposite
  <2>4. b \in Int /\ y \in Int /\ g \in Int
    BY <2>1, <2>2
  <2> QED BY <2>1, <2>2, <2>3, <2>4 DEF PostLine
<1>3. Negated(s) \in [1..n -> PostLine]
  BY <1>1, <1>2 DEF Negated, Opposite
<1> QED BY <1>1, <1>3, SeqDef

-----------------------------------------------------------------------------
(* Amounts. *)

\* Amounts of amounts.
LEMMA Times == ASSUME NEW a \in Int, NEW b \in Int PROVE a * b \in Int
OBVIOUS

\* Rounding gives a whole number.
LEMMA RoundedInt ==
  ASSUME NEW n \in Int, NEW d \in Nat \ {0}
  PROVE  HalfEven(n, d) \in Int
<1>1. PICK q : q = n \div d /\ q \in Int
  OBVIOUS
<1>2. HalfEven(n, d) \in {q, q + 1}
  BY <1>1 DEF HalfEven
<1> QED BY <1>1, <1>2

\* A percentage of an amount.
LEMMA PercentInt == ASSUME NEW a \in Int, NEW rate \in Int PROVE Percent(a, rate) \in Int
<1>1. a * rate \in Int
  BY Times
<1> QED BY <1>1, RoundedInt DEF Percent

\* What the catalogue says of what is sold.
LEMMA UnitTypes ==
  ASSUME NEW it, it.unit \in DOMAIN Catalogue
  PROVE  /\ Unit(it).karat \in KaratSet /\ Unit(it).grams \in Int /\ Unit(it).price \in Int
         /\ Unit(it).making \in Int /\ Unit(it).stone \in Int /\ Unit(it).cost \in Int
         /\ Unit(it).per \in Nat \ {0}
BY CatalogueAssumption DEF Unit

\* Its cost.
LEMMA CostInt ==
  ASSUME NEW it, it.unit \in DOMAIN Catalogue, NEW qty \in Int
  PROVE  Cost(it, qty) \in Int
<1>1. PICK c, d : c = Unit(it).cost /\ d = Unit(it).per
  OBVIOUS
<1>2. c \in Int /\ d \in Nat \ {0}
  BY <1>1, UnitTypes
<1>3. HalfEven(c * qty, d) \in Int
  BY <1>2, Times, RoundedInt
<1> QED BY <1>1, <1>3 DEF Cost

-----------------------------------------------------------------------------
(* The lines of the documents. *)

\* The sums over the items of an order.
LEMMA ItemTotals ==
  ASSUME NEW items \in Seq(ItemSet)
  PROVE  /\ Total(items, LAMBDA it : Unit(it).making * it.qty) \in Int
         /\ Total(items, LAMBDA it : Unit(it).stone * it.qty) \in Int
         /\ Total(items, LAMBDA it : Unit(it).price * it.qty) \in Int
         /\ Remaining(items) \in Int
<1>1. PICK n : n = Len(items) /\ n \in Nat /\ DOMAIN items = 1..n
  OBVIOUS
<1>2. ASSUME NEW i \in 1..n
      PROVE  /\ Unit(items[i]).making * items[i].qty \in Int /\ Unit(items[i]).stone * items[i].qty \in Int
             /\ Unit(items[i]).price * items[i].qty \in Int
             /\ Unit(items[i]).price * (items[i].qty - items[i].refunded) \in Int
  <2>1. items[i] \in ItemSet
    BY <1>1
  <2>2. PICK q, r : q = items[i].qty /\ r = items[i].qty - items[i].refunded
    OBVIOUS
  <2>3. q \in Int /\ r \in Int /\ items[i].unit \in DOMAIN Catalogue
    BY <2>1, <2>2 DEF ItemSet
  <2>4. PICK m, s, p : m = Unit(items[i]).making /\ s = Unit(items[i]).stone /\ p = Unit(items[i]).price
    OBVIOUS
  <2>5. m \in Int /\ s \in Int /\ p \in Int
    BY <2>3, <2>4, UnitTypes
  <2>6. m * q \in Int /\ s * q \in Int /\ p * q \in Int /\ p * r \in Int
    BY <2>3, <2>5, Times
  <2> QED BY <2>2, <2>4, <2>6
<1>3. Total(items, LAMBDA it : Unit(it).making * it.qty) \in Int
  <2>1. PICK v : v = [i \in DOMAIN items |-> Unit(items[i]).making * items[i].qty]
    OBVIOUS
  <2>2. SumTo(v, n) \in Int
    BY <1>1, <1>2, <2>1, RowSum
  <2> QED BY <1>1, <2>1, <2>2 DEF Total
<1>4. Total(items, LAMBDA it : Unit(it).stone * it.qty) \in Int
  <2>1. PICK v : v = [i \in DOMAIN items |-> Unit(items[i]).stone * items[i].qty]
    OBVIOUS
  <2>2. SumTo(v, n) \in Int
    BY <1>1, <1>2, <2>1, RowSum
  <2> QED BY <1>1, <2>1, <2>2 DEF Total
<1>5. Total(items, LAMBDA it : Unit(it).price * it.qty) \in Int
  <2>1. PICK v : v = [i \in DOMAIN items |-> Unit(items[i]).price * items[i].qty]
    OBVIOUS
  <2>2. SumTo(v, n) \in Int
    BY <1>1, <1>2, <2>1, RowSum
  <2> QED BY <1>1, <2>1, <2>2 DEF Total
<1>6. Remaining(items) \in Int
  <2>1. PICK v : v = [i \in DOMAIN items |-> Unit(items[i]).price * (items[i].qty - items[i].refunded)]
    OBVIOUS
  <2>2. SumTo(v, n) \in Int
    BY <1>1, <1>2, <2>1, RowSum
  <2> QED BY <1>1, <2>1, <2>2 DEF Total, Remaining
<1> QED BY <1>3, <1>4, <1>5, <1>6

\* The metal of an order, karat by karat.
LEMMA SoldLines ==
  ASSUME NEW items \in Seq(ItemSet), NEW k \in KaratSet
  PROVE  SoldMetal(items, k) \in Seq(PostLine)
<1>1. PICK n : n = Len(items) /\ n \in Nat /\ DOMAIN items = 1..n
  OBVIOUS
<1>2. PICK v, w : /\ v = [i \in DOMAIN items |-> IF Unit(items[i]).karat = k THEN Cost(items[i], items[i].qty) ELSE 0]
                  /\ w = [i \in DOMAIN items |-> IF Unit(items[i]).karat = k THEN Unit(items[i]).grams * items[i].qty ELSE 0]
  OBVIOUS
<1>3. ASSUME NEW i \in 1..n
      PROVE  Cost(items[i], items[i].qty) \in Int /\ Unit(items[i]).grams * items[i].qty \in Int
  <2>1. items[i] \in ItemSet
    BY <1>1
  <2>2. PICK q, g : q = items[i].qty /\ g = Unit(items[i]).grams
    OBVIOUS
  <2>3. q \in Int /\ items[i].unit \in DOMAIN Catalogue
    BY <2>1, <2>2 DEF ItemSet
  <2>4. g \in Int /\ Cost(items[i], q) \in Int
    BY <2>2, <2>3, UnitTypes, CostInt
  <2>5. g * q \in Int
    BY <2>3, <2>4, Times
  <2> QED BY <2>2, <2>4, <2>5
<1>4. \A i \in 1..n : v[i] \in Int /\ w[i] \in Int
  BY <1>1, <1>2, <1>3
<1>5. PICK c, g : c = SumTo(v, n) /\ g = SumTo(w, n)
  OBVIOUS
<1>6. c \in Int /\ g \in Int /\ -c \in Int /\ -g \in Int
  <2>1. c \in Int /\ g \in Int
    BY <1>1, <1>4, <1>5, RowSum
  <2> QED BY <2>1
<1>7. /\ c = Total(items, LAMBDA it : IF Unit(it).karat = k THEN Cost(it, it.qty) ELSE 0)
      /\ g = Total(items, LAMBDA it : IF Unit(it).karat = k THEN Unit(it).grams * it.qty ELSE 0)
  BY <1>1, <1>2, <1>5 DEF Total
<1>8. Metal("METAL_COGS", c, g, k) \in PostLine /\ Metal("METAL_INVENTORY", -c, -g, k) \in PostLine
  BY <1>6, Chart, MetalPost
<1>9. <<Metal("METAL_COGS", c, g, k), Metal("METAL_INVENTORY", -c, -g, k)>> \in Seq(PostLine) /\ <<>> \in Seq(PostLine)
  BY <1>8, LinesTwo
<1> QED BY <1>7, <1>9 DEF SoldMetal

\* The two lines of stones.
LEMMA StoneLines == ASSUME NEW x \in Int PROVE Stones(x) \in Seq(PostLine)
<1>1. Usd("STONE_COGS", x) \in PostLine /\ Usd("STONE_INVENTORY", -x) \in PostLine
  <2>1. -x \in Int
    OBVIOUS
  <2> QED BY <2>1, Chart, UsdPost
<1> QED BY <1>1, LinesWhen, LinesJoin DEF Stones

\* A block of lines for each karat.
LEMMA KaratBlocks ==
  ASSUME NEW ss, DOMAIN ss = DOMAIN Karats, ss = [i \in DOMAIN ss |-> ss[i]],
         \A i \in 1..2 : Karats[i] \in KaratSet => ss[i] \in Seq(PostLine)
  PROVE  FlattenSeq(ss) \in Seq(PostLine)
<1>1. DOMAIN ss = 1..2 /\ \A i \in 1..2 : Karats[i] \in KaratSet
  BY DEF Karats, KaratSet
<1>2. ss \in [1..2 -> Seq(PostLine)]
  BY <1>1
<1>3. ss \in Seq(Seq(PostLine))
  <2>1. PICK T : T = Seq(PostLine)
    OBVIOUS
  <2>2. ss \in [1..2 -> T] /\ 2 \in Nat
    BY <1>2, <2>1
  <2>3. ss \in Seq(T)
    BY <2>2, SeqDef
  <2> QED BY <2>1, <2>3
<1> QED BY <1>3, LinesFlat

\* An order has the totals it is given.
LEMMA OrderFields ==
  ASSUME NEW o \in OrderSet
  PROVE  /\ o.items \in Seq(ItemSet) /\ o.pay = "CASH"
         /\ o.subtotal \in Int /\ o.vat \in Int /\ o.discount \in Int /\ o.total \in Int /\ o.handed \in Int
         /\ o.vatPercent \in Int /\ o.percent \in Int
BY DEF OrderSet

\* A sale.
LEMMA SaleTyped == ASSUME NEW o \in OrderSet PROVE SaleLines(o) \in Seq(PostLine)
<1>1. /\ o.items \in Seq(ItemSet) /\ o.pay = "CASH"
      /\ o.subtotal \in Int /\ o.vat \in Int /\ o.discount \in Int /\ o.total \in Int
  BY OrderFields
<1>2. PICK making, stone : /\ making = Total(o.items, LAMBDA it : Unit(it).making * it.qty)
                           /\ stone = Total(o.items, LAMBDA it : Unit(it).stone * it.qty)
  OBVIOUS
<1>3. making \in Int /\ stone \in Int
  BY <1>1, <1>2, ItemTotals
<1>4. making - o.subtotal \in Int /\ -making \in Int /\ -o.vat \in Int
  BY <1>1, <1>3
<1>5. /\ Usd("CASH", o.total) \in PostLine /\ Usd("SALES_REVENUE", making - o.subtotal) \in PostLine
      /\ Usd("MAKING_CHARGE_REVENUE", -making) \in PostLine /\ Usd("VAT_PAYABLE", -o.vat) \in PostLine
      /\ Usd("SALES_DISCOUNTS", o.discount) \in PostLine
  BY <1>1, <1>4, Chart, UsdPost
<1>6. PICK A, B, C, D, E, F :
        /\ A = <<Usd("CASH", o.total), Usd("SALES_REVENUE", making - o.subtotal)>>
        /\ B = When(making > 0, Usd("MAKING_CHARGE_REVENUE", -making))
        /\ C = When(o.vat > 0, Usd("VAT_PAYABLE", -o.vat))
        /\ D = Allowed(o)
        /\ E = FlattenSeq([i \in DOMAIN Karats |-> SoldMetal(o.items, Karats[i])])
        /\ F = Stones(stone)
  OBVIOUS
<1>7. A \in Seq(PostLine) /\ B \in Seq(PostLine) /\ C \in Seq(PostLine)
  BY <1>5, <1>6, LinesTwo, LinesWhen
<1>8. D \in Seq(PostLine) /\ F \in Seq(PostLine)
  BY <1>3, <1>5, <1>6, LinesWhen, StoneLines DEF Allowed
<1>9. E \in Seq(PostLine)
  <2>1. PICK ss : ss = [i \in DOMAIN Karats |-> SoldMetal(o.items, Karats[i])]
    OBVIOUS
  <2>2. \A i \in 1..2 : Karats[i] \in KaratSet => ss[i] \in Seq(PostLine)
    <3>1. DOMAIN Karats = 1..2
      BY DEF Karats
    <3> QED BY <1>1, <2>1, <3>1, SoldLines
  <2>3. DOMAIN ss = DOMAIN Karats /\ ss = [i \in DOMAIN ss |-> ss[i]]
    BY <2>1
  <2> QED BY <1>6, <2>1, <2>2, <2>3, KaratBlocks
<1>10. ((((A \o B) \o C) \o D) \o E) \o F \in Seq(PostLine)
  BY <1>7, <1>8, <1>9, LinesJoin
<1>11. SaleLines(o) = ((((A \o B) \o C) \o D) \o E) \o F
  BY <1>1, <1>2, <1>6 DEF SaleLines, Till
<1> QED BY <1>10, <1>11

\* A line refund.
LEMMA RefundTyped ==
  ASSUME NEW o \in OrderSet, NEW i \in 1..Len(o.items), NEW qty \in Int, NEW rate \in Int
  PROVE  RefundLines(o, i, qty, rate) \in Seq(PostLine)
<1>1. o.items \in Seq(ItemSet) /\ o.subtotal \in Int /\ o.discount \in Int
  BY OrderFields
<1>2. PICK it : it = o.items[i] /\ it.unit \in DOMAIN Catalogue
  <2>1. o.items[i] \in ItemSet
    BY <1>1
  <2> QED BY <2>1 DEF ItemSet
<1>3. PICK p, m, g, s, k, c : /\ p = Unit(it).price /\ m = Unit(it).making /\ g = Unit(it).grams
                              /\ s = Unit(it).stone /\ k = Unit(it).karat /\ c = Cost(it, qty)
  OBVIOUS
<1>4. p \in Int /\ m \in Int /\ g \in Int /\ s \in Int /\ k \in KaratSet /\ c \in Int
  BY <1>2, <1>3, UnitTypes, CostInt
<1>5. PICK value, making, grams, stone : /\ value = p * qty /\ making = m * qty /\ grams = g * qty /\ stone = s * qty
  OBVIOUS
<1>6. value \in Int /\ making \in Int /\ grams \in Int /\ stone \in Int
  BY <1>4, <1>5, Times
<1>7. PICK tax, slice : /\ tax = Percent(value, rate)
                        /\ slice = IF o.subtotal > 0 THEN HalfEven(o.discount * value, o.subtotal) ELSE 0
  OBVIOUS
<1>8. tax \in Int
  BY <1>6, <1>7, PercentInt
<1>9. slice \in Int
  <2>1. CASE o.subtotal > 0
    <3>1. o.subtotal \in Nat \ {0} /\ o.discount * value \in Int
      BY <1>1, <1>6, <2>1, Times
    <3>2. HalfEven(o.discount * value, o.subtotal) \in Int
      BY <3>1, RoundedInt
    <3> QED BY <1>7, <2>1, <3>2
  <2>2. CASE ~(o.subtotal > 0)
    BY <1>7, <2>2
  <2> QED BY <2>1, <2>2
<1>10. /\ value - making \in Int /\ slice - value - tax \in Int /\ -c \in Int /\ -grams \in Int
       /\ -slice \in Int /\ -stone \in Int
  BY <1>4, <1>6, <1>8, <1>9
<1>11. PICK A, B, C, D, E : /\ A = <<Usd("SALES_REVENUE", value - making), Usd("VAT_PAYABLE", tax)>>
                            /\ B = When(making > 0, Usd("MAKING_CHARGE_REVENUE", making))
                            /\ C = <<Usd("CASH", slice - value - tax), Metal("METAL_INVENTORY", c, grams, k),
                                     Metal("METAL_COGS", -c, -grams, k)>>
                            /\ D = When(slice > 0, Usd("SALES_DISCOUNTS", -slice))
                            /\ E = Stones(-stone)
  OBVIOUS
<1>12. A \in Seq(PostLine)
  <2>1. Usd("SALES_REVENUE", value - making) \in PostLine /\ Usd("VAT_PAYABLE", tax) \in PostLine
    BY <1>8, <1>10, Chart, UsdPost
  <2> QED BY <1>11, <2>1, LinesTwo
<1>13. B \in Seq(PostLine) /\ D \in Seq(PostLine) /\ E \in Seq(PostLine)
  <2>1. Usd("MAKING_CHARGE_REVENUE", making) \in PostLine /\ Usd("SALES_DISCOUNTS", -slice) \in PostLine
    BY <1>6, <1>10, Chart, UsdPost
  <2> QED BY <1>10, <1>11, <2>1, LinesWhen, StoneLines
<1>14. C \in Seq(PostLine)
  <2>1. /\ Usd("CASH", slice - value - tax) \in PostLine /\ Metal("METAL_INVENTORY", c, grams, k) \in PostLine
        /\ Metal("METAL_COGS", -c, -grams, k) \in PostLine
    BY <1>4, <1>6, <1>10, Chart, UsdPost, MetalPost
  <2> QED BY <1>11, <2>1, LinesThree
<1>15. (((A \o B) \o C) \o D) \o E \in Seq(PostLine)
  BY <1>12, <1>13, <1>14, LinesJoin
<1>16. RefundLines(o, i, qty, rate) = (((A \o B) \o C) \o D) \o E
  BY <1>2, <1>3, <1>5, <1>7, <1>11 DEF RefundLines, Slice
<1> QED BY <1>15, <1>16

\* Gold bought back, molten and written off.
LEMMA GoldTyped ==
  ASSUME NEW s \in LotSet
  PROVE  BuyBackLines(s) \in Seq(PostLine) /\ WriteOffLines(s) \in Seq(PostLine)
<1>1. s.karat \in KaratSet /\ s.cost \in Int /\ s.grams \in Int /\ -s.cost \in Int /\ -s.grams \in Int /\ 0 \in Int
  BY DEF LotSet
<1>2. /\ Metal("METAL_INVENTORY", s.cost, s.grams, s.karat) \in PostLine
      /\ Metal("METAL_INVENTORY", -s.cost, -s.grams, s.karat) \in PostLine
      /\ Metal("METAL_CLEARING", 0, -s.grams, s.karat) \in PostLine
      /\ Metal("METAL_CLEARING", 0, s.grams, s.karat) \in PostLine
  BY <1>1, Chart, MetalPost
<1>3. Usd("CASH", -s.cost) \in PostLine /\ Usd("ADJUSTMENT_EXPENSE", s.cost) \in PostLine
  BY <1>1, Chart, UsdPost
<1> QED BY <1>2, <1>3, LinesThree DEF BuyBackLines, WriteOffLines

\* The lines of a melt are lines of the chart.
LEMMA MeltTyped ==
  ASSUME NEW s, NEW t, s.karat \in KaratSet, t.karat \in KaratSet, s.grams \in Int, t.grams \in Int, NEW cost \in Int
  PROVE  MeltLines(s, t, cost) \in Seq(PostLine)
<1>1. -cost \in Int /\ -s.grams \in Int /\ -t.grams \in Int /\ 0 \in Int
  OBVIOUS
<1>2. /\ Metal("METAL_INVENTORY", -cost, -s.grams, s.karat) \in PostLine
      /\ Metal("METAL_CLEARING", 0, s.grams, s.karat) \in PostLine
      /\ Metal("METAL_INVENTORY", cost, t.grams, t.karat) \in PostLine
      /\ Metal("METAL_CLEARING", 0, -t.grams, t.karat) \in PostLine
  BY <1>1, Chart, MetalPost
<1>3. <<>> \in Seq(PostLine)
  OBVIOUS
<1> QED BY <1>2, <1>3, LinesFour DEF MeltLines

\* A delivery.
LEMMA DeliveryTyped ==
  ASSUME NEW p, p.due \in Nat, p.paid \in Nat, p.stone \in Int,
         \A k \in KaratSet : p.gold[k] \in Nat /\ p.drawn[k] \in Nat /\ p.worth[k] \in Int
  PROVE  DeliveryLines(p) \in Seq(PostLine)
<1>1. /\ p.due \in Nat /\ p.paid \in Nat /\ p.stone \in Int
      /\ \A k \in KaratSet : p.gold[k] \in Nat /\ p.drawn[k] \in Nat /\ p.worth[k] \in Int
  OBVIOUS
<1>2. PICK stone : stone = IF p.stone > p.due THEN 0 ELSE p.stone
  OBVIOUS
<1>3. stone \in Int /\ p.due - stone \in Int /\ p.paid - p.due \in Int /\ -p.paid \in Int
  BY <1>1, <1>2
<1>4. /\ Usd("PRODUCT_INVENTORY", p.due - stone) \in PostLine /\ Usd("STONE_INVENTORY", stone) \in PostLine
      /\ Usd("AP", p.paid - p.due) \in PostLine /\ Usd("CASH", -p.paid) \in PostLine
  BY <1>3, Chart, UsdPost
<1> DEFINE Owing(k) == p.gold[k] - p.drawn[k]
           Worths(k) == HalfEven(p.worth[k] * Owing(k), p.gold[k])
           Block(k) == IF Owing(k) <= 0 THEN <<>>
                       ELSE <<Metal("METAL_INVENTORY", Worths(k), Owing(k), k),
                              Metal("METAL_AP", -Worths(k), -Owing(k), k)>>
<1>5. ASSUME NEW k \in KaratSet PROVE Block(k) \in Seq(PostLine)
  <2>1. PICK g, d, w : g = p.gold[k] /\ d = p.drawn[k] /\ w = p.worth[k]
    OBVIOUS
  <2>2. g \in Nat /\ d \in Nat /\ w \in Int
    BY <1>1, <2>1
  <2>3. CASE g - d <= 0
    <3>1. <<>> \in Seq(PostLine)
      OBVIOUS
    <3> QED BY <2>1, <2>3, <3>1
  <2>4. CASE ~(g - d <= 0)
    <3>1. g - d \in Int /\ g \in Nat \ {0} /\ -(g - d) \in Int
      BY <2>2, <2>4
    <3>2. w * (g - d) \in Int
      BY <2>2, <3>1, Times
    <3>3. PICK h : h = HalfEven(w * (g - d), g) /\ h \in Int /\ -h \in Int
      <4>1. HalfEven(w * (g - d), g) \in Int
        BY <3>1, <3>2, RoundedInt
      <4> QED BY <4>1
    <3>4. Metal("METAL_INVENTORY", h, g - d, k) \in PostLine /\ Metal("METAL_AP", -h, -(g - d), k) \in PostLine
      BY <3>1, <3>3, Chart, MetalPost
    <3>5. <<Metal("METAL_INVENTORY", h, g - d, k), Metal("METAL_AP", -h, -(g - d), k)>> \in Seq(PostLine)
      BY <3>4, LinesTwo
    <3> QED BY <2>1, <2>4, <3>3, <3>5
  <2> QED BY <2>3, <2>4
<1>6. PICK ss : ss = [i \in DOMAIN Karats |-> Block(Karats[i])]
  OBVIOUS
<1>7. FlattenSeq(ss) \in Seq(PostLine)
  <2>1. \A i \in 1..2 : Karats[i] \in KaratSet => ss[i] \in Seq(PostLine)
    <3>1. DOMAIN Karats = 1..2
      BY DEF Karats
    <3> HIDE DEF Block
    <3> QED BY <1>5, <1>6, <3>1
  <2>2. DOMAIN ss = DOMAIN Karats /\ ss = [i \in DOMAIN ss |-> ss[i]]
    BY <1>6
  <2> QED BY <2>1, <2>2, KaratBlocks
<1>8. PICK A, B, C, D : /\ A = When(p.due - stone > 0, Usd("PRODUCT_INVENTORY", p.due - stone))
                        /\ B = When(p.due > 0 /\ stone > 0, Usd("STONE_INVENTORY", stone))
                        /\ C = When(p.due - p.paid > 0, Usd("AP", p.paid - p.due))
                        /\ D = When(p.paid > 0, Usd("CASH", -p.paid))
  OBVIOUS
<1>9. A \in Seq(PostLine) /\ B \in Seq(PostLine) /\ C \in Seq(PostLine) /\ D \in Seq(PostLine)
  BY <1>4, <1>8, LinesWhen
<1>10. (((A \o B) \o C) \o D) \o FlattenSeq(ss) \in Seq(PostLine)
  BY <1>7, <1>9, LinesJoin
<1>11. DeliveryLines(p) = (((A \o B) \o C) \o D) \o FlattenSeq(ss)
  BY <1>2, <1>6, <1>8 DEF DeliveryLines
<1> QED BY <1>10, <1>11

-----------------------------------------------------------------------------
(* Orders. *)

\* An order as it is placed.
LEMMA NewTyped ==
  ASSUME NEW cart \in Carts, NEW percent \in Discounts, NEW rate \in VatRates
  PROVE  NewOrder(cart, "CASH", percent, rate) \in OrderSet
<1>1. cart \in Seq([unit : DOMAIN Stock, qty : Nat]) /\ percent \in Nat /\ rate \in Nat
  <2>1. cart \in Seq([unit : DOMAIN Stock, qty : Nat])
    BY SaleAssumption DEF Items
  <2>2. percent \in 0..100 /\ rate \in 0..100
    BY RateAssumption
  <2> QED BY <2>1, <2>2
<1>2. PICK n : n = Len(cart) /\ n \in Nat /\ DOMAIN cart = 1..n
               /\ \A i \in 1..n : cart[i].unit \in DOMAIN Catalogue /\ cart[i].qty \in Nat
  <2>1. PICK T : T = [unit : DOMAIN Stock, qty : Nat]
    OBVIOUS
  <2>2. cart \in Seq(T)
    BY <1>1, <2>1
  <2>3. Len(cart) \in Nat /\ DOMAIN cart = 1..Len(cart) /\ \A i \in 1..Len(cart) : cart[i] \in T
    BY <2>2
  <2>4. \A c \in T : c.unit \in DOMAIN Catalogue /\ c.qty \in Nat
    BY <2>1, StartAssumption
  <2> QED BY <2>3, <2>4
<1>3. PICK v : v = [i \in DOMAIN cart |-> Unit(cart[i]).price * cart[i].qty]
  OBVIOUS
<1>4. ASSUME NEW i \in 1..n PROVE v[i] \in Int
  <2>1. PICK p, q : p = Unit(cart[i]).price /\ q = cart[i].qty
    OBVIOUS
  <2>2. p \in Int /\ q \in Int
    BY <1>2, <2>1, UnitTypes
  <2>3. p * q \in Int
    BY <2>2, Times
  <2> QED BY <1>2, <1>3, <2>1, <2>3
<1>5. PICK subtotal, tax, discount : /\ subtotal = SumTo(v, n) /\ tax = Percent(subtotal, rate)
                                     /\ discount = Percent(subtotal, percent)
  OBVIOUS
<1>6. subtotal \in Int
  BY <1>2, <1>4, <1>5, RowSum
<1>7. tax \in Int /\ discount \in Int
  BY <1>1, <1>5, <1>6, PercentInt
<1>8. subtotal = Total(cart, LAMBDA it : Unit(it).price * it.qty)
  BY <1>2, <1>3, <1>5 DEF Total
<1>9. PICK items : items = [i \in DOMAIN cart |-> [unit |-> cart[i].unit, qty |-> cart[i].qty, refunded |-> 0]]
  OBVIOUS
<1>10. items \in Seq(ItemSet)
  <2>1. items \in [1..n -> ItemSet]
    BY <1>2, <1>9 DEF ItemSet
  <2> QED BY <1>2, <2>1, SeqDef
<1>11. NewOrder(cart, "CASH", percent, rate)
         = [pay |-> "CASH", status |-> "COMPLETED", vatPercent |-> rate, percent |-> percent, items |-> items,
            subtotal |-> subtotal, vat |-> tax, discount |-> discount,
            total |-> subtotal + tax - discount, handed |-> 0, retaxed |-> FALSE]
  BY <1>5, <1>8, <1>9 DEF NewOrder
<1>12. subtotal + tax - discount \in Int
  BY <1>6, <1>7
<1>13. PICK total : total = subtotal + tax - discount /\ total \in Int
  BY <1>12
<1>14. [pay |-> "CASH", status |-> "COMPLETED", vatPercent |-> rate, percent |-> percent, items |-> items,
        subtotal |-> subtotal, vat |-> tax, discount |-> discount, total |-> total, handed |-> 0, retaxed |-> FALSE]
         \in OrderSet
  BY <1>1, <1>6, <1>7, <1>10, <1>13 DEF OrderSet
<1> QED BY <1>11, <1>13, <1>14

\* An order of which something came back.
LEMMA ReturnTyped ==
  ASSUME NEW o \in OrderSet, NEW i \in 1..Len(o.items), NEW qty \in Nat, NEW rate
  PROVE  /\ Refunded(o, i, qty, rate) \in OrderSet
         /\ Len(Refunded(o, i, qty, rate).items) = Len(o.items)
         /\ Refunded(o, i, qty, rate).items[i].refunded \in Nat
<1>1. /\ o.items \in Seq(ItemSet) /\ o.total \in Int /\ o.handed \in Int
      /\ o.vatPercent \in Int /\ o.percent \in Int
  BY OrderFields
<1>2. PICK n : n = Len(o.items) /\ n \in Nat /\ DOMAIN o.items = 1..n /\ \A j \in 1..n : o.items[j] \in ItemSet
  BY <1>1
<1>3. PICK items : items = [o.items EXCEPT ![i].refunded = @ + qty]
  OBVIOUS
<1>4. items \in Seq(ItemSet) /\ Len(items) = n /\ items[i].refunded \in Nat
  <2>1. PICK it : it = o.items[i] /\ it \in ItemSet
    BY <1>2
  <2>2. PICK new : new = [it EXCEPT !.refunded = @ + qty]
    OBVIOUS
  <2>3. new \in ItemSet /\ new.refunded \in Nat
    <3>1. it.refunded + qty \in Nat
      BY <2>1 DEF ItemSet
    <3> QED BY <2>1, <2>2, <3>1 DEF ItemSet
  <2>4. items = [o.items EXCEPT ![i] = new]
    BY <1>2, <1>3, <2>1, <2>2
  <2>5. items \in [1..n -> ItemSet] /\ items[i] = new
    BY <1>2, <2>3, <2>4
  <2> QED BY <1>2, <2>3, <2>5, SeqDef, LenProperties
<1>5. PICK subtotal, tax, discount : /\ subtotal = Remaining(items) /\ tax = Percent(subtotal, o.vatPercent)
                                     /\ discount = Percent(subtotal, o.percent)
  OBVIOUS
<1>6. subtotal \in Int
  BY <1>4, <1>5, ItemTotals
<1>7. tax \in Int /\ discount \in Int
  BY <1>1, <1>5, <1>6, PercentInt
<1>8. PICK total : total = subtotal + tax - discount /\ total \in Int
  BY <1>6, <1>7
<1>9. PICK handed : handed = o.handed + o.total - total /\ handed \in Int
  BY <1>1, <1>8
<1>10. PICK retaxed : retaxed = (o.retaxed \/ rate # o.vatPercent) /\ retaxed \in BOOLEAN
  OBVIOUS
<1>11. PICK status :
         /\ status = IF \A j \in DOMAIN items : items[j].refunded >= items[j].qty THEN "REFUNDED" ELSE "PARTIALLY_REFUNDED"
         /\ status \in {"REFUNDED", "PARTIALLY_REFUNDED"}
  OBVIOUS
<1>12. PICK left : left = Refunded(o, i, qty, rate)
  OBVIOUS
<1>13. left = [o EXCEPT !.items = items, !.subtotal = subtotal, !.vat = tax, !.discount = discount,
                        !.total = total, !.handed = handed, !.retaxed = retaxed, !.status = status]
  BY <1>3, <1>5, <1>8, <1>9, <1>10, <1>11, <1>12 DEF Refunded
<1>14. left = [pay |-> o.pay, status |-> status, vatPercent |-> o.vatPercent, percent |-> o.percent,
               items |-> items, subtotal |-> subtotal, vat |-> tax, discount |-> discount,
               total |-> total, handed |-> handed, retaxed |-> retaxed]
  <2>1. o = [pay |-> o.pay, status |-> o.status, vatPercent |-> o.vatPercent, percent |-> o.percent,
             items |-> o.items, subtotal |-> o.subtotal, vat |-> o.vat, discount |-> o.discount,
             total |-> o.total, handed |-> o.handed, retaxed |-> o.retaxed]
    BY DEF OrderSet
  <2> QED BY <1>13, <2>1
<1>15. o.pay \in {"CASH"} /\ o.vatPercent \in Nat /\ o.percent \in Nat
  BY DEF OrderSet
<1>16. left \in OrderSet /\ left.items = items
  BY <1>4, <1>6, <1>7, <1>8, <1>9, <1>10, <1>11, <1>14, <1>15 DEF OrderSet
<1> QED BY <1>2, <1>4, <1>12, <1>16

\* An order computed again as it was sold.
LEMMA SoldTyped ==
  ASSUME NEW o \in OrderSet
  PROVE  AsSold(o) \in OrderSet /\ AsSold(o).items = o.items
<1>1. o.items \in Seq(ItemSet) /\ o.vatPercent \in Int /\ o.percent \in Int
  BY OrderFields
<1>2. PICK subtotal, tax, discount :
        /\ subtotal = Total(o.items, LAMBDA it : Unit(it).price * it.qty)
        /\ tax = Percent(subtotal, o.vatPercent) /\ discount = Percent(subtotal, o.percent)
  OBVIOUS
<1>3. subtotal \in Int
  BY <1>1, <1>2, ItemTotals
<1>4. tax \in Int /\ discount \in Int
  BY <1>1, <1>2, <1>3, PercentInt
<1>5. PICK total : total = subtotal + tax - discount /\ total \in Int
  BY <1>3, <1>4
<1>6. PICK sold : sold = [o EXCEPT !.subtotal = subtotal, !.vat = tax, !.discount = discount, !.total = total]
  OBVIOUS
<1>7. sold \in OrderSet /\ sold.items = o.items
  BY <1>3, <1>4, <1>5, <1>6 DEF OrderSet
<1>8. AsSold(o) = o \/ AsSold(o) = sold
  BY <1>2, <1>5, <1>6 DEF AsSold
<1> QED BY <1>7, <1>8

-----------------------------------------------------------------------------
(* What an entry does to the sums of a year. *)

BaseIn(A) == [l \in PostLine |-> IF l.acct \in A THEN l.base ELSE 0]
YearsIn(days, A) == [e \in EntrySet |-> IF e.year \in days THEN SumOver(BaseIn(A), e.lines) ELSE 0]

\* Dollars of lines are numbers, and so are those of entries.
LEMMA Measures ==
  ASSUME NEW A, NEW days
  PROVE  Measure(BaseIn(A), PostLine) /\ Measure(YearsIn(days, A), EntrySet)
<1>1. Measure(BaseIn(A), PostLine)
  <2>1. \A l \in PostLine : l.base \in Int
    BY DEF PostLine
  <2> QED BY <2>1 DEF Measure, BaseIn
<1>2. ASSUME NEW e \in EntrySet PROVE SumOver(BaseIn(A), e.lines) \in Int
  <2>1. e.lines \in Seq(PostLine)
    BY DEF EntrySet
  <2> QED BY <1>1, <2>1, OverType
<1> QED BY <1>1, <1>2 DEF Measure, YearsIn

\* The net of the journal is the sum over its entries.
LEMMA NetIs ==
  ASSUME NEW j \in Seq(EntrySet), NEW days, NEW A
  PROVE  Net(Dated(j), days, A) = SumOver(YearsIn(days, A), j) /\ Net(Dated(j), days, A) \in Int
<1>1. PICK n : n = Len(j) /\ n \in Nat /\ DOMAIN j = 1..n
  OBVIOUS
<1>2. ASSUME NEW i \in 1..n
      PROVE  j[i] \in EntrySet /\ j[i].lines \in Seq(PostLine) /\ \A k \in DOMAIN j[i].lines : j[i].lines[k] \in PostLine
  <2>1. j[i] \in EntrySet
    BY <1>1
  <2>2. j[i].lines \in Seq(PostLine)
    BY <2>1 DEF EntrySet
  <2> QED BY <2>1, <2>2
<1>3. Len(Dated(j)) = n /\ DOMAIN Dated(j) = 1..n
      /\ \A i \in 1..n : Dated(j)[i].day = j[i].year /\ Dated(j)[i].lines = j[i].lines
  BY <1>1, LenProperties DEF Dated
<1>4. ASSUME NEW i \in 1..n
      PROVE  (IF Dated(j)[i].day \in days
              THEN SumTo([k \in DOMAIN Dated(j)[i].lines |->
                            IF Dated(j)[i].lines[k].acct \in A THEN Dated(j)[i].lines[k].base ELSE 0],
                         Len(Dated(j)[i].lines))
              ELSE 0) = YearsIn(days, A)[j[i]]
  <2>1. [k \in DOMAIN j[i].lines |-> IF j[i].lines[k].acct \in A THEN j[i].lines[k].base ELSE 0]
          = [k \in DOMAIN j[i].lines |-> BaseIn(A)[j[i].lines[k]]]
    BY <1>2 DEF BaseIn
  <2> QED BY <1>2, <1>3, <2>1 DEF YearsIn, SumOver
<1>5. Net(Dated(j), days, A) = SumOver(YearsIn(days, A), j)
  BY <1>1, <1>3, <1>4 DEF Net, Replay, Total, SumOver
<1>6. SumOver(YearsIn(days, A), j) \in Int
  BY Measures, OverType
<1> QED BY <1>5, <1>6

\* Entries of other years leave the net of these as it is.
LEMMA LaterEntries ==
  ASSUME NEW j \in Seq(EntrySet), NEW t \in Seq(EntrySet), NEW days, NEW A,
         \A i \in 1..Len(t) : t[i].year \notin days
  PROVE  j \o t \in Seq(EntrySet) /\ Net(Dated(j \o t), days, A) = Net(Dated(j), days, A)
<1>1. PICK f : f = YearsIn(days, A)
  OBVIOUS
<1>2. Measure(f, EntrySet)
  BY <1>1, Measures
<1>3. \A i \in 1..Len(t) : f[t[i]] = 0
  <2>1. \A i \in 1..Len(t) : t[i] \in EntrySet
    OBVIOUS
  <2> QED BY <1>1, <2>1 DEF YearsIn
<1>4. SumOver(f, t) = 0
  BY <1>3, OverZero
<1>5. j \o t \in Seq(EntrySet) /\ SumOver(f, j \o t) = SumOver(f, j) + SumOver(f, t)
  BY <1>2, OverConcat
<1>6. SumOver(f, j) \in Int
  BY <1>2, OverType
<1>7. SumOver(f, j \o t) = SumOver(f, j)
  BY <1>4, <1>5, <1>6
<1> QED BY <1>1, <1>5, <1>7, NetIs

\* An entry of these years adds its lines.
LEMMA OneEntry ==
  ASSUME NEW j \in Seq(EntrySet), NEW e \in EntrySet, NEW days, NEW A, e.year \in days
  PROVE  /\ Append(j, e) \in Seq(EntrySet)
         /\ Net(Dated(Append(j, e)), days, A) = Net(Dated(j), days, A) + SumOver(BaseIn(A), e.lines)
<1>1. PICK f : f = YearsIn(days, A)
  OBVIOUS
<1>2. Measure(f, EntrySet) /\ f[e] = SumOver(BaseIn(A), e.lines)
  BY <1>1, Measures DEF YearsIn
<1>3. Append(j, e) \in Seq(EntrySet) /\ SumOver(f, Append(j, e)) = SumOver(f, j) + f[e]
  BY <1>2, OverAppend
<1> QED BY <1>1, <1>2, <1>3, NetIs

-----------------------------------------------------------------------------
(* Writing a document in the journal. *)

StepSet ==
  {s \in [by : Writers, year : 1..Years, source : Sources, sale : Sources \cup {<<>>}, lines : Seq(PostLine)] :
     s.source[1] = "VOID" => s.sale # <<>>}

\* Entries are entries.
LEMMA EntryTyped ==
  ASSUME NEW j \in Seq(EntrySet), NEW e \in Range(j)
  PROVE  e \in EntrySet /\ e.lines \in Seq(PostLine)
<1>1. PICK i \in DOMAIN j : e = j[i]
  BY DEF Range
<1>2. e \in EntrySet
  BY <1>1
<1> QED BY <1>2 DEF EntrySet

\* The document is in the journal, or cannot be, or gets an entry of its year.
LEMMA Booked ==
  ASSUME NEW j \in Seq(EntrySet), NEW s \in StepSet, Len(docs) \in Nat
  PROVE  \/ Book(j, s) = j
         \/ \E e \in EntrySet : e.year = s.year /\ Book(j, s) = Append(j, e)
<1>1. /\ s.by \in Writers /\ s.year \in 1..Years /\ s.source \in Sources /\ s.lines \in Seq(PostLine)
      /\ s.source[1] = "VOID" => s.sale # <<>>
  BY DEF StepSet
<1>2. PICK skip :
        skip = \/ Posted(j, s.source)
               \/ s.sale # <<>> /\ (~Posted(j, s.sale) \/ Posted(j, <<"VOID", s.sale[2]>>))
               \/ s.source[1] # "VOID" /\ s.lines = <<>>
  OBVIOUS
<1>3. PICK lines : lines = IF s.source[1] = "VOID" THEN Negated(EntryOf(j, s.sale).lines) ELSE s.lines
  OBVIOUS
<1>4. PICK e : e = [year |-> s.year, source |-> s.source, lines |-> lines, by |-> s.by, upto |-> Len(docs)]
  OBVIOUS
<1>5. Book(j, s) = IF skip THEN j ELSE Append(j, e)
  BY <1>2, <1>3, <1>4 DEF Book
<1>6. CASE skip
  BY <1>5, <1>6
<1>7. CASE ~skip
  <2>1. lines \in Seq(PostLine)
    <3>1. CASE s.source[1] = "VOID"
      <4>1. Posted(j, s.sale)
        BY <1>1, <1>2, <1>7, <3>1
      <4>2. EntryOf(j, s.sale) \in Range(j)
        BY <4>1 DEF Posted, EntryOf
      <4> QED BY <1>3, <3>1, <4>2, EntryTyped, LinesNegated
    <3>2. CASE s.source[1] # "VOID"
      BY <1>1, <1>3, <3>2
    <3> QED BY <3>1, <3>2
  <2>2. e \in EntrySet
    BY <1>1, <1>4, <2>1 DEF EntrySet
  <2> QED BY <1>4, <1>5, <1>7, <2>2
<1> QED BY <1>6, <1>7

\* Entries of this set, after what is in the journal.
Adds(j, k, T) == \E t \in Seq(T) : k = j \o t

\* A journal that nobody posts to is added nothing.
LEMMA AddsNone == ASSUME NEW T, NEW j \in Seq(T) PROVE Adds(j, j, T)
<1>1. <<>> \in Seq(T) /\ j = j \o <<>>
  OBVIOUS
<1> QED BY <1>1 DEF Adds

\* Posting adds one entry.
LEMMA AddsOne == ASSUME NEW T, NEW j \in Seq(T), NEW e \in T PROVE Adds(j, Append(j, e), T)
<1>1. <<e>> \in Seq(T) /\ Append(j, e) = j \o <<e>>
  OBVIOUS
<1> QED BY <1>1 DEF Adds

\* What is added to what was added.
LEMMA AddsMore ==
  ASSUME NEW T, NEW j \in Seq(T), NEW k, NEW l, Adds(j, k, T), Adds(k, l, T)
  PROVE  Adds(j, l, T)
<1>1. PICK t \in Seq(T), u \in Seq(T) : k = j \o t /\ l = k \o u
  BY DEF Adds
<1>2. t \o u \in Seq(T) /\ l = j \o (t \o u)
  <2>1. (j \o t) \o u = j \o (t \o u)
    BY ConcatAssociative
  <2> QED BY <1>1, <2>1
<1> QED BY <1>2 DEF Adds

-----------------------------------------------------------------------------
(* What the replay makes of a document. *)

\* Any source but a void may name no sale, and every one may name the sale of
\* an order.
LEMMA StepTyped ==
  ASSUME NEW by \in Writers, NEW when \in 1..Years, NEW source \in Sources, NEW sale \in Sources \cup {<<>>},
         NEW lines \in Seq(PostLine), source[1] = "VOID" => sale # <<>>
  PROVE  Step(by, when, source, sale, lines) \in StepSet
BY DEF Step, StepSet

\* A sale, and the whole refund that is booked with it.
LEMMA SaleSteps ==
  ASSUME TablesTyped, NEW d \in Sold, Grounded(d, orders)
  PROVE  /\ d.source[1] = "ORDER" => SaleStep(d) \in StepSet
         /\ ReversalStep(d) \in StepSet
<1>1. /\ d.year \in 1..Years /\ d.source \in {"ORDER", "VOID"} \X Nat /\ d.of.n \in Nat
      /\ d.of.n \in 1..Len(orders)
  BY DEF Sold, Papers, Grounded
<1>2. orders[d.of.n] \in OrderSet
  BY <1>1 DEF TablesTyped
<1>3. SaleLines(AsSold(orders[d.of.n])) \in Seq(PostLine)
  BY <1>2, SoldTyped, SaleTyped
<1>4. d.source \in Sources /\ <<"VOID", d.of.n>> \in Sources /\ <<"ORDER", d.of.n>> \in Sources
  BY <1>1 DEF Sources
<1>5. <<"ORDER", d.of.n>> # <<>> /\ <<>> \in Seq(PostLine)
  OBVIOUS
<1>6. ReversalStep(d) \in StepSet
  BY <1>1, <1>4, <1>5, StepTyped DEF ReversalStep, Writers
<1>7. ASSUME d.source[1] = "ORDER" PROVE SaleStep(d) \in StepSet
  BY <1>1, <1>3, <1>4, <1>7, StepTyped DEF SaleStep, Writers
<1> QED BY <1>6, <1>7

\* A line refund.
LEMMA RefundSteps ==
  ASSUME TablesTyped, NEW d \in Returned, Grounded(d, orders)
  PROVE  d.source[1] = "ORDER_REFUND" /\ RefundStep(d) \in StepSet
<1>1. /\ d.year \in 1..Years /\ d.source \in {"ORDER_REFUND"} \X Nat \X Nat \X Nat
      /\ d.of.n \in Nat /\ d.of.n \in 1..Len(orders) /\ d.of.qty \in Nat /\ d.of.i \in 1..Len(orders[d.of.n].items)
  BY DEF Returned, Papers, Grounded
<1>2. PICK o : o = orders[d.of.n] /\ o \in OrderSet
  BY <1>1 DEF TablesTyped
<1>3. AsSold(o) \in OrderSet /\ d.of.i \in 1..Len(AsSold(o).items) /\ o.vatPercent \in Int
  BY <1>1, <1>2, SoldTyped, OrderFields
<1>4. RefundLines(AsSold(o), d.of.i, d.of.qty, o.vatPercent) \in Seq(PostLine)
  <2>1. PICK s, i, q, r : s = AsSold(o) /\ i = d.of.i /\ q = d.of.qty /\ r = o.vatPercent
    OBVIOUS
  <2>2. s \in OrderSet /\ i \in 1..Len(s.items) /\ q \in Int /\ r \in Int
    BY <1>1, <1>3, <2>1
  <2>3. RefundLines(s, i, q, r) \in Seq(PostLine)
    BY <2>2, RefundTyped
  <2> QED BY <2>1, <2>3
<1>5. d.source[1] = "ORDER_REFUND" /\ d.source \in Sources /\ <<"ORDER", d.of.n>> \in Sources
  BY <1>1 DEF Sources
<1> QED BY <1>1, <1>2, <1>4, <1>5, StepTyped DEF RefundStep, Writers

\* A melt.
LEMMA MeltSteps ==
  ASSUME TablesTyped, NEW d \in Molten
  PROVE  /\ d.source[1] = "MELT"
         /\ Step(Listing(d), d.year, d.source, <<>>, MeltLines(MeltedFrom(d), d.of.to, d.of.cost)) \in StepSet
<1>1. /\ d.year \in 1..Years /\ d.source \in {"MELT"} \X DOMAIN Workshop
      /\ d.of.p \in DOMAIN Workshop /\ d.of.to.karat \in KaratSet /\ d.of.to.grams \in Nat /\ d.of.cost \in Nat
  BY DEF Molten, Papers
<1>2. pieces[d.of.p].karat \in KaratSet /\ pieces[d.of.p].grams \in Nat
  BY <1>1 DEF TablesTyped, PieceSet
<1>3. MeltedFrom(d).karat \in KaratSet /\ MeltedFrom(d).grams \in Nat
  BY <1>1, <1>2 DEF MeltedFrom
<1>4. MeltLines(MeltedFrom(d), d.of.to, d.of.cost) \in Seq(PostLine)
  <2>1. PICK s, u, c : s = MeltedFrom(d) /\ u = d.of.to /\ c = d.of.cost
    OBVIOUS
  <2>2. s.karat \in KaratSet /\ u.karat \in KaratSet /\ s.grams \in Int /\ u.grams \in Int /\ c \in Int
    BY <1>1, <1>3, <2>1
  <2> QED BY <2>1, <2>2, MeltTyped
<1>5. d.source[1] = "MELT" /\ d.source \in Sources /\ Listing(d) \in Writers
  BY <1>1 DEF Sources, Listing, Writers
<1> QED BY <1>1, <1>4, <1>5, StepTyped

\* What the mapper makes of a delivery.
LEMMA BilledTyped ==
  ASSUME TablesTyped, NEW p \in Deliveries
  PROVE  /\ p.due \in Nat /\ p.paid \in Nat /\ \A k \in KaratSet : p.gold[k] \in Nat
         /\ p.lots \in Seq(LotSet) /\ p.units \in Items /\ p.pieces \subseteq DOMAIN Workshop
         /\ DeliveryLines(Billed(p)) \in Seq(PostLine)
<1>1. /\ p.due \in Nat /\ p.paid \in Nat /\ \A k \in KaratSet : p.gold[k] \in Nat
      /\ p.lots \in Seq(LotSet) /\ p.units \in Items /\ p.pieces \subseteq DOMAIN Workshop
  <2>1. p \in [due : Nat, paid : Nat, gold : ByKarat,
               lots : Seq(LotSet), units : Items, pieces : SUBSET DOMAIN Workshop]
    BY GoldAssumption
  <2>2. /\ p.due \in Nat /\ p.paid \in Nat /\ p.gold \in ByKarat
        /\ p.lots \in Seq(LotSet) /\ p.units \in Items /\ p.pieces \in SUBSET DOMAIN Workshop
    BY <2>1
  <2> QED BY <2>2 DEF ByKarat
<1>2. SumFunction([n \in p.pieces |-> pieces[n].stone]) \in Int
  <2>1. PICK f : f = [n \in p.pieces |-> pieces[n].stone]
    OBVIOUS
  <2>2. IsFiniteSet(p.pieces)
    BY <1>1, StartAssumption, FS_Subset
  <2>3. DOMAIN f = p.pieces /\ \A n \in p.pieces : f[n] \in Int
    <3>1. \A n \in DOMAIN Workshop : pieces[n] \in PieceSet
      BY DEF TablesTyped
    <3>2. \A q \in PieceSet : q.stone \in Int
      BY DEF PieceSet
    <3> QED BY <1>1, <2>1, <3>1, <3>2
  <2>4. SumFunctionOnSet(f, p.pieces) \in Int
    BY <2>2, <2>3, SumType
  <2> QED BY <2>1, <2>3, <2>4 DEF SumFunction
<1>0. PICK w : w = [k \in KaratSet |-> Total(p.lots, LAMBDA l : IF l.karat = k THEN l.cost ELSE 0)]
  OBVIOUS
<1>3. ASSUME NEW k \in KaratSet PROVE w[k] \in Int
  <2>1. PICK n : n = Len(p.lots) /\ n \in Nat /\ DOMAIN p.lots = 1..n /\ \A i \in 1..n : p.lots[i] \in LotSet
    BY <1>1
  <2>2. \A l \in LotSet : l.cost \in Int
    BY DEF LotSet
  <2>3. PICK v : v = [i \in DOMAIN p.lots |-> IF p.lots[i].karat = k THEN p.lots[i].cost ELSE 0]
    OBVIOUS
  <2>4. \A i \in 1..n : v[i] \in Int
    BY <2>1, <2>2, <2>3
  <2>5. SumTo(v, n) \in Int
    BY <2>1, <2>4, RowSum
  <2>6. Total(p.lots, LAMBDA l : IF l.karat = k THEN l.cost ELSE 0) = SumTo(v, n)
    BY <2>1, <2>3 DEF Total
  <2>7. w[k] = SumTo(v, n)
    BY <1>0, <2>6
  <2> QED BY <2>5, <2>7
<1>4. PICK b : b = Billed(p)
  OBVIOUS
<1>5. /\ b.due = p.due /\ b.paid = p.paid /\ b.gold = p.gold
      /\ b.stone = SumFunction([n \in p.pieces |-> pieces[n].stone])
      /\ b.drawn = [k \in KaratSet |-> 0]
      /\ b.worth = w
  BY <1>4, <1>0 DEF Billed
<1>6. b.due \in Nat /\ b.paid \in Nat /\ b.stone \in Int
  BY <1>1, <1>2, <1>5
<1>7. \A k \in KaratSet : b.gold[k] \in Nat /\ b.drawn[k] \in Nat /\ b.worth[k] \in Int
  BY <1>1, <1>3, <1>5
<1>8. DeliveryLines(b) \in Seq(PostLine)
  BY <1>6, <1>7, DeliveryTyped
<1> QED BY <1>1, <1>4, <1>8

\* Every document.
LEMMA StepsTyped ==
  ASSUME TablesTyped, NEW d \in DocSet, Grounded(d, orders)
  PROVE  StepsOf(d) \in Seq(StepSet)
<1>1. ASSUME NEW s \in StepSet PROVE <<s>> \in Seq(StepSet)
  OBVIOUS
<1>2. CASE d \in Sold
  <2>1. d.source[1] \in {"ORDER", "VOID"}
    BY <1>2 DEF Sold, Papers
  <2>2. CASE d.source[1] = "ORDER"
    <3>1. SaleStep(d) \in StepSet /\ ReversalStep(d) \in StepSet
      BY <1>2, <2>2, SaleSteps
    <3>2. StepsOf(d) = <<SaleStep(d)>> \o When(Undated(d.of.n), ReversalStep(d))
      BY <2>2 DEF StepsOf
    <3>3. When(Undated(d.of.n), ReversalStep(d)) \in Seq(StepSet)
      BY <3>1 DEF When
    <3>4. \A s, t \in Seq(StepSet) : s \o t \in Seq(StepSet)
      OBVIOUS
    <3> QED BY <1>1, <3>1, <3>2, <3>3, <3>4
  <2>3. CASE d.source[1] = "VOID"
    <3>1. StepsOf(d) = <<ReversalStep(d)>>
      BY <2>3 DEF StepsOf
    <3> QED BY <1>1, <1>2, <3>1, SaleSteps
  <2> QED BY <2>1, <2>2, <2>3
<1>3. CASE d \in Returned
  <2>1. d.source[1] = "ORDER_REFUND" /\ RefundStep(d) \in StepSet
    BY <1>3, RefundSteps
  <2>2. StepsOf(d) = <<RefundStep(d)>>
    BY <2>1 DEF StepsOf
  <2> QED BY <1>1, <2>1, <2>2
<1>4. CASE d \in Molten
  <2>1. PICK s : s = Step(Listing(d), d.year, d.source, <<>>, MeltLines(MeltedFrom(d), d.of.to, d.of.cost))
    OBVIOUS
  <2>2. d.source[1] = "MELT" /\ s \in StepSet
    BY <1>4, <2>1, MeltSteps
  <2>3. StepsOf(d) = <<s>>
    BY <2>1, <2>2 DEF StepsOf
  <2> QED BY <1>1, <2>2, <2>3
<1>5. CASE d \in Weighed
  <2>1. /\ d.year \in 1..Years /\ d.source \in {"BUYBACK", "ADJUSTMENT"} \X Nat /\ d.of \in LotSet
    BY <1>5 DEF Weighed, Papers
  <2>2. d.source[1] \in {"BUYBACK", "ADJUSTMENT"} /\ d.source \in Sources /\ Listing(d) \in Writers
    BY <2>1 DEF Sources, Listing, Writers
  <2>3. PICK lines : lines = IF d.source[1] = "BUYBACK" THEN BuyBackLines(d.of) ELSE WriteOffLines(d.of)
    OBVIOUS
  <2>4. lines \in Seq(PostLine)
    BY <2>1, <2>3, GoldTyped
  <2>5. StepsOf(d) = <<Step(Listing(d), d.year, d.source, <<>>, lines)>>
    BY <2>2, <2>3 DEF StepsOf
  <2>6. Step(Listing(d), d.year, d.source, <<>>, lines) \in StepSet
    BY <2>1, <2>2, <2>4, StepTyped
  <2> QED BY <1>1, <2>5, <2>6
<1>6. CASE d \in Delivered
  <2>1. /\ d.year \in 1..Years /\ d.source \in {"SUPPLIER_PURCHASE"} \X Nat /\ d.of \in Deliveries
    BY <1>6 DEF Delivered, Papers
  <2>2. d.source[1] = "SUPPLIER_PURCHASE" /\ d.source \in Sources /\ Listing(d) \in Writers
    BY <2>1 DEF Sources, Listing, Writers
  <2>3. PICK lines : lines = DeliveryLines(Billed(d.of))
    OBVIOUS
  <2>4. lines \in Seq(PostLine)
    BY <2>1, <2>3, BilledTyped
  <2>5. StepsOf(d) = <<Step(Listing(d), d.year, d.source, <<>>, lines)>>
    BY <2>2, <2>3 DEF StepsOf
  <2>6. Step(Listing(d), d.year, d.source, <<>>, lines) \in StepSet
    BY <2>1, <2>2, <2>4, StepTyped
  <2> QED BY <1>1, <2>5, <2>6
<1> QED BY <1>2, <1>3, <1>4, <1>5, <1>6 DEF DocSet

-----------------------------------------------------------------------------
(* The replay only adds entries. *)

\* The steps of all documents, and what the journal is after each of them.
AllSteps == FlattenSeq([y \in 1..Years |-> StepsOfYear(y, 0)])
Written(b, steps, n) ==
  b = [i \in 0..n |-> IF i = 0 THEN journal ELSE Book(b[i - 1], steps[i])]

\* The definition, restated without its LET.
LEMMA ReplayedIs ==
  Replayed(0) = (CHOOSE b : Written(b, AllSteps, Len(AllSteps)))[Len(AllSteps)]
BY DEF Replayed, Written, AllSteps

\* Steps of any number of rows are steps.
LEMMA StepsFlat ==
  ASSUME NEW n \in Nat, NEW ss, ss = [i \in 1..n |-> ss[i]], \A i \in 1..n : ss[i] \in Seq(StepSet)
  PROVE  FlattenSeq(ss) \in Seq(StepSet)
<1>1. ss \in Seq(Seq(StepSet))
  <2>1. PICK T : T = Seq(StepSet)
    OBVIOUS
  <2>2. ss \in [1..n -> T]
    BY <2>1
  <2>3. ss \in Seq(T)
    BY <2>2, SeqDef
  <2> QED BY <2>1, <2>3
<1>2. PICK f : f = [s \in StepSet |-> 0]
  OBVIOUS
<1>3. Measure(f, StepSet)
  BY <1>2 DEF Measure
<1> QED BY <1>1, <1>3, OverFlatten

\* The steps of a year are steps.
LEMMA YearTyped == ASSUME TablesTyped, NEW y PROVE StepsOfYear(y, 0) \in Seq(StepSet)
<1>1. PICK n : n = Len(docs) - 0 /\ n = Len(docs) /\ n \in Nat
  <2>1. docs \in Seq(DocSet)
    BY DEF TablesTyped
  <2>2. Len(docs) \in Nat
    BY <2>1
  <2>3. Len(docs) - 0 = Len(docs)
    BY <2>2
  <2> QED BY <2>2, <2>3
<1>2. PICK ss : ss = [i \in 1..n |-> IF docs[0 + i].year = y THEN StepsOf(docs[0 + i]) ELSE <<>>]
  OBVIOUS
<1>3. ASSUME NEW i \in 1..n PROVE ss[i] \in Seq(StepSet)
  <2>1. docs[0 + i] = docs[i] /\ i \in 1..Len(docs)
    BY <1>1
  <2>2. docs[i] \in DocSet /\ Grounded(docs[i], orders)
    BY <2>1 DEF TablesTyped
  <2>3. StepsOf(docs[i]) \in Seq(StepSet) /\ <<>> \in Seq(StepSet)
    BY <2>2, StepsTyped
  <2> QED BY <1>2, <2>1, <2>3
<1>4. ss = [i \in 1..n |-> ss[i]]
  BY <1>2
<1>5. FlattenSeq(ss) \in Seq(StepSet)
  BY <1>1, <1>3, <1>4, StepsFlat
<1> QED BY <1>1, <1>2, <1>5 DEF StepsOfYear

\* The steps are steps.
LEMMA AllTyped == ASSUME TablesTyped PROVE AllSteps \in Seq(StepSet)
<1>1. PICK ss : ss = [y \in 1..Years |-> StepsOfYear(y, 0)]
  OBVIOUS
<1>2. Years \in Nat /\ ss = [y \in 1..Years |-> ss[y]] /\ \A y \in 1..Years : ss[y] \in Seq(StepSet)
  BY <1>1, YearTyped, StartAssumption
<1>3. FlattenSeq(ss) \in Seq(StepSet)
  BY <1>2, StepsFlat
<1> QED BY <1>1, <1>3 DEF AllSteps

\* There are such journals.
LEMMA WrittenExists ==
  ASSUME NEW steps, NEW n \in Nat
  PROVE  \E b : Written(b, steps, n)
<1> DEFINE B == {m \in Nat : ~\E b : Written(b, steps, m)}
<1>1. SUFFICES ASSUME B # {} PROVE FALSE
  OBVIOUS
<1>2. PICK m \in B : \A k \in B : m <= k
  <2>1. B \subseteq Nat /\ B # {}
    BY <1>1
  <2> HIDE DEF B
  <2> QED BY <2>1, LeastNumber
<1>3. m # 0
  <2>1. PICK b : b = [i \in 0..0 |-> journal]
    OBVIOUS
  <2>2. Written(b, steps, 0)
    BY <2>1 DEF Written
  <2> QED BY <1>2, <2>2
<1>4. PICK k \in Nat : m = k + 1
  <2>1. m - 1 \in Nat /\ m = (m - 1) + 1
    BY <1>2, <1>3
  <2> QED BY <2>1
<1>5. PICK b : Written(b, steps, k)
  <2>1. ~(m <= k)
    BY <1>4
  <2> QED BY <1>2, <2>1
<1>6. PICK q : q = [i \in 0..m |-> IF i = m THEN Book(b[k], steps[m]) ELSE b[i]]
  OBVIOUS
<1>7. ASSUME NEW i \in 0..m PROVE q[i] = IF i = 0 THEN journal ELSE Book(q[i - 1], steps[i])
  <2>1. CASE i = m
    <3>1. i - 1 \in 0..m /\ i - 1 # m /\ i - 1 = k /\ i # 0
      BY <1>4, <2>1
    <3>2. q[i - 1] = b[k] /\ q[i] = Book(b[k], steps[m])
      BY <1>6, <2>1, <3>1
    <3> QED BY <2>1, <3>1, <3>2
  <2>2. CASE i # m
    <3>1. i \in 0..k /\ q[i] = b[i]
      BY <1>4, <1>6, <2>2
    <3>2. b[i] = IF i = 0 THEN journal ELSE Book(b[i - 1], steps[i])
      BY <1>5, <3>1 DEF Written
    <3>3. CASE i = 0
      BY <3>1, <3>2, <3>3
    <3>4. CASE i # 0
      <4>1. i - 1 \in 0..m /\ i - 1 # m
        BY <3>4
      <4>2. q[i - 1] = b[i - 1]
        BY <1>6, <4>1
      <4> QED BY <3>1, <3>2, <3>4, <4>2
    <3> QED BY <3>3, <3>4
  <2> QED BY <2>1, <2>2
<1>8. q = [i \in 0..m |-> q[i]]
  BY <1>6
<1>9. Written(q, steps, m)
  BY <1>7, <1>8 DEF Written
<1> QED BY <1>2, <1>9

\* Each of them is the one before it, with an entry more at most.
LEMMA WrittenAdds ==
  ASSUME HistoryTyped, NEW steps \in Seq(StepSet), NEW b, Written(b, steps, Len(steps))
  PROVE  Adds(journal, b[Len(steps)], EntrySet)
<1>1. PICK n : n = Len(steps) /\ n \in Nat /\ \A i \in 1..n : steps[i] \in StepSet
  OBVIOUS
<1>2. journal \in Seq(EntrySet) /\ Len(docs) \in Nat
  BY DEF HistoryTyped, TablesTyped, BooksTyped
<1> DEFINE B == {m \in 0..n : ~Adds(journal, b[m], EntrySet)}
<1>3. ASSUME B # {} PROVE FALSE
  <2>1. PICK m \in B : \A k \in B : m <= k
    <3>1. B \subseteq Nat /\ B # {}
      BY <1>3
    <3> HIDE DEF B
    <3> QED BY <3>1, LeastNumber
  <2>2. m # 0
    <3>1. b[0] = journal
      BY <1>1 DEF Written
    <3> QED BY <1>2, <2>1, <3>1, AddsNone
  <2>3. m - 1 \in 0..n /\ ~(m <= m - 1) /\ m \in 1..n
    BY <1>1, <2>1, <2>2
  <2>4. PICK j : j = b[m - 1] /\ Adds(journal, j, EntrySet)
    BY <2>1, <2>3
  <2>5. j \in Seq(EntrySet)
    <3>1. PICK t \in Seq(EntrySet) : j = journal \o t
      BY <2>4 DEF Adds
    <3>2. journal \o t \in Seq(EntrySet)
      BY <1>2
    <3> QED BY <3>1, <3>2
  <2>6. b[m] = Book(j, steps[m])
    BY <1>1, <2>2, <2>3, <2>4 DEF Written
  <2>7. \/ b[m] = j
        \/ \E e \in EntrySet : b[m] = Append(j, e)
    <3>1. steps[m] \in StepSet
      BY <1>1, <2>3
    <3> QED BY <1>2, <2>5, <2>6, <3>1, Booked
  <2>8. Adds(j, b[m], EntrySet)
    BY <2>5, <2>7, AddsNone, AddsOne
  <2>9. Adds(journal, b[m], EntrySet)
    BY <1>2, <2>4, <2>8, AddsMore
  <2> QED BY <2>1, <2>9
<1>4. n \in 0..n /\ n \notin B
  <2>1. n \in 0..n
    BY <1>1
  <2> QED BY <1>3, <2>1
<1>5. Adds(journal, b[n], EntrySet)
  BY <1>4
<1> QED BY <1>1, <1>5

\* What the replay leaves.
LEMMA ReplayAdds ==
  ASSUME HistoryTyped
  PROVE  Adds(journal, Replayed(0), EntrySet)
<1>1. PICK steps : steps = AllSteps /\ steps \in Seq(StepSet)
  BY AllTyped DEF HistoryTyped
<1>2. PICK b : b = (CHOOSE c : Written(c, steps, Len(steps)))
  OBVIOUS
<1>3. Len(steps) \in Nat
  BY <1>1
<1>4. \E c : Written(c, steps, Len(steps))
  BY <1>3, WrittenExists
<1>5. Written(b, steps, Len(steps))
  BY <1>2, <1>4
<1>6. Replayed(0) = b[Len(steps)]
  BY <1>1, <1>2, ReplayedIs
<1> QED BY <1>1, <1>5, <1>6, WrittenAdds

-----------------------------------------------------------------------------
(* The closing entry. *)

\* A row with one number that is not zero.
LEMMA RowSingle ==
  ASSUME NEW n \in Nat, NEW v, NEW p \in 1..n, v[p] \in Int, \A i \in 1..n : i # p => v[i] = 0
  PROVE  SumTo(v, n) = v[p]
<1>1. IsFiniteSet(1..n) /\ IsFiniteSet({}) /\ {} \cup {p} = {p}
  BY FS_Interval, FS_EmptySet
<1>2. \A i \in 1..n : v[i] \in Int
  OBVIOUS
<1>3. SumFunctionOnSet(v, 1..n) = SumFunctionOnSet(v, {p})
  <2>1. {p} \subseteq 1..n /\ \A i \in (1..n) \ {p} : v[i] = 0
    OBVIOUS
  <2> QED BY <1>1, <1>2, <2>1, SumSupport
<1>4. SumFunctionOnSet(v, {} \cup {p}) = v[p] + SumFunctionOnSet(v, {})
  BY <1>1, SumAdd
<1>5. SumFunctionOnSet(v, {}) = 0
  BY <1>1, SumStep
<1>6. SumFunctionOnSet(v, {p}) = v[p]
  BY <1>1, <1>4, <1>5
<1> QED BY <1>2, <1>3, <1>6, RowSum

\* An account that is closed is closed once.
LEMMA NominalOnce ==
  /\ DOMAIN Nominal = 1..9 /\ Len(Nominal) = 9
  /\ \A i \in 1..9 : Nominal[i] \in Income \cup Expenses
  /\ \A a \in Income \cup Expenses : \E p \in 1..9 : \A i \in 1..9 : Nominal[i] = a <=> i = p
<1>1. DOMAIN Nominal = 1..9 /\ Len(Nominal) = 9
  BY DEF Nominal
<1>2. \A i \in 1..9 : i = 1 \/ i = 2 \/ i = 3 \/ i = 4 \/ i = 5 \/ i = 6 \/ i = 7 \/ i = 8 \/ i = 9
  OBVIOUS
<1>3. /\ Nominal[1] = "METAL_COGS" /\ Nominal[2] = "STONE_COGS" /\ Nominal[3] = "RENT_EXPENSE"
      /\ Nominal[4] = "ADJUSTMENT_EXPENSE" /\ Nominal[5] = "FX_LOSS" /\ Nominal[6] = "SALES_REVENUE"
      /\ Nominal[7] = "SALES_DISCOUNTS" /\ Nominal[8] = "MAKING_CHARGE_REVENUE" /\ Nominal[9] = "FX_GAIN"
  BY DEF Nominal
<1>4. \A i, p \in 1..9 : Nominal[i] = Nominal[p] => i = p
  BY <1>2, <1>3
<1>5. ASSUME NEW a \in Income \cup Expenses PROVE \E p \in 1..9 : Nominal[p] = a
  <2>1. \E p \in {1, 2, 3, 4, 5, 6, 7, 8, 9} : Nominal[p] = a
    BY <1>3 DEF Income, Expenses
  <2> QED BY <2>1
<1>6. \A i \in 1..9 : Nominal[i] \in Income \cup Expenses
  BY <1>2, <1>3 DEF Income, Expenses
<1> QED BY <1>1, <1>4, <1>5, <1>6

Nominals == Income \cup Expenses
ClosingLines(due, result) ==
  FlattenSeq([i \in DOMAIN Nominal |-> When(due[Nominal[i]] # 0, Usd(Nominal[i], -due[Nominal[i]]))])
    \o When(result # 0, Usd("RETAINED_EARNINGS", result))

\* The dollars of an account in one line.
LEMMA OverUsd ==
  ASSUME NEW a, NEW acct \in Accounts, NEW x \in Int
  PROVE  SumOver(BaseIn({a}), <<Usd(acct, x)>>) = IF acct = a THEN x ELSE 0
<1>1. Usd(acct, x) \in PostLine
  BY UsdPost
<1>2. Measure(BaseIn({a}), PostLine)
  BY Measures
<1>3. BaseIn({a})[Usd(acct, x)] = IF acct = a THEN x ELSE 0
  BY <1>1 DEF BaseIn, Usd, Line
<1> QED BY <1>1, <1>2, <1>3, OverOne

\* The opposite of nothing.
LEMMA Opposites == ASSUME NEW y \in Int, NEW x, x = -y PROVE x \in Int /\ (y = 0 => x = 0)
OBVIOUS

\* The closing entry takes from each account what is due on it.
LEMMA ClosingIs ==
  ASSUME NEW due, \A a \in Nominals : due[a] \in Int, NEW result \in Int
  PROVE  /\ ClosingLines(due, result) \in Seq(PostLine)
         /\ \A a \in Nominals : SumOver(BaseIn({a}), ClosingLines(due, result)) = -due[a]
<1>1. PICK ss : ss = [i \in DOMAIN Nominal |-> When(due[Nominal[i]] # 0, Usd(Nominal[i], -due[Nominal[i]]))]
  OBVIOUS
<1>2. PICK last : last = When(result # 0, Usd("RETAINED_EARNINGS", result))
  OBVIOUS
<1>3. Nominals \subseteq Accounts /\ "RETAINED_EARNINGS" \in Accounts /\ "RETAINED_EARNINGS" \notin Nominals
  BY DEF Nominals, Accounts, Income, Expenses, Equity
<1>4. ASSUME NEW a, NEW i \in 1..9
      PROVE  /\ Nominal[i] \in Nominals /\ due[Nominal[i]] \in Int /\ ss[i] \in Seq(PostLine)
             /\ SumOver(BaseIn({a}), ss[i]) = IF Nominal[i] = a THEN -due[a] ELSE 0
  <2>1. PICK acct, x, y : acct = Nominal[i] /\ y = due[acct] /\ x = -y
    OBVIOUS
  <2>2. acct \in Nominals /\ acct \in Accounts /\ y \in Int
    <3>1. acct \in Nominals
      BY <2>1, NominalOnce DEF Nominals
    <3> QED BY <1>3, <2>1, <3>1
  <2>3. x \in Int /\ (y = 0 => x = 0)
    BY <2>1, <2>2, Opposites
  <2>4. ss[i] = When(y # 0, Usd(acct, x))
    BY <1>1, <2>1, NominalOnce
  <2>5. ss[i] \in Seq(PostLine)
    <3>1. Usd(acct, x) \in PostLine
      BY <2>2, <2>3, UsdPost
    <3> QED BY <2>4, <3>1, LinesWhen
  <2>6. SumOver(BaseIn({a}), ss[i]) = IF acct = a THEN x ELSE 0
    <3>1. CASE y = 0
      <4>1. ss[i] = <<>>
        BY <2>4, <3>1 DEF When
      <4> QED BY <2>3, <3>1, <4>1, OverEmpty
    <3>2. CASE y # 0
      <4>1. ss[i] = <<Usd(acct, x)>>
        BY <2>4, <3>2 DEF When
      <4>2. acct \in Accounts /\ x \in Int
        BY <2>2, <2>3
      <4>3. SumOver(BaseIn({a}), <<Usd(acct, x)>>) = IF acct = a THEN x ELSE 0
        BY <4>2, OverUsd
      <4> QED BY <4>1, <4>3
    <3> QED BY <3>1, <3>2
  <2> QED BY <2>1, <2>2, <2>5, <2>6
<1>5. ss \in Seq(Seq(PostLine)) /\ Len(ss) = 9
  <2>1. PICK T : T = Seq(PostLine)
    OBVIOUS
  <2>2. DOMAIN ss = 1..9 /\ \A i \in 1..9 : ss[i] \in T
    BY <1>1, <1>4, <2>1, NominalOnce
  <2>3. ss = [i \in 1..9 |-> ss[i]]
    BY <1>1, NominalOnce
  <2>4. ss \in [1..9 -> T] /\ 9 \in Nat
    BY <2>2, <2>3
  <2>5. ss \in Seq(T)
    BY <2>4, SeqDef
  <2>6. Len(ss) = 9
    BY <2>2, <2>5
  <2> QED BY <2>1, <2>5, <2>6
<1>6. last \in Seq(PostLine)
  <2>1. Usd("RETAINED_EARNINGS", result) \in PostLine
    BY <1>3, UsdPost
  <2> QED BY <1>2, <2>1, LinesWhen
<1>7. ClosingLines(due, result) = FlattenSeq(ss) \o last
  BY <1>1, <1>2 DEF ClosingLines
<1>8. ClosingLines(due, result) \in Seq(PostLine)
  BY <1>5, <1>6, <1>7, LinesFlat, LinesJoin
<1>9. ASSUME NEW a \in Nominals PROVE SumOver(BaseIn({a}), ClosingLines(due, result)) = -due[a]
  <2>1. PICK f : f = BaseIn({a}) /\ Measure(f, PostLine)
    BY Measures
  <2>2. PICK v : v = [i \in 1..9 |-> SumOver(f, ss[i])]
    OBVIOUS
  <2>3. FlattenSeq(ss) \in Seq(PostLine) /\ SumOver(f, FlattenSeq(ss)) = SumTo(v, 9)
    BY <1>5, <2>1, <2>2, OverFlatten
  <2>4. PICK p \in 1..9 : \A i \in 1..9 : Nominal[i] = a <=> i = p
    BY NominalOnce DEF Nominals
  <2>5. PICK x : x = -due[a] /\ x \in Int
    BY <1>3
  <2>6. v[p] = x /\ \A i \in 1..9 : i # p => v[i] = 0
    BY <1>4, <2>1, <2>2, <2>4, <2>5
  <2>7. SumTo(v, 9) = x
    <3>1. v[p] \in Int /\ 9 \in Nat
      BY <2>5, <2>6
    <3> QED BY <2>6, <3>1, RowSingle
  <2>8. SumOver(f, last) = 0
    <3>1. last = <<>> \/ last = <<Usd("RETAINED_EARNINGS", result)>>
      BY <1>2 DEF When
    <3>2. SumOver(f, <<Usd("RETAINED_EARNINGS", result)>>) = 0
      BY <1>3, <2>1, OverUsd
    <3> QED BY <3>1, <3>2, OverEmpty
  <2>9. SumOver(f, FlattenSeq(ss) \o last) = SumOver(f, FlattenSeq(ss)) + SumOver(f, last)
    BY <1>6, <2>1, <2>3, OverConcat
  <2>10. SumOver(f, ClosingLines(due, result)) = x + 0
    BY <1>7, <2>3, <2>7, <2>8, <2>9
  <2> QED BY <2>1, <2>5, <2>10
<1> QED BY <1>8, <1>9

-----------------------------------------------------------------------------
(* The opening entry. *)

\* What is on the shelf is a number.
LEMMA ShelfInt ==
  ASSUME TablesTyped, NEW k \in KaratSet
  PROVE  OnShelf(k) \in Int /\ Worth(k) \in Int
<1>1. PICK n : n = Len(lots) /\ n \in Nat /\ DOMAIN lots = 1..n /\ \A i \in 1..n : lots[i] \in LotSet
  <2>1. lots \in Seq(LotSet)
    BY DEF TablesTyped
  <2> QED BY <2>1
<1>2. \A i \in 1..n : lots[i].grams \in Int /\ lots[i].cost \in Int
  BY <1>1 DEF LotSet
<1>3. PICK v, w : /\ v = [i \in DOMAIN lots |-> IF lots[i].karat = k THEN lots[i].grams ELSE 0]
                  /\ w = [i \in DOMAIN lots |-> IF lots[i].karat = k THEN lots[i].cost ELSE 0]
  OBVIOUS
<1>4. \A i \in 1..n : v[i] \in Int /\ w[i] \in Int
  BY <1>1, <1>2, <1>3
<1>5. SumTo(v, n) \in Int /\ SumTo(w, n) \in Int
  BY <1>1, <1>4, RowSum
<1>6. InLots(k, LAMBDA l : l.grams) = SumTo(v, n) /\ InLots(k, LAMBDA l : l.cost) = SumTo(w, n)
  BY <1>1, <1>3 DEF InLots, Total
<1>7. DOMAIN pieces = DOMAIN Workshop /\ \A p \in DOMAIN pieces : pieces[p].grams \in Int /\ pieces[p].cost \in Int
  BY DEF TablesTyped, PieceSet
<1>8. IsFiniteSet(Whole(k)) /\ Whole(k) \subseteq DOMAIN pieces
  <2>1. Whole(k) \subseteq DOMAIN Workshop
    BY <1>7 DEF Whole
  <2> QED BY <1>7, <2>1, FS_Subset, StartAssumption
<1>9. SumFunction([p \in Whole(k) |-> pieces[p].grams]) \in Int
  <2>1. PICK f : f = [p \in Whole(k) |-> pieces[p].grams]
    OBVIOUS
  <2>2. DOMAIN f = Whole(k) /\ \A p \in Whole(k) : f[p] \in Int
    BY <1>7, <1>8, <2>1
  <2>3. SumFunctionOnSet(f, Whole(k)) \in Int
    BY <1>8, <2>2, SumType
  <2> QED BY <2>1, <2>2, <2>3 DEF SumFunction
<1>10. SumFunction([p \in Whole(k) |-> pieces[p].cost]) \in Int
  <2>1. PICK f : f = [p \in Whole(k) |-> pieces[p].cost]
    OBVIOUS
  <2>2. DOMAIN f = Whole(k) /\ \A p \in Whole(k) : f[p] \in Int
    BY <1>7, <1>8, <2>1
  <2>3. SumFunctionOnSet(f, Whole(k)) \in Int
    BY <1>8, <2>2, SumType
  <2> QED BY <2>1, <2>2, <2>3 DEF SumFunction
<1>11. InUnits(k, units) \in Int
  <2>1. PICK f : f = [u \in DOMAIN units |-> IF Catalogue[u].karat = k THEN units[u] * Catalogue[u].grams ELSE 0]
    OBVIOUS
  <2>2. DOMAIN units = DOMAIN Stock /\ IsFiniteSet(DOMAIN units) /\ DOMAIN f = DOMAIN units
    BY <2>1, StartAssumption DEF TablesTyped
  <2>3. ASSUME NEW u \in DOMAIN units PROVE f[u] \in Int
    <3>1. PICK m, g : m = units[u] /\ g = Catalogue[u].grams
      OBVIOUS
    <3>2. m \in Int /\ g \in Int
      <4>1. u \in DOMAIN Catalogue
        BY <2>2, StartAssumption
      <4>2. Catalogue[u].grams \in Int
        BY <4>1, CatalogueAssumption
      <4>3. units[u] \in Int
        BY <2>2 DEF TablesTyped
      <4> QED BY <3>1, <4>2, <4>3
    <3>3. m * g \in Int
      BY <3>2, Times
    <3> QED BY <2>1, <3>1, <3>3
  <2>4. SumFunctionOnSet(f, DOMAIN units) \in Int
    BY <2>2, <2>3, SumType
  <2> QED BY <2>1, <2>2, <2>4 DEF SumFunction, InUnits
<1>12. PICK a, b, c, x, y : /\ a = InLots(k, LAMBDA l : l.grams) /\ x = InLots(k, LAMBDA l : l.cost)
                            /\ b = SumFunction([p \in Whole(k) |-> pieces[p].grams])
                            /\ y = SumFunction([p \in Whole(k) |-> pieces[p].cost])
                            /\ c = InUnits(k, units)
  OBVIOUS
<1>13. a \in Int /\ b \in Int /\ c \in Int /\ x \in Int /\ y \in Int
  BY <1>5, <1>6, <1>9, <1>10, <1>11, <1>12
<1>14. OnShelf(k) = a + b + c
  BY <1>12 DEF OnShelf
<1>15. Worth(k) = x + y
  BY <1>12 DEF Worth
<1> QED BY <1>13, <1>14, <1>15

\* The lines of the opening entry, as PostOpening writes them.
OpeningBlock(k) ==
  When(OnShelf(k) # 0, Metal("METAL_INVENTORY", Worth(k), OnShelf(k), k))
    \o When(owed[k] # 0, Metal("METAL_AP", 0, -owed[k], k))
    \o When(OnShelf(k) # owed[k], Metal("OPENING_BALANCE_EQUITY", 0, owed[k] - OnShelf(k), k))
Money == Total(Karats, Worth) - owed["CASH"]
OpeningLines ==
  FlattenSeq([i \in DOMAIN Karats |-> OpeningBlock(Karats[i])])
    \o When(owed["CASH"] # 0, Usd("AP", -owed["CASH"]))
    \o When(Money # 0, Usd("OPENING_BALANCE_EQUITY", -Money))

\* They are lines.
LEMMA OpeningTyped == ASSUME TablesTyped PROVE OpeningLines \in Seq(PostLine)
<1>1. owed["CASH"] \in Int /\ \A k \in KaratSet : owed[k] \in Int
  BY DEF TablesTyped
<1>2. ASSUME NEW k \in KaratSet PROVE OpeningBlock(k) \in Seq(PostLine)
  <2>1. PICK s, w, o : s = OnShelf(k) /\ w = Worth(k) /\ o = owed[k]
    OBVIOUS
  <2>2. s \in Int /\ w \in Int /\ o \in Int /\ -o \in Int /\ o - s \in Int /\ 0 \in Int
    BY <1>1, <2>1, ShelfInt
  <2>3. /\ Metal("METAL_INVENTORY", w, s, k) \in PostLine /\ Metal("METAL_AP", 0, -o, k) \in PostLine
        /\ Metal("OPENING_BALANCE_EQUITY", 0, o - s, k) \in PostLine
    BY <2>2, Chart, MetalPost
  <2> QED BY <2>1, <2>3, LinesWhen, LinesJoin DEF OpeningBlock
<1>3. PICK ss : ss = [i \in DOMAIN Karats |-> OpeningBlock(Karats[i])]
  OBVIOUS
<1>4. FlattenSeq(ss) \in Seq(PostLine)
  <2>1. \A i \in 1..2 : Karats[i] \in KaratSet => ss[i] \in Seq(PostLine)
    <3>1. DOMAIN Karats = 1..2
      BY DEF Karats
    <3> QED BY <1>2, <1>3, <3>1
  <2>2. DOMAIN ss = DOMAIN Karats /\ ss = [i \in DOMAIN ss |-> ss[i]]
    BY <1>3
  <2> QED BY <2>1, <2>2, KaratBlocks
<1>5. Total(Karats, Worth) \in Int
  <2>1. PICK v : v = [i \in DOMAIN Karats |-> Worth(Karats[i])]
    OBVIOUS
  <2>2. DOMAIN Karats = 1..2 /\ Len(Karats) = 2 /\ \A i \in 1..2 : Karats[i] \in KaratSet
    BY DEF Karats, KaratSet
  <2>3. \A i \in 1..2 : v[i] \in Int
    BY <2>1, <2>2, ShelfInt
  <2>4. SumTo(v, 2) \in Int
    BY <2>3, RowSum
  <2> QED BY <2>1, <2>2, <2>4 DEF Total
<1>6. PICK m, c : m = Money /\ c = owed["CASH"] /\ m \in Int /\ c \in Int /\ -m \in Int /\ -c \in Int
  <2>1. Money \in Int
    BY <1>1, <1>5 DEF Money
  <2> QED BY <1>1, <2>1
<1>7. Usd("AP", -c) \in PostLine /\ Usd("OPENING_BALANCE_EQUITY", -m) \in PostLine
  BY <1>6, Chart, UsdPost
<1> QED BY <1>3, <1>4, <1>6, <1>7, LinesWhen, LinesJoin DEF OpeningLines

-----------------------------------------------------------------------------
(* Years that are closed in their order stay settled. *)

\* The first m closings are of the first m years, and none of them was opened again.
InOrder(m) == \A j \in 1..m : closings[j] = j /\ j \notin reopened
Result(a, j, m) == Net(Dated(j), 1..m, {a})

\* The closings, by number, and the years they close.
LEMMA ClosingsIs ==
  ASSUME BooksTyped
  PROVE  /\ Len(closings) \in Nat /\ DOMAIN closings = 1..Len(closings)
         /\ Closed \subseteq 1..Years /\ \A k \in 1..Len(closings) : closings[k] \in Closed
<1>1. PICK T : T = 1..Years
  OBVIOUS
<1>2. closings \in Seq(T)
  BY <1>1 DEF BooksTyped
<1>3. /\ Len(closings) \in Nat /\ DOMAIN closings = 1..Len(closings)
      /\ \A k \in 1..Len(closings) : closings[k] \in T
  BY <1>2
<1>4. ASSUME NEW y \in Closed PROVE y \in T
  BY <1>3 DEF Closed, Range
<1> QED BY <1>1, <1>3, <1>4 DEF Closed, Range

\* No other closing is let in for them.
LEMMA InOrderClosed ==
  ASSUME BooksTyped, NEW m \in 1..Len(closings), InOrder(m)
  PROVE  1..m \subseteq Closed /\ \A j \in 1..m : j \notin reopened
<1>1. Len(closings) \in Nat /\ \A k \in 1..Len(closings) : closings[k] \in Closed
  BY ClosingsIs
<1>2. ASSUME NEW k \in 1..m PROVE k \in Closed
  <2>1. k \in 1..Len(closings) /\ closings[k] = k
    BY <1>1 DEF InOrder
  <2> QED BY <1>1, <2>1
<1> QED BY <1>2 DEF InOrder

\* Entries of years that are not closed, or that are opened again, leave what is settled.
LEMMA SettledStays ==
  ASSUME BooksInv, closings' = closings, reopened \subseteq reopened', NEW t \in Seq(EntrySet), journal' = journal \o t,
         \A i \in 1..Len(t) : t[i].year \in Closed => t[i].year \in reopened'
  PROVE  journal' \in Seq(EntrySet) /\ SettledBooksKept'
<1>1. BooksTyped /\ SettledBooksKept /\ journal \in Seq(EntrySet)
  BY DEF BooksInv, BooksTyped
<1>2. DOMAIN closings = 1..Len(closings) /\ Len(closings) \in Nat
  BY <1>1, ClosingsIs
<1>3. ASSUME NEW m \in DOMAIN closings, \A j \in 1..m : closings[j] = j /\ j \notin reopened', NEW a \in Nominals
      PROVE  Net(Dated(journal'), 1..m, {a}) = 0
  <2>1. InOrder(m) /\ m \in 1..Len(closings)
    BY <1>2, <1>3 DEF InOrder
  <2>2. Net(Dated(journal), 1..m, {a}) = 0
    BY <1>1, <1>3, <2>1 DEF SettledBooksKept, InOrder, Nominals
  <2>3. 1..m \subseteq Closed
    BY <1>1, <2>1, InOrderClosed
  <2>4. \A i \in 1..Len(t) : t[i].year \notin 1..m
    BY <1>3, <2>3
  <2>5. PICK days, A : days = 1..m /\ A = {a}
    OBVIOUS
  <2>6. \A i \in 1..Len(t) : t[i].year \notin days
    BY <2>4, <2>5
  <2>7. Net(Dated(journal \o t), days, A) = Net(Dated(journal), days, A)
    BY <1>1, <2>6, LaterEntries
  <2> QED BY <2>2, <2>5, <2>7
<1>4. SettledBooksKept'
  <2>1. Dated(journal)' = Dated(journal')
    BY DEF Dated
  <2> QED BY <1>3, <2>1 DEF SettledBooksKept, Nominals
<1>5. journal \o t \in Seq(EntrySet)
  BY <1>1
<1> QED BY <1>4, <1>5

\* Entries are made in open months.
LEMMA EnterKeeps ==
  ASSUME BooksInv, closings' = closings, NEW new, Enter(new), Adds(journal, new, EntrySet),
         reopened \subseteq reopened', reopened' \subseteq 1..Years,
         \A y \in Closed : period'[y] = "OPEN" => y \in reopened'
  PROVE  BooksInv'
<1>1. BooksTyped /\ journal \in Seq(EntrySet) /\ period \in [1..Years -> Months]
  BY DEF BooksInv, BooksTyped
<1>2. PICK t \in Seq(EntrySet) : new = journal \o t
  BY DEF Adds
<1>3. PICK years : years = {new[i].year : i \in (Len(journal) + 1)..Len(new)}
  OBVIOUS
<1>4. journal' = new /\ period' = [y \in DOMAIN period |-> IF y \in years THEN "OPEN" ELSE period[y]]
  BY <1>3 DEF Enter
<1>5. period' \in [1..Years -> Months]
  BY <1>1, <1>4 DEF Months
<1>6. ASSUME NEW i \in 1..Len(t), t[i].year \in Closed PROVE t[i].year \in reopened'
  <2>1. PICK m, n : m = Len(journal) /\ n = Len(t) /\ m \in Nat /\ n \in Nat /\ Len(new) = m + n
    <3>1. Len(journal) \in Nat /\ Len(t) \in Nat /\ Len(new) = Len(journal) + Len(t)
      BY <1>1, <1>2
    <3> QED BY <3>1
  <2>2. new[m + i] = t[i] /\ m + i \in (m + 1)..(m + n)
    BY <1>1, <1>2, <2>1
  <2>3. t[i].year \in years
    BY <1>3, <2>1, <2>2
  <2>4. t[i].year \in 1..Years
    BY <1>1, <1>6, ClosingsIs
  <2>5. period'[t[i].year] = "OPEN"
    BY <1>1, <1>4, <2>3, <2>4
  <2> QED BY <1>6, <2>5
<1>7. journal' \in Seq(EntrySet) /\ SettledBooksKept'
  BY <1>2, <1>4, <1>6, SettledStays
<1>8. closings' \in Seq(1..Years) /\ Closed' = Closed
  BY <1>1 DEF BooksTyped, Closed
<1>9. BooksTyped' /\ Noticed'
  BY <1>5, <1>7, <1>8 DEF BooksTyped, Noticed
<1> QED BY <1>7, <1>9 DEF BooksInv

\* A handler makes an entry, or none.
LEMMA LiveKeeps ==
  ASSUME BooksInv, closings' = closings, Len(docs) \in Nat, NEW s \in StepSet, Live(s)
  PROVE  BooksInv'
<1>1. BooksTyped /\ journal \in Seq(EntrySet) /\ Closed \subseteq 1..Years /\ reopened \subseteq 1..Years
  BY ClosingsIs DEF BooksInv, BooksTyped
<1>2. PICK new : new = IF autoPost THEN Book(journal, s) ELSE journal
  OBVIOUS
<1>3. Enter(new) /\ reopened' = reopened \cup {y \in Closed : period'[y] = "OPEN"}
  BY <1>2 DEF Live, Watched
<1>4. Adds(journal, new, EntrySet)
  BY <1>1, <1>2, Booked, AddsNone, AddsOne
<1>5. /\ reopened \subseteq reopened' /\ reopened' \subseteq 1..Years
      /\ \A y \in Closed : period'[y] = "OPEN" => y \in reopened'
  BY <1>1, <1>3
<1> QED BY <1>3, <1>4, <1>5, EnterKeeps

\* The journal stays, and the calendar may not.
LEMMA BooksLeft ==
  ASSUME BooksInv, journal' = journal, closings' = closings, period' \in [1..Years -> Months],
         reopened \subseteq reopened', reopened' \subseteq 1..Years,
         \A y \in Closed : period'[y] = "OPEN" => y \in reopened'
  PROVE  BooksInv'
<1>1. BooksTyped /\ journal \in Seq(EntrySet)
  BY DEF BooksInv, BooksTyped
<1>2. PICK t : t = <<>>
  OBVIOUS
<1>3. t \in Seq(EntrySet) /\ Len(t) = 0 /\ journal' = journal \o t
  BY <1>1, <1>2
<1>4. \A i \in 1..Len(t) : t[i].year \in Closed => t[i].year \in reopened'
  BY <1>3
<1>5. journal' \in Seq(EntrySet) /\ SettledBooksKept'
  BY <1>3, <1>4, SettledStays
<1>6. closings' \in Seq(1..Years) /\ Closed' = Closed
  BY <1>1 DEF BooksTyped, Closed
<1>7. BooksTyped' /\ Noticed'
  BY <1>5, <1>6 DEF BooksTyped, Noticed
<1> QED BY <1>5, <1>7 DEF BooksInv

\* Both stay.
LEMMA BooksSame ==
  ASSUME BooksInv, UNCHANGED <<journal, closings, calendar>>
  PROVE  BooksInv'
<1>1. journal' = journal /\ closings' = closings /\ period' = period /\ reopened' = reopened
  BY DEF calendar
<1>2. period \in [1..Years -> Months] /\ reopened \subseteq 1..Years /\ \A y \in Closed : period[y] = "OPEN" => y \in reopened
  BY DEF BooksInv, BooksTyped, Noticed
<1> QED BY <1>1, <1>2, BooksLeft

-----------------------------------------------------------------------------
(* What the actions leave. *)

\* The tables of the shop, but for its orders.
ShopTyped ==
  /\ units \in [DOMAIN Stock -> Int] /\ pieces \in [DOMAIN Workshop -> PieceSet]
  /\ lots \in Seq(LotSet) /\ owed \in [{"CASH"} \cup KaratSet -> Int]

\* Orders that come after these, or are these with other fields.
Continue(sales) ==
  /\ sales \in Seq(OrderSet) /\ Len(orders) <= Len(sales)
  /\ \A n \in 1..Len(orders) : Len(sales[n].items) = Len(orders[n].items)

\* Documents stay grounded.
LEMMA GroundedStays ==
  ASSUME TablesTyped, NEW sales, Continue(sales), NEW d \in DocSet, Grounded(d, orders)
  PROVE  Grounded(d, sales)
<1>1. Len(orders) \in Nat /\ Len(sales) \in Nat /\ Len(orders) <= Len(sales)
  BY DEF TablesTyped, Continue
<1>2. \A n \in 1..Len(orders) : n \in 1..Len(sales) /\ Len(sales[n].items) = Len(orders[n].items)
  BY <1>1 DEF Continue
<1>3. d \in Sold \cup Returned => d.of.n \in 1..Len(sales)
  BY <1>2 DEF Grounded
<1>4. ASSUME d \in Returned PROVE d.of.i \in 1..Len(sales[d.of.n].items)
  <2>1. PICK n : n = d.of.n /\ n \in 1..Len(orders) /\ d.of.i \in 1..Len(orders[n].items)
    BY <1>4 DEF Grounded
  <2>2. Len(sales[n].items) = Len(orders[n].items)
    BY <1>2, <2>1
  <2> QED BY <2>1, <2>2
<1> QED BY <1>3, <1>4 DEF Grounded

\* A document of today is written down, and in the journal if it is written.
LEMMA Recorded ==
  ASSUME HistoryInv, NEW when \in 1..Years, NEW doc, NEW source, NEW sale, NEW lines,
         Record(when, doc, source, sale, lines), Step("LIVE", when, source, sale, lines) \in StepSet,
         NEW d \in DocSet, d = [year |-> when, source |-> source, lines |-> lines, of |-> doc],
         Grounded(d, orders'), Continue(orders'), ShopTyped'
  PROVE  HistoryInv'
<1>1. d = [year |-> when, source |-> source, lines |-> lines, of |-> doc]
  OBVIOUS
<1>2. TablesTyped /\ BooksInv
  BY DEF HistoryInv
<1>3. PICK n : n = Len(docs) /\ n \in Nat /\ docs \in Seq(DocSet)
  <2>1. docs \in Seq(DocSet)
    BY <1>2 DEF TablesTyped
  <2> QED BY <2>1
<1>4. docs' = Append(docs, d) /\ docs' \in Seq(DocSet) /\ Len(docs') = n + 1
  BY <1>1, <1>3 DEF Record
<1>5. ASSUME NEW k \in 1..Len(docs') PROVE Grounded(docs'[k], orders')
  <2>1. CASE k = n + 1
    <3>1. docs'[k] = d
      BY <1>3, <1>4, <2>1
    <3> QED BY <1>1, <3>1
  <2>2. CASE k # n + 1
    <3>1. k \in 1..n
      BY <1>3, <1>4, <2>2
    <3>2. docs'[k] = docs[k]
      BY <1>3, <1>4, <3>1
    <3>3. docs[k] \in DocSet /\ Grounded(docs[k], orders)
      BY <1>2, <1>3, <3>1 DEF TablesTyped
    <3> QED BY <1>2, <3>2, <3>3, GroundedStays
  <2> QED BY <2>1, <2>2
<1>6. BooksInv'
  <2>1. PICK s : s = Step("LIVE", when, source, sale, lines) /\ s \in StepSet
    OBVIOUS
  <2>2. closings' = closings /\ Live(s)
    BY <2>1 DEF Record
  <2> QED BY <1>2, <1>3, <2>1, <2>2, LiveKeeps
<1>7. TablesTyped'
  <2>1. year' = year /\ vat' = vat /\ autoPost' = autoPost
    BY DEF Record, settings
  <2>2. year' \in 1..Years /\ vat' \in VatRates /\ autoPost' \in BOOLEAN
    BY <1>2, <2>1 DEF TablesTyped
  <2>3. orders' \in Seq(OrderSet)
    BY DEF Continue
  <2> QED BY <1>4, <1>5, <2>2, <2>3 DEF TablesTyped, ShopTyped
<1> QED BY <1>6, <1>7 DEF HistoryInv

\* The tables of the shop are typed, and go on as they are.
LEMMA ShopIs ==
  ASSUME TablesTyped
  PROVE  /\ ShopTyped /\ Continue(orders) /\ year \in 1..Years /\ vat \in VatRates /\ vat \in Int
         /\ Len(orders) \in Nat /\ Len(docs) \in Nat /\ DOMAIN orders = 1..Len(orders)
<1>1. VatRates \subseteq Int
  <2>1. 0..100 \subseteq Int
    OBVIOUS
  <2> QED BY <2>1, RateAssumption
<1>2. orders \in Seq(OrderSet) /\ docs \in Seq(DocSet) /\ vat \in VatRates
  BY DEF TablesTyped
<1>3. Len(orders) \in Nat /\ Len(docs) \in Nat /\ DOMAIN orders = 1..Len(orders)
  BY <1>2
<1>4. Continue(orders)
  BY <1>2, <1>3 DEF Continue
<1>5. ShopTyped /\ year \in 1..Years
  BY DEF TablesTyped, ShopTyped
<1> QED BY <1>1, <1>2, <1>3, <1>4, <1>5

\* One order changes.
LEMMA OrderChanged ==
  ASSUME TablesTyped, NEW n \in 1..Len(orders), NEW o \in OrderSet, Len(o.items) = Len(orders[n].items),
         NEW sales, sales = [orders EXCEPT ![n] = o]
  PROVE  Continue(sales) /\ Len(sales) = Len(orders) /\ sales[n] = o
<1>1. PICK m : m = Len(orders) /\ m \in Nat /\ orders \in Seq(OrderSet) /\ DOMAIN orders = 1..m
               /\ \A k \in 1..m : orders[k] \in OrderSet
  <2>1. orders \in Seq(OrderSet)
    BY DEF TablesTyped
  <2> QED BY <2>1
<1>2. sales \in [1..m -> OrderSet] /\ sales[n] = o /\ \A k \in 1..m : k # n => sales[k] = orders[k]
  BY <1>1
<1>3. sales \in Seq(OrderSet)
  BY <1>1, <1>2, SeqDef
<1>4. Len(sales) = m
  BY <1>1, <1>2, <1>3, LenProperties
<1> QED BY <1>1, <1>2, <1>3, <1>4 DEF Continue

\* The status of an order changes.
LEMMA StatusChanged ==
  ASSUME TablesTyped, NEW n \in 1..Len(orders), NEW status \in {"VOIDED", "REFUNDED"},
         NEW sales, sales = [orders EXCEPT ![n].status = status]
  PROVE  Continue(sales) /\ Len(sales) = Len(orders)
<1>1. PICK o : o = [orders[n] EXCEPT !.status = status]
  OBVIOUS
<1>2. orders[n] \in OrderSet /\ DOMAIN orders = 1..Len(orders)
  <2>1. orders \in Seq(OrderSet)
    BY DEF TablesTyped
  <2> QED BY <2>1
<1>3. o \in OrderSet /\ o.items = orders[n].items
  BY <1>1, <1>2 DEF OrderSet
<1>4. sales = [orders EXCEPT ![n] = o]
  BY <1>1, <1>2
<1> QED BY <1>3, <1>4, OrderChanged

\* Units go off the shelf and come back to it.
LEMMA ShelvedTyped ==
  ASSUME TablesTyped, NEW n \in Nat, NEW items, Len(items) = n, DOMAIN items = 1..n,
         \A i \in 1..n : items[i].qty \in Int, NEW sign \in Int
  PROVE  Shelved(items, sign) \in [DOMAIN Stock -> Int]
<1>1. DOMAIN units = DOMAIN Stock /\ \A u \in DOMAIN units : units[u] \in Int
  BY DEF TablesTyped
<1>2. PICK f : f = Shelved(items, sign)
  OBVIOUS
<1>3. ASSUME NEW u \in DOMAIN units PROVE f[u] \in Int
  <2>1. PICK v : v = [i \in DOMAIN items |-> IF items[i].unit = u THEN items[i].qty ELSE 0]
    OBVIOUS
  <2>2. \A i \in 1..n : v[i] \in Int
    BY <2>1
  <2>3. PICK s : s = SumTo(v, n) /\ s \in Int
    BY <2>2, RowSum
  <2>4. PICK a, b : a = units[u] /\ b = sign * s
    OBVIOUS
  <2>5. b \in Int
    BY <2>3, <2>4, Times
  <2>6. Total(items, LAMBDA it : IF it.unit = u THEN it.qty ELSE 0) = s
    BY <2>1, <2>3 DEF Total
  <2>7. f[u] = a + b
    BY <1>2, <2>4, <2>6 DEF Shelved
  <2> QED BY <1>1, <2>4, <2>5, <2>7
<1>4. f = [u \in DOMAIN units |-> f[u]]
  BY <1>2 DEF Shelved
<1> QED BY <1>1, <1>2, <1>3, <1>4

\* An order is placed.
LEMMA OrderPlaced ==
  ASSUME TablesTyped, NEW o \in OrderSet, NEW sales, sales = Append(orders, o)
  PROVE  Continue(sales) /\ Len(sales) = Len(orders) + 1
<1>1. orders \in Seq(OrderSet)
  BY DEF TablesTyped
<1>2. /\ sales \in Seq(OrderSet) /\ Len(sales) = Len(orders) + 1 /\ Len(orders) \in Nat
      /\ \A k \in 1..Len(orders) : sales[k] = orders[k]
  BY <1>1
<1> QED BY <1>2 DEF Continue

-----------------------------------------------------------------------------
(* One lemma for each action. *)

\* A sale.
LEMMA SellKeeps ==
  ASSUME HistoryInv, NEW cart \in Carts, NEW percent \in Discounts, Sell(cart, percent)
  PROVE  HistoryInv'
<1>1. /\ TablesTyped /\ ShopTyped /\ year \in 1..Years /\ vat \in VatRates /\ Len(orders) \in Nat
  BY ShopIs DEF HistoryInv
<1>2. PICK n, o, doc, source, lines :
        /\ n = Len(orders) + 1 /\ o = NewOrder(cart, "CASH", percent, vat) /\ doc = [n |-> n]
        /\ source = <<"ORDER", n>> /\ lines = SaleLines(o)
  OBVIOUS
<1>3. o \in OrderSet /\ lines \in Seq(PostLine) /\ n \in Nat \ {0}
  BY <1>1, <1>2, NewTyped, SaleTyped
<1>4. /\ orders' = Append(orders, o) /\ units' = Shelved(cart, -1) /\ Record(year, doc, source, <<>>, lines)
      /\ pieces' = pieces /\ lots' = lots /\ owed' = owed
  BY <1>2 DEF Sell
<1>5. Continue(orders') /\ Len(orders') = n
  BY <1>1, <1>2, <1>3, <1>4, OrderPlaced
<1>6. Step("LIVE", year, source, <<>>, lines) \in StepSet
  <2>1. source \in Sources /\ source[1] = "ORDER"
    BY <1>2, <1>3 DEF Sources
  <2> QED BY <1>1, <1>3, <2>1, StepTyped DEF Writers
<1>7. PICK d : d = [year |-> year, source |-> source, lines |-> lines, of |-> doc]
  OBVIOUS
<1>8. d \in Sold /\ d \in DocSet /\ d.of.n = n /\ d \notin Returned
  BY <1>1, <1>2, <1>3, <1>7 DEF Sold, Returned, Papers, DocSet
<1>9. Grounded(d, orders')
  BY <1>3, <1>5, <1>8 DEF Grounded
<1>10. ShopTyped'
  <2>1. cart \in Seq([unit : DOMAIN Stock, qty : Nat])
    BY SaleAssumption DEF Items
  <2>2. PICK m : m = Len(cart) /\ m \in Nat /\ DOMAIN cart = 1..m /\ \A i \in 1..m : cart[i].qty \in Int
    <3>1. PICK T : T = [unit : DOMAIN Stock, qty : Nat]
      OBVIOUS
    <3>2. cart \in Seq(T)
      BY <2>1, <3>1
    <3>3. \A i \in 1..Len(cart) : cart[i] \in T
      BY <3>2
    <3>4. \A c \in T : c.qty \in Int
      BY <3>1
    <3> QED BY <3>2, <3>3, <3>4
  <2>3. PICK s : s = -1 /\ s \in Int
    OBVIOUS
  <2>4. Shelved(cart, s) \in [DOMAIN Stock -> Int]
    BY <1>1, <2>2, <2>3, ShelvedTyped
  <2> QED BY <1>1, <1>4, <2>3, <2>4 DEF ShopTyped
<1> QED BY <1>1, <1>4, <1>5, <1>6, <1>7, <1>8, <1>9, <1>10, Recorded

\* A line refund.
LEMMA RefundItemKeeps ==
  ASSUME HistoryInv, NEW n \in DOMAIN orders, NEW i \in DOMAIN orders[n].items, NEW qty, RefundItem(n, i, qty)
  PROVE  HistoryInv'
<1>1. /\ TablesTyped /\ ShopTyped /\ year \in 1..Years /\ vat \in Int /\ n \in 1..Len(orders)
  BY ShopIs DEF HistoryInv
<1>2. PICK o : o = orders[n] /\ o \in OrderSet
  <2>1. orders \in Seq(OrderSet)
    BY <1>1 DEF TablesTyped
  <2> QED BY <1>1, <2>1
<1>3. o.items \in Seq(ItemSet) /\ i \in 1..Len(o.items) /\ o.total \in Int /\ o.items[i] \in ItemSet
  <2>1. o.items \in Seq(ItemSet) /\ o.total \in Int
    BY <1>2, OrderFields
  <2> QED BY <1>2, <2>1
<1>4. qty \in Nat
  <2>1. PICK q, r : q = o.items[i].qty /\ r = o.items[i].refunded /\ q \in Nat /\ r \in Nat
    BY <1>3 DEF ItemSet
  <2>2. qty \in 1..(q - r)
    BY <1>2, <2>1 DEF RefundItem
  <2> QED BY <2>1, <2>2
<1>5. PICK left, gone, handed, doc, source, sale, lines :
        /\ left = Refunded(o, i, qty, vat) /\ gone = left.items[i].refunded /\ handed = o.total - left.total
        /\ doc = [n |-> n, i |-> i, qty |-> qty, handed |-> handed]
        /\ source = <<"ORDER_REFUND", n, i, gone>> /\ sale = <<"ORDER", n>>
        /\ lines = RefundLines(left, i, qty, vat)
  OBVIOUS
<1>6. left \in OrderSet /\ Len(left.items) = Len(o.items) /\ gone \in Nat
  BY <1>2, <1>3, <1>4, <1>5, ReturnTyped
<1>7. lines \in Seq(PostLine) /\ handed \in Int
  <2>1. i \in 1..Len(left.items) /\ qty \in Int
    BY <1>3, <1>4, <1>6
  <2>2. left.total \in Int
    BY <1>6, OrderFields
  <2>3. RefundLines(left, i, qty, vat) \in Seq(PostLine)
    BY <1>1, <1>6, <2>1, RefundTyped
  <2> QED BY <1>3, <1>5, <2>2, <2>3
<1>8. /\ orders' = [orders EXCEPT ![n] = left] /\ units' = [units EXCEPT ![o.items[i].unit] = @ + qty]
      /\ Record(year, doc, source, sale, lines) /\ pieces' = pieces /\ lots' = lots /\ owed' = owed
  BY <1>2, <1>5 DEF RefundItem
<1>9. Continue(orders') /\ Len(orders') = Len(orders) /\ orders'[n] = left
  BY <1>1, <1>2, <1>6, <1>8, OrderChanged
<1>10. n \in Nat /\ i \in Nat
  <2>1. Len(orders) \in Nat /\ Len(o.items) \in Nat
    BY <1>1, <1>3, ShopIs
  <2> QED BY <1>1, <1>3, <2>1
<1>11. source \in Sources /\ source[1] = "ORDER_REFUND" /\ sale \in Sources
  BY <1>5, <1>6, <1>10 DEF Sources
<1>12. Step("LIVE", year, source, sale, lines) \in StepSet
  BY <1>1, <1>7, <1>11, StepTyped DEF Writers
<1>13. PICK d : d = [year |-> year, source |-> source, lines |-> lines, of |-> doc]
  OBVIOUS
<1>14. d \in Returned /\ d \in DocSet /\ d.of.n = n /\ d.of.i = i
  <2>1. source \in {"ORDER_REFUND"} \X Nat \X Nat \X Nat
    BY <1>5, <1>6, <1>10
  <2>2. doc \in [n : Nat, i : Nat, qty : Nat, handed : Int] /\ doc.n = n /\ doc.i = i
    BY <1>4, <1>5, <1>7, <1>10
  <2> QED BY <1>1, <1>7, <1>13, <2>1, <2>2 DEF Returned, Papers, DocSet
<1>15. Grounded(d, orders')
  BY <1>1, <1>3, <1>6, <1>9, <1>14 DEF Grounded
<1>16. ShopTyped'
  <2>1. PICK u, D : u = o.items[i].unit /\ D = DOMAIN Stock
    OBVIOUS
  <2>2. units \in [D -> Int] /\ units' = [units EXCEPT ![u] = @ + qty] /\ qty \in Int
    BY <1>1, <1>4, <1>8, <2>1 DEF ShopTyped
  <2>3. \A w \in D : units[w] + qty \in Int
    BY <2>2
  <2>4. units' \in [D -> Int]
    BY <2>2, <2>3
  <2> QED BY <1>1, <1>8, <2>1, <2>4 DEF ShopTyped
<1> QED BY <1>1, <1>8, <1>9, <1>12, <1>13, <1>14, <1>15, <1>16, Recorded

\* A sale is voided.
LEMMA VoidKeeps ==
  ASSUME HistoryInv, NEW n \in DOMAIN orders, Void(n)
  PROVE  HistoryInv'
<1>1. /\ TablesTyped /\ ShopTyped /\ year \in 1..Years /\ n \in 1..Len(orders) /\ Len(orders) \in Nat
  BY ShopIs DEF HistoryInv
<1>2. PICK o : o = orders[n] /\ o \in OrderSet
  <2>1. orders \in Seq(OrderSet)
    BY <1>1 DEF TablesTyped
  <2> QED BY <1>1, <2>1
<1>3. PICK doc, source, sale : doc = [n |-> n] /\ source = <<"VOID", n>> /\ sale = <<"ORDER", n>>
  OBVIOUS
<1>4. /\ orders' = [orders EXCEPT ![n].status = "VOIDED"] /\ units' = Shelved(o.items, 1)
      /\ Record(year, doc, source, sale, <<>>) /\ pieces' = pieces /\ lots' = lots /\ owed' = owed
  BY <1>2, <1>3 DEF Void
<1>5. Continue(orders') /\ Len(orders') = Len(orders)
  BY <1>1, <1>4, StatusChanged
<1>6. n \in Nat /\ <<>> \in Seq(PostLine)
  BY <1>1
<1>7. source \in Sources /\ sale \in Sources /\ sale # <<>>
  BY <1>3, <1>6 DEF Sources
<1>8. Step("LIVE", year, source, sale, <<>>) \in StepSet
  BY <1>1, <1>6, <1>7, StepTyped DEF Writers
<1>9. PICK d : d = [year |-> year, source |-> source, lines |-> <<>>, of |-> doc]
  OBVIOUS
<1>10. d \in Sold /\ d \in DocSet /\ d.of.n = n /\ d \notin Returned
  BY <1>1, <1>3, <1>6, <1>9 DEF Sold, Returned, Papers, DocSet
<1>11. Grounded(d, orders')
  BY <1>1, <1>5, <1>10 DEF Grounded
<1>12. ShopTyped'
  <2>1. PICK items, m : items = o.items /\ m = Len(items) /\ m \in Nat /\ DOMAIN items = 1..m
                        /\ \A i \in 1..m : items[i].qty \in Int
    <3>1. o.items \in Seq(ItemSet)
      BY <1>2, OrderFields
    <3>2. \A c \in ItemSet : c.qty \in Int
      BY DEF ItemSet
    <3> QED BY <3>1, <3>2
  <2>2. PICK s : s = 1 /\ s \in Int
    OBVIOUS
  <2>3. Shelved(items, s) \in [DOMAIN Stock -> Int]
    BY <1>1, <2>1, <2>2, ShelvedTyped
  <2> QED BY <1>1, <1>4, <2>1, <2>2, <2>3 DEF ShopTyped
<1> QED BY <1>1, <1>4, <1>5, <1>8, <1>9, <1>10, <1>11, <1>12, Recorded

\* A sale is refunded in whole: it has no document of its own.
LEMMA RefundOrderKeeps ==
  ASSUME HistoryInv, NEW n \in DOMAIN orders, RefundOrder(n)
  PROVE  HistoryInv'
<1>1. TablesTyped /\ BooksInv /\ n \in 1..Len(orders) /\ Len(orders) \in Nat /\ year \in 1..Years /\ Len(docs) \in Nat
  BY ShopIs DEF HistoryInv
<1>2. PICK s : s = Step("LIVE", year, <<"VOID", n>>, <<"ORDER", n>>, <<>>)
  OBVIOUS
<1>3. /\ orders' = [orders EXCEPT ![n].status = "REFUNDED"] /\ Live(s)
      /\ UNCHANGED <<year, settings, docs, units, pieces, lots, owed, closings>>
  BY <1>2 DEF RefundOrder
<1>4. s \in StepSet
  <2>1. <<"VOID", n>> \in Sources /\ <<"ORDER", n>> \in Sources /\ <<"ORDER", n>> # <<>> /\ <<>> \in Seq(PostLine)
    BY <1>1 DEF Sources
  <2> QED BY <1>1, <1>2, <2>1, StepTyped DEF Writers
<1>5. Continue(orders')
  BY <1>1, <1>3, StatusChanged
<1>6. closings' = closings /\ docs' = docs
  BY <1>3
<1>7. BooksInv'
  BY <1>1, <1>3, <1>4, <1>6, LiveKeeps
<1>8. \A k \in 1..Len(docs') : Grounded(docs'[k], orders')
  <2>1. \A k \in 1..Len(docs) : docs[k] \in DocSet /\ Grounded(docs[k], orders)
    BY <1>1 DEF TablesTyped
  <2> QED BY <1>1, <1>5, <1>6, <2>1, GroundedStays
<1>9. TablesTyped'
  BY <1>1, <1>3, <1>5, <1>8 DEF TablesTyped, Continue, settings
<1> QED BY <1>7, <1>9 DEF HistoryInv

\* A piece is molten.
LEMMA MeltKeeps ==
  ASSUME HistoryInv, NEW p \in DOMAIN pieces, NEW cast \in Casts, NEW karatToo \in BOOLEAN, NEW weightToo \in BOOLEAN,
         Melt(p, cast, karatToo, weightToo)
  PROVE  HistoryInv'
<1>1. TablesTyped /\ ShopTyped /\ year \in 1..Years /\ Continue(orders) /\ p \in DOMAIN Workshop
  BY ShopIs DEF HistoryInv, TablesTyped
<1>2. PICK from : from = pieces[p] /\ from \in PieceSet
  BY <1>1 DEF ShopTyped
<1>3. PICK to : to = [karat |-> IF karatToo THEN cast.karat ELSE from.karat,
                      grams |-> IF weightToo THEN cast.grams ELSE from.grams]
  OBVIOUS
<1>4. /\ from.karat \in KaratSet /\ from.grams \in Nat /\ from.cost \in Nat
      /\ to \in [karat : KaratSet, grams : Nat] /\ to.karat \in KaratSet /\ to.grams \in Nat
  <2>1. cast.karat \in KaratSet /\ cast.grams \in Nat
    BY GoldAssumption
  <2>2. from.karat \in KaratSet /\ from.grams \in Nat /\ from.cost \in Nat
    BY <1>2 DEF PieceSet
  <2> QED BY <1>3, <2>1, <2>2
<1>5. PICK doc, source, lines :
        /\ doc = [p |-> p, to |-> to, cost |-> from.cost, karatToo |-> karatToo, weightToo |-> weightToo]
        /\ source = <<"MELT", p>> /\ lines = MeltLines(from, to, from.cost)
  OBVIOUS
<1>6. /\ pieces' = [pieces EXCEPT ![p].status = "MELTED"] /\ lots' = Append(lots, Lot(to.karat, to.grams, from.cost))
      /\ Record(year, doc, source, <<>>, lines) /\ orders' = orders /\ units' = units /\ owed' = owed
  BY <1>2, <1>3, <1>5 DEF Melt
<1>7. lines \in Seq(PostLine)
  <2>1. PICK c : c = from.cost
    OBVIOUS
  <2>2. c \in Int /\ from.grams \in Int /\ to.grams \in Int
    BY <1>4, <2>1
  <2>3. MeltLines(from, to, c) \in Seq(PostLine)
    BY <1>4, <2>2, MeltTyped
  <2> QED BY <1>5, <2>1, <2>3
<1>8. source \in Sources /\ source[1] = "MELT"
  BY <1>1, <1>5 DEF Sources
<1>9. Step("LIVE", year, source, <<>>, lines) \in StepSet
  BY <1>1, <1>7, <1>8, StepTyped DEF Writers
<1>10. PICK d : d = [year |-> year, source |-> source, lines |-> lines, of |-> doc]
  OBVIOUS
<1>11. d \in Molten /\ d \in DocSet /\ d \notin Sold /\ d \notin Returned
  <2>1. source \in {"MELT"} \X DOMAIN Workshop
    BY <1>1, <1>5
  <2>2. doc \in [p : DOMAIN Workshop, to : [karat : KaratSet, grams : Nat], cost : Nat,
                 karatToo : BOOLEAN, weightToo : BOOLEAN]
    BY <1>1, <1>4, <1>5
  <2>3. d \in Molten
    BY <1>1, <1>7, <1>10, <2>1, <2>2 DEF Molten, Papers
  <2>4. d.source[1] = "MELT"
    BY <1>8, <1>10
  <2>5. d \notin Sold
    BY <2>4 DEF Sold, Papers
  <2>6. d \notin Returned
    BY <2>4 DEF Returned, Papers
  <2> QED BY <2>3, <2>5, <2>6 DEF DocSet
<1>12. Grounded(d, orders')
  BY <1>11 DEF Grounded
<1>13. ShopTyped'
  <2>1. Lot(to.karat, to.grams, from.cost) \in LotSet
    BY <1>4 DEF Lot, LotSet
  <2>2. lots' \in Seq(LotSet)
    BY <1>1, <1>6, <2>1 DEF ShopTyped
  <2>3. pieces' \in [DOMAIN Workshop -> PieceSet]
    <3>1. PICK new : new = [from EXCEPT !.status = "MELTED"]
      OBVIOUS
    <3>2. new \in PieceSet
      BY <1>2, <3>1 DEF PieceSet
    <3>3. pieces' = [pieces EXCEPT ![p] = new]
      BY <1>2, <1>6, <3>1
    <3> QED BY <1>1, <3>2, <3>3 DEF ShopTyped
  <2> QED BY <1>1, <1>6, <2>2, <2>3 DEF ShopTyped
<1>14. Continue(orders')
  BY <1>1, <1>6 DEF Continue
<1> QED BY <1>1, <1>6, <1>9, <1>10, <1>11, <1>12, <1>13, <1>14, Recorded

\* A document that names no order.
LEMMA PlainRecorded ==
  ASSUME HistoryInv, NEW when \in 1..Years, NEW kind \in {"BUYBACK", "SUPPLIER_PURCHASE", "ADJUSTMENT"}, NEW doc,
         IF kind = "SUPPLIER_PURCHASE" THEN doc \in Deliveries ELSE doc \in LotSet,
         NEW lines \in Seq(PostLine), Record(when, doc, <<kind, Len(docs)>>, <<>>, lines),
         orders' = orders, ShopTyped'
  PROVE  HistoryInv'
<1>1. TablesTyped /\ Continue(orders) /\ Len(docs) \in Nat
  BY ShopIs DEF HistoryInv
<1>2. PICK source : source = <<kind, Len(docs)>>
  OBVIOUS
<1>3. source \in {kind} \X Nat /\ source \in Sources /\ source[1] = kind
  BY <1>1, <1>2 DEF Sources
<1>4. Step("LIVE", when, source, <<>>, lines) \in StepSet
  BY <1>3, StepTyped DEF Writers
<1>5. PICK d : d = [year |-> when, source |-> source, lines |-> lines, of |-> doc]
  OBVIOUS
<1>6. d \in DocSet
  <2>1. CASE kind = "SUPPLIER_PURCHASE"
    <3>1. d \in Delivered
      BY <1>3, <1>5, <2>1 DEF Delivered, Papers
    <3> QED BY <3>1 DEF DocSet
  <2>2. CASE kind # "SUPPLIER_PURCHASE"
    <3>1. d \in Weighed
      BY <1>3, <1>5, <2>2 DEF Weighed, Papers
    <3> QED BY <3>1 DEF DocSet
  <2> QED BY <2>1, <2>2
<1>7. d.source[1] = kind
  BY <1>3, <1>5
<1>8. d \notin Sold /\ d \notin Returned
  <2>1. d \notin Sold
    BY <1>7 DEF Sold, Papers
  <2>2. d \notin Returned
    BY <1>7 DEF Returned, Papers
  <2> QED BY <2>1, <2>2
<1>9. Grounded(d, orders')
  BY <1>8 DEF Grounded
<1>10. Continue(orders') /\ Record(when, doc, source, <<>>, lines)
  BY <1>1, <1>2 DEF Continue
<1> QED BY <1>4, <1>5, <1>6, <1>9, <1>10, Recorded

\* Gold bought back.
LEMMA BuyBackKeeps ==
  ASSUME HistoryInv, NEW s \in Scraps, BuyBack(s)
  PROVE  HistoryInv'
<1>1. ShopTyped /\ s \in LotSet /\ year \in 1..Years
  BY ShopIs, GoldAssumption DEF HistoryInv
<1>2. s.karat \in KaratSet /\ s.grams \in Nat /\ s.cost \in Nat /\ BuyBackLines(s) \in Seq(PostLine)
  BY <1>1, GoldTyped DEF LotSet
<1>3. /\ lots' = Append(lots, Lot(s.karat, s.grams, s.cost))
      /\ Record(year, s, <<"BUYBACK", Len(docs)>>, <<>>, BuyBackLines(s))
      /\ orders' = orders /\ units' = units /\ pieces' = pieces /\ owed' = owed
  BY DEF BuyBack
<1>4. Lot(s.karat, s.grams, s.cost) \in LotSet
  BY <1>2 DEF Lot, LotSet
<1>5. lots' \in Seq(LotSet)
  BY <1>1, <1>3, <1>4 DEF ShopTyped
<1>6. ShopTyped'
  BY <1>1, <1>3, <1>5 DEF ShopTyped
<1> QED BY <1>1, <1>2, <1>3, <1>6, PlainRecorded

\* Goods delivered.
LEMMA DeliverKeeps ==
  ASSUME HistoryInv, NEW p \in Deliveries, NEW when \in 1..year, Deliver(p, when)
  PROVE  HistoryInv'
<1>1. TablesTyped /\ ShopTyped /\ when \in 1..Years
  <2>1. TablesTyped /\ ShopTyped /\ year \in 1..Years
    BY ShopIs DEF HistoryInv
  <2> QED BY <2>1, StartAssumption
<1>2. /\ p.due \in Int /\ p.paid \in Int /\ \A k \in KaratSet : p.gold[k] \in Nat
      /\ p.lots \in Seq(LotSet) /\ p.units \in Items /\ DeliveryLines(Billed(p)) \in Seq(PostLine)
  BY <1>1, BilledTyped
<1>3. /\ pieces' = [n \in DOMAIN pieces |-> IF n \in p.pieces THEN [pieces[n] EXCEPT !.status = "HERE"] ELSE pieces[n]]
      /\ units' = Shelved(p.units, 1) /\ lots' = lots \o p.lots
      /\ owed' = [u \in DOMAIN owed |-> owed[u] + IF u = "CASH" THEN p.due - p.paid ELSE p.gold[u]]
      /\ Record(when, p, <<"SUPPLIER_PURCHASE", Len(docs)>>, <<>>, DeliveryLines(Billed(p)))
      /\ orders' = orders
  BY DEF Deliver
<1>4. pieces' \in [DOMAIN Workshop -> PieceSet]
  <2>1. pieces \in [DOMAIN Workshop -> PieceSet]
    BY <1>1 DEF ShopTyped
  <2>2. ASSUME NEW q \in PieceSet PROVE [q EXCEPT !.status = "HERE"] \in PieceSet
    BY DEF PieceSet
  <2> QED BY <1>3, <2>1, <2>2
<1>5. units' \in [DOMAIN Stock -> Int]
  <2>1. PICK m : m = Len(p.units) /\ m \in Nat /\ DOMAIN p.units = 1..m /\ \A i \in 1..m : p.units[i].qty \in Int
    <3>1. PICK T : T = [unit : DOMAIN Stock, qty : Nat]
      OBVIOUS
    <3>2. p.units \in Seq(T)
      BY <1>2, <3>1 DEF Items
    <3>3. \A i \in 1..Len(p.units) : p.units[i] \in T
      BY <3>2
    <3>4. \A c \in T : c.qty \in Int
      BY <3>1
    <3> QED BY <3>2, <3>3, <3>4
  <2>2. PICK s : s = 1 /\ s \in Int
    OBVIOUS
  <2>3. Shelved(p.units, s) \in [DOMAIN Stock -> Int]
    BY <1>1, <2>1, <2>2, ShelvedTyped
  <2> QED BY <1>3, <2>2, <2>3
<1>6. lots' \in Seq(LotSet)
  BY <1>1, <1>2, <1>3 DEF ShopTyped
<1>7. owed' \in [{"CASH"} \cup KaratSet -> Int]
  <2>1. owed \in [{"CASH"} \cup KaratSet -> Int]
    BY <1>1 DEF ShopTyped
  <2>2. ASSUME NEW u \in {"CASH"} \cup KaratSet PROVE owed'[u] \in Int
    <3>1. PICK x, y : x = owed[u] /\ y = IF u = "CASH" THEN p.due - p.paid ELSE p.gold[u]
      OBVIOUS
    <3>2. x \in Int /\ y \in Int
      BY <1>2, <2>1, <3>1
    <3>3. owed'[u] = x + y
      BY <1>3, <2>1, <3>1
    <3> QED BY <3>2, <3>3
  <2>3. DOMAIN owed' = {"CASH"} \cup KaratSet /\ owed' = [u \in DOMAIN owed' |-> owed'[u]]
    BY <1>3, <2>1
  <2> QED BY <2>2, <2>3
<1>8. ShopTyped'
  BY <1>4, <1>5, <1>6, <1>7 DEF ShopTyped
<1> QED BY <1>1, <1>2, <1>3, <1>8, PlainRecorded

\* A lot written off.
LEMMA WriteOffKeeps ==
  ASSUME HistoryInv, NEW i \in DOMAIN lots, WriteOff(i)
  PROVE  HistoryInv'
<1>1. ShopTyped /\ lots \in Seq(LotSet) /\ i \in 1..Len(lots) /\ Len(lots) \in Nat /\ year \in 1..Years
  BY ShopIs DEF HistoryInv, ShopTyped
<1>2. lots[i] \in LotSet /\ WriteOffLines(lots[i]) \in Seq(PostLine)
  BY <1>1, GoldTyped
<1>3. /\ lots' = RemoveAt(lots, i)
      /\ Record(year, lots[i], <<"ADJUSTMENT", Len(docs)>>, <<>>, WriteOffLines(lots[i]))
      /\ orders' = orders /\ units' = units /\ pieces' = pieces /\ owed' = owed
  BY DEF WriteOff
<1>4. PICK a, b, n : a = i - 1 /\ b = i + 1 /\ n = Len(lots) /\ a \in Int /\ b \in Int /\ n \in Nat
  BY <1>1
<1>5. \A k \in 1..n : lots[k] \in LotSet
  BY <1>1, <1>4
<1>6. (\A k \in 1..a : lots[k] \in LotSet) /\ (\A k \in b..n : lots[k] \in LotSet)
  BY <1>1, <1>4, <1>5
<1>7. SubSeq(lots, 1, a) \in Seq(LotSet) /\ SubSeq(lots, b, n) \in Seq(LotSet)
  BY <1>4, <1>6, SubSeqProperties
<1>8. lots' = SubSeq(lots, 1, a) \o SubSeq(lots, b, n)
  BY <1>3, <1>4 DEF RemoveAt
<1>9. lots' \in Seq(LotSet)
  BY <1>7, <1>8
<1>10. ShopTyped'
  BY <1>1, <1>3, <1>9 DEF ShopTyped
<1> QED BY <1>1, <1>2, <1>3, <1>10, PlainRecorded

\* The row of a piece is edited.
LEMMA EditPieceKeeps ==
  ASSUME HistoryInv, NEW p \in DOMAIN pieces, NEW row \in Edits, EditPiece(p, row)
  PROVE  HistoryInv'
<1>1. TablesTyped /\ BooksInv /\ pieces \in [DOMAIN Workshop -> PieceSet] /\ p \in DOMAIN Workshop
  BY DEF HistoryInv, TablesTyped
<1>2. /\ pieces' = [pieces EXCEPT ![p].karat = row.karat, ![p].grams = row.grams, ![p].stone = row.stone]
      /\ year' = year /\ vat' = vat /\ autoPost' = autoPost /\ orders' = orders /\ docs' = docs /\ units' = units
      /\ lots' = lots /\ owed' = owed /\ UNCHANGED <<journal, closings, calendar>>
  BY DEF EditPiece, settings
<1>3. row.karat \in KaratSet /\ row.grams \in Nat /\ row.stone \in Nat
  BY GoldAssumption
<1>4. pieces' \in [DOMAIN Workshop -> PieceSet]
  <2>1. PICK from, new : from = pieces[p] /\ new = [from EXCEPT !.karat = row.karat, !.grams = row.grams, !.stone = row.stone]
    OBVIOUS
  <2>2. from \in PieceSet
    BY <1>1, <2>1
  <2>3. new \in PieceSet
    BY <1>3, <2>1, <2>2 DEF PieceSet
  <2>4. pieces' = [pieces EXCEPT ![p] = new]
    BY <1>1, <1>2, <2>1
  <2> QED BY <1>1, <2>3, <2>4
<1>5. BooksInv'
  BY <1>1, <1>2, BooksSame
<1>6. TablesTyped'
  BY <1>1, <1>2, <1>4 DEF TablesTyped, Grounded
<1> QED BY <1>5, <1>6 DEF HistoryInv

\* The settings change.
LEMMA ChangeSettingsKeeps ==
  ASSUME HistoryInv, NEW flag \in BOOLEAN, NEW rate \in VatRates, ChangeSettings(flag, rate)
  PROVE  HistoryInv'
<1>1. TablesTyped /\ BooksInv
  BY DEF HistoryInv
<1>2. /\ vat' = rate /\ autoPost' = flag
      /\ year' = year /\ orders' = orders /\ docs' = docs /\ units' = units /\ pieces' = pieces
      /\ lots' = lots /\ owed' = owed /\ UNCHANGED <<journal, closings, calendar>>
  BY DEF ChangeSettings, shop
<1>3. BooksInv'
  BY <1>1, <1>2, BooksSame
<1>4. TablesTyped'
  BY <1>1, <1>2 DEF TablesTyped, Grounded
<1> QED BY <1>3, <1>4 DEF HistoryInv

\* A year begins.
LEMMA NextYearKeeps ==
  ASSUME HistoryInv, NextYear
  PROVE  HistoryInv'
<1>1. TablesTyped /\ BooksInv /\ Years \in Nat /\ year \in 1..Years
  BY StartAssumption DEF HistoryInv, TablesTyped
<1>2. /\ year < Years /\ year' = year + 1 /\ vat' = vat /\ autoPost' = autoPost
      /\ orders' = orders /\ docs' = docs /\ units' = units /\ pieces' = pieces
      /\ lots' = lots /\ owed' = owed /\ UNCHANGED <<journal, closings, calendar>>
  BY DEF NextYear, shop, settings
<1>3. BooksInv'
  BY <1>1, <1>2, BooksSame
<1>4. year' \in 1..Years
  BY <1>1, <1>2
<1>5. TablesTyped'
  BY <1>1, <1>2, <1>4 DEF TablesTyped, Grounded
<1> QED BY <1>3, <1>5 DEF HistoryInv

\* The tables stay.
LEMMA OfficeKeeps ==
  ASSUME HistoryInv, UNCHANGED <<year, settings, shop>>, BooksInv'
  PROVE  HistoryInv'
<1>1. TablesTyped
  BY DEF HistoryInv
<1>2. /\ year' = year /\ vat' = vat /\ autoPost' = autoPost
      /\ orders' = orders /\ docs' = docs /\ units' = units /\ pieces' = pieces
      /\ lots' = lots /\ owed' = owed
  BY DEF shop, settings
<1>3. TablesTyped'
  BY <1>1, <1>2 DEF TablesTyped, Grounded
<1> QED BY <1>3 DEF HistoryInv

\* Nothing happens.
LEMMA HistoryStutters ==
  ASSUME HistoryInv, UNCHANGED vars
  PROVE  HistoryInv'
<1>1. UNCHANGED <<year, settings, shop>> /\ UNCHANGED <<journal, closings, calendar>>
  BY DEF vars, shop, settings, calendar
<1>2. BooksInv'
  BY <1>1, BooksSame DEF HistoryInv
<1> QED BY <1>1, <1>2, OfficeKeeps

\* An entry the office makes in an open month.
LEMMA OfficeWrote ==
  ASSUME HistoryInv, NEW e \in EntrySet, e.year \in 1..Years, period[e.year] = "OPEN",
         journal' = Append(journal, e), UNCHANGED <<year, settings, shop, closings, calendar>>
  PROVE  HistoryInv'
<1>1. /\ BooksInv /\ BooksTyped /\ journal \in Seq(EntrySet) /\ period \in [1..Years -> Months]
      /\ reopened \subseteq 1..Years /\ \A y \in Closed : period[y] = "OPEN" => y \in reopened
  BY DEF HistoryInv, BooksInv, BooksTyped, Noticed
<1>2. closings' = closings /\ period' = period /\ reopened' = reopened
  BY DEF calendar
<1>3. PICK t : t = <<e>>
  OBVIOUS
<1>4. t \in Seq(EntrySet) /\ journal' = journal \o t /\ Len(t) = 1 /\ t[1] = e
  BY <1>1, <1>3
<1>5. \A i \in 1..Len(t) : t[i].year \in Closed => t[i].year \in reopened'
  BY <1>1, <1>2, <1>4
<1>6. journal' \in Seq(EntrySet) /\ SettledBooksKept'
  BY <1>1, <1>2, <1>4, <1>5, SettledStays
<1>7. Closed' = Closed
  BY <1>2 DEF Closed
<1>8. BooksTyped' /\ Noticed'
  BY <1>1, <1>2, <1>6, <1>7 DEF BooksTyped, Noticed
<1>9. BooksInv'
  BY <1>6, <1>8 DEF BooksInv
<1> QED BY <1>9, OfficeKeeps

\* The opening entry.
LEMMA PostOpeningKeeps ==
  ASSUME HistoryInv, NEW when \in 1..year, PostOpening(when)
  PROVE  HistoryInv'
<1>1. TablesTyped /\ when \in 1..Years /\ Len(docs) \in Nat
  <2>1. TablesTyped /\ year \in 1..Years /\ Years \in Nat /\ Len(docs) \in Nat
    BY ShopIs, StartAssumption DEF HistoryInv
  <2> QED BY <2>1
<1>2. PICK e : e = [year |-> when, source |-> <<"OPENING">>, lines |-> OpeningLines, by |-> "LIVE", upto |-> Len(docs)]
  OBVIOUS
<1>3. /\ period[when] = "OPEN" /\ journal' = Append(journal, e)
      /\ UNCHANGED <<year, settings, shop, closings, calendar>>
  BY <1>2 DEF PostOpening, OfficeEntry, OpeningLines, OpeningBlock, Money
<1>4. e \in EntrySet /\ e.year = when
  <2>1. <<"OPENING">> \in Sources /\ OpeningLines \in Seq(PostLine)
    BY <1>1, OpeningTyped DEF Sources
  <2> QED BY <1>1, <1>2, <2>1 DEF EntrySet, Writers
<1> QED BY <1>1, <1>3, <1>4, OfficeWrote

\* A manual entry.
LEMMA PostManualKeeps ==
  ASSUME HistoryInv, NEW when \in 1..year, NEW amount \in Expenditures, PostManual(when, amount)
  PROVE  HistoryInv'
<1>1. TablesTyped /\ when \in 1..Years /\ Len(docs) \in Nat /\ Len(journal) \in Nat
  <2>1. TablesTyped /\ year \in 1..Years /\ Years \in Nat /\ Len(docs) \in Nat
    BY ShopIs, StartAssumption DEF HistoryInv
  <2>2. journal \in Seq(EntrySet)
    BY DEF HistoryInv, BooksInv, BooksTyped
  <2>3. Len(journal) \in Nat
    BY <2>2
  <2> QED BY <2>1, <2>3
<1>2. PICK lines, e :
        /\ lines = <<Usd("RENT_EXPENSE", amount), Usd("CASH", -amount)>>
        /\ e = [year |-> when, source |-> <<"MANUAL", Len(journal)>>, lines |-> lines, by |-> "LIVE", upto |-> Len(docs)]
  OBVIOUS
<1>3. /\ period[when] = "OPEN" /\ journal' = Append(journal, e)
      /\ UNCHANGED <<year, settings, shop, closings, calendar>>
  BY <1>2 DEF PostManual, OfficeEntry
<1>4. lines \in Seq(PostLine)
  <2>1. amount \in Int /\ -amount \in Int
    BY GoldAssumption
  <2>2. "RENT_EXPENSE" \in Accounts /\ "CASH" \in Accounts
    BY Chart DEF Accounts, Expenses
  <2>3. Usd("RENT_EXPENSE", amount) \in PostLine /\ Usd("CASH", -amount) \in PostLine
    BY <2>1, <2>2, UsdPost
  <2> QED BY <1>2, <2>3, LinesTwo
<1>5. e \in EntrySet /\ e.year = when
  <2>1. <<"MANUAL", Len(journal)>> \in Sources
    BY <1>1 DEF Sources
  <2> QED BY <1>1, <1>2, <1>4, <2>1 DEF EntrySet, Writers
<1> QED BY <1>1, <1>3, <1>5, OfficeWrote

\* A month is opened, of a closed year or not.
LEMMA OpenMonthKeeps ==
  ASSUME HistoryInv, NEW y \in 1..year, OpenMonth(y)
  PROVE  HistoryInv'
<1>1. BooksInv /\ period \in [1..Years -> Months] /\ reopened \subseteq 1..Years /\ Closed \subseteq 1..Years
  BY ClosingsIs DEF HistoryInv, BooksInv, BooksTyped
<1>2. /\ period' = [period EXCEPT ![y] = "OPEN"] /\ reopened' = reopened \cup {z \in Closed : period'[z] = "OPEN"}
      /\ journal' = journal /\ closings' = closings /\ UNCHANGED <<year, settings, shop>>
  BY DEF OpenMonth, Watched
<1>3. period' \in [1..Years -> Months]
  BY <1>1, <1>2 DEF Months
<1>4. BooksInv'
  BY <1>1, <1>2, <1>3, BooksLeft
<1> QED BY <1>2, <1>4, OfficeKeeps

\* The months of a year are closed.
LEMMA CloseMonthsKeeps ==
  ASSUME HistoryInv, NEW y \in 1..year, CloseMonths(y)
  PROVE  HistoryInv'
<1>1. /\ BooksInv /\ period \in [1..Years -> Months] /\ reopened \subseteq 1..Years
      /\ Closed \subseteq 1..Years /\ \A z \in Closed : period[z] = "OPEN" => z \in reopened
  BY ClosingsIs DEF HistoryInv, BooksInv, BooksTyped, Noticed
<1>2. /\ period' = [period EXCEPT ![y] = "CLOSED"] /\ reopened' = reopened
      /\ journal' = journal /\ closings' = closings /\ UNCHANGED <<year, settings, shop>>
  BY DEF CloseMonths
<1>3. period' \in [1..Years -> Months] /\ \A z \in Closed : period'[z] = "OPEN" => period[z] = "OPEN"
  BY <1>1, <1>2 DEF Months
<1>4. BooksInv'
  BY <1>1, <1>2, <1>3, BooksLeft
<1> QED BY <1>2, <1>4, OfficeKeeps

\* The replay.
LEMMA ReplayKeeps ==
  ASSUME HistoryInv, ReplayHistory
  PROVE  HistoryInv'
<1>1. /\ HistoryTyped /\ BooksInv /\ journal \in Seq(EntrySet) /\ period \in [1..Years -> Months]
      /\ reopened \subseteq 1..Years /\ Closed \subseteq 1..Years
      /\ \A y \in Closed : period[y] = "OPEN" => y \in reopened
  BY ClosingsIs DEF HistoryInv, HistoryTyped, BooksInv, BooksTyped, Noticed
<1>2. PICK new, entries : /\ new = Replayed(0) /\ entries = SubSeq(new, Len(journal) + 1, Len(new))
  OBVIOUS
<1>3. /\ ClosedYearsLeftAlone(entries) /\ Enter(new) /\ reopened' = reopened /\ closings' = closings
      /\ UNCHANGED <<year, settings, shop>>
  BY <1>2 DEF ReplayHistory
<1>4. Adds(journal, new, EntrySet)
  BY <1>1, <1>2, ReplayAdds
<1>5. PICK m, k : m = Len(journal) /\ k = Len(new) /\ m \in Nat /\ k \in Nat /\ \A i \in 1..k : new[i] \in EntrySet
  <2>1. PICK t \in Seq(EntrySet) : new = journal \o t
    BY <1>4 DEF Adds
  <2>2. new \in Seq(EntrySet)
    BY <1>1, <2>1
  <2>3. Len(journal) \in Nat /\ Len(new) \in Nat /\ \A i \in 1..Len(new) : new[i] \in EntrySet
    BY <1>1, <2>2
  <2> QED BY <2>3
<1>6. PICK years : years = {new[i].year : i \in (m + 1)..k}
  OBVIOUS
<1>7. period' = [y \in DOMAIN period |-> IF y \in years THEN "OPEN" ELSE period[y]]
  BY <1>3, <1>5, <1>6 DEF Enter
<1>8. ASSUME NEW y \in years PROVE y \notin Closed
  <2>1. PICK i \in (m + 1)..k : y = new[i].year
    BY <1>6
  <2>2. PICK a, b : a = m + 1 /\ b = k /\ a \in Int /\ b \in Int /\ a <= b
    BY <1>5, <2>1
  <2>3. \A j \in a..b : new[j] \in EntrySet
    BY <1>5, <2>2
  <2>4. entries = SubSeq(new, a, b)
    BY <1>2, <1>5, <2>2
  <2>5. /\ DOMAIN entries = 1..(b - a + 1)
        /\ \A j \in 1..(b - a + 1) : entries[j] = new[a + j - 1]
    BY <2>2, <2>3, <2>4, SubSeqProperties
  <2>6. PICK j : j = i - m /\ j \in 1..(b - a + 1) /\ a + j - 1 = i
    BY <1>5, <2>1, <2>2
  <2>7. entries[j] = new[i] /\ j \in DOMAIN entries
    BY <2>5, <2>6
  <2> QED BY <1>3, <2>1, <2>7 DEF ClosedYearsLeftAlone
<1>9. \A y \in Closed : period'[y] = "OPEN" => y \in reopened'
  BY <1>1, <1>3, <1>7, <1>8
<1>10. BooksInv'
  BY <1>1, <1>3, <1>4, <1>9, EnterKeeps
<1> QED BY <1>3, <1>10, OfficeKeeps

\* A year is closed.
LEMMA CloseYearKeeps ==
  ASSUME HistoryInv, NEW y \in 1..year, CloseYear(y)
  PROVE  HistoryInv'
<1>1. /\ TablesTyped /\ BooksInv /\ BooksTyped /\ SettledBooksKept /\ Noticed /\ journal \in Seq(EntrySet)
      /\ period \in [1..Years -> Months] /\ reopened \subseteq 1..Years /\ Closed \subseteq 1..Years
      /\ y \in 1..Years /\ Len(docs) \in Nat
  <2>1. TablesTyped /\ year \in 1..Years /\ Years \in Nat /\ Len(docs) \in Nat
    BY ShopIs, StartAssumption DEF HistoryInv
  <2>2. BooksInv /\ BooksTyped /\ SettledBooksKept /\ Noticed
    BY DEF HistoryInv, BooksInv
  <2>3. journal \in Seq(EntrySet) /\ period \in [1..Years -> Months] /\ reopened \subseteq 1..Years
    BY <2>2 DEF BooksTyped
  <2>4. Closed \subseteq 1..Years
    BY <2>2, ClosingsIs
  <2> QED BY <2>1, <2>2, <2>3, <2>4
<1>2. PICK T, n : T = 1..Years /\ closings \in Seq(T) /\ n = Len(closings) /\ n \in Nat
  <2>1. PICK T : T = 1..Years
    OBVIOUS
  <2>2. closings \in Seq(T)
    BY <1>1, <2>1 DEF BooksTyped
  <2>3. Len(closings) \in Nat
    BY <2>2
  <2> QED BY <2>1, <2>2, <2>3
<1>3. PICK due, result, lines, e :
        /\ due = [acct \in Nominals |-> Net(Dated(journal), 1..y, {acct})]
        /\ result = Net(Dated(journal), 1..y, Nominals)
        /\ lines = ClosingLines(due, result)
        /\ e = [year |-> y, source |-> <<"YEAR_CLOSE", y>>, lines |-> lines, by |-> "LIVE", upto |-> Len(docs)]
  OBVIOUS
<1>4. journal' = Append(journal, e)
  <2>1. \E l \in {ClosingLines([acct \in Income \cup Expenses |-> Net(Dated(journal), 1..y, {acct})],
                             Net(Dated(journal), 1..y, Income \cup Expenses))} \ {<<>>} :
          journal' = Append(journal, [year |-> y, source |-> <<"YEAR_CLOSE", y>>, lines |-> l,
                                      by |-> "LIVE", upto |-> Len(docs)])
    BY DEF CloseYear, ClosingLines, OfficeEntry
  <2>2. lines = ClosingLines([acct \in Income \cup Expenses |-> Net(Dated(journal), 1..y, {acct})],
                             Net(Dated(journal), 1..y, Income \cup Expenses))
    BY <1>3 DEF Nominals
  <2>3. \E l \in {lines} \ {<<>>} :
          journal' = Append(journal, [year |-> y, source |-> <<"YEAR_CLOSE", y>>, lines |-> l,
                                      by |-> "LIVE", upto |-> Len(docs)])
    BY <2>1, <2>2
  <2> QED BY <1>3, <2>3
<1>5. /\ y \notin Closed /\ period[y] = "CLOSED" /\ closings' = Append(closings, y)
      /\ UNCHANGED <<year, settings, shop>>
      /\ reopened' = reopened \cup {z \in Closed \cup {y} : period'[z] = "OPEN"}
  BY DEF CloseYear, Watched
<1>6. PICK next \in {"OPEN", "CLOSED"} : period' = [z \in DOMAIN period |-> IF z = y + 1 THEN next ELSE period[z]]
  BY DEF CloseYear
<1>7. /\ \A a \in Nominals : due[a] = Net(Dated(journal), 1..y, {a}) /\ due[a] \in Int
      /\ result \in Int
  BY <1>1, <1>3, NetIs
<1>8. lines \in Seq(PostLine) /\ \A a \in Nominals : SumOver(BaseIn({a}), lines) = -due[a]
  BY <1>3, <1>7, ClosingIs
<1>9. e \in EntrySet /\ e.year = y /\ e.lines = lines
  <2>1. <<"YEAR_CLOSE", y>> \in Sources
    BY <1>1, <1>3 DEF Sources
  <2> QED BY <1>1, <1>3, <1>8, <2>1 DEF EntrySet, Writers
<1>10. journal' \in Seq(EntrySet)
  BY <1>1, <1>4, <1>9
<1>11. /\ closings' \in Seq(T) /\ Len(closings') = n + 1 /\ DOMAIN closings' = 1..(n + 1) /\ closings'[n + 1] = y
       /\ \A k \in 1..n : closings'[k] = closings[k]
  BY <1>1, <1>2, <1>5
<1>12. ASSUME NEW m \in 1..n, \A j \in 1..m : closings'[j] = j /\ j \notin reopened', NEW a \in Nominals
       PROVE  Net(Dated(journal'), 1..m, {a}) = 0
  <2>1. InOrder(m) /\ m \in DOMAIN closings /\ m \in 1..Len(closings)
    <3>1. \A j \in 1..m : j \in 1..n /\ closings[j] = closings'[j] /\ (j \in reopened => j \in reopened')
      BY <1>2, <1>5, <1>11
    <3> QED BY <1>2, <1>12, <3>1 DEF InOrder
  <2>2. Net(Dated(journal), 1..m, {a}) = 0
    BY <1>1, <2>1 DEF SettledBooksKept, InOrder, Nominals
  <2>3. y \notin 1..m
    BY <1>1, <1>5, <2>1, InOrderClosed
  <2>4. PICK t, days, A : t = <<e>> /\ days = 1..m /\ A = {a}
    OBVIOUS
  <2>5. t \in Seq(EntrySet) /\ journal' = journal \o t /\ \A i \in 1..Len(t) : t[i].year \notin days
    BY <1>1, <1>4, <1>9, <2>3, <2>4
  <2>6. Net(Dated(journal \o t), days, A) = Net(Dated(journal), days, A)
    BY <1>1, <2>5, LaterEntries
  <2> QED BY <2>2, <2>4, <2>5, <2>6
<1>13. ASSUME \A j \in 1..(n + 1) : closings'[j] = j, NEW a \in Nominals
       PROVE  Net(Dated(journal'), 1..(n + 1), {a}) = 0
  <2>1. n + 1 = y
    BY <1>2, <1>11, <1>13
  <2>2. PICK days, A, x : days = 1..y /\ A = {a} /\ x = due[a] /\ x \in Int
    BY <1>7
  <2>3. e.year \in days
    BY <1>1, <1>9, <2>2
  <2>4. Net(Dated(Append(journal, e)), days, A) = Net(Dated(journal), days, A) + SumOver(BaseIn(A), e.lines)
    BY <1>1, <1>9, <2>3, OneEntry
  <2>5. Net(Dated(journal), days, A) = x /\ SumOver(BaseIn(A), e.lines) = -x
    BY <1>7, <1>8, <1>9, <2>2
  <2>6. x + -x = 0
    BY <2>2
  <2> QED BY <1>4, <2>1, <2>2, <2>4, <2>5, <2>6
<1>14. SettledBooksKept'
  <2>1. Dated(journal)' = Dated(journal')
    BY DEF Dated
  <2>2. ASSUME NEW m \in DOMAIN closings', \A j \in 1..m : closings'[j] = j /\ j \notin reopened',
               NEW a \in Nominals
        PROVE  Net(Dated(journal'), 1..m, {a}) = 0
    <3>1. m \in 1..n \/ m = n + 1
      BY <1>2, <1>11
    <3>2. CASE m \in 1..n
      BY <1>12, <2>2, <3>2
    <3>3. CASE m = n + 1
      BY <1>13, <2>2, <3>3
    <3> QED BY <3>1, <3>2, <3>3
  <2> QED BY <2>1, <2>2 DEF SettledBooksKept, Nominals
<1>15. Closed' = Closed \cup {y}
  <2>1. DOMAIN closings = 1..n
    BY <1>2
  <2>2. ASSUME NEW z \in Closed' PROVE z \in Closed \cup {y}
    <3>1. PICK k \in 1..(n + 1) : z = closings'[k]
      BY <1>11 DEF Closed, Range
    <3>2. k = n + 1 \/ k \in 1..n
      BY <1>2, <3>1
    <3> QED BY <1>11, <2>1, <3>1, <3>2 DEF Closed, Range
  <2>3. ASSUME NEW z \in Closed PROVE z \in Closed'
    <3>1. PICK k \in 1..n : z = closings[k]
      BY <2>1 DEF Closed, Range
    <3>2. k \in 1..(n + 1) /\ z = closings'[k]
      BY <1>2, <1>11, <3>1
    <3> QED BY <1>11, <3>2 DEF Closed, Range
  <2>4. y \in Closed'
    <3>1. n + 1 \in 1..(n + 1)
      BY <1>2
    <3> QED BY <1>11, <3>1 DEF Closed, Range
  <2> QED BY <2>2, <2>3, <2>4
<1>16. BooksTyped' /\ Noticed'
  <2>1. period' \in [1..Years -> Months] /\ reopened' \subseteq 1..Years
    BY <1>1, <1>5, <1>6 DEF Months
  <2>2. closings' \in Seq(1..Years)
    BY <1>2, <1>11
  <2>3. Noticed'
    BY <1>5, <1>15 DEF Noticed
  <2> QED BY <1>10, <2>1, <2>2, <2>3 DEF BooksTyped
<1>17. BooksInv'
  BY <1>14, <1>16 DEF BooksInv
<1> QED BY <1>5, <1>17, OfficeKeeps

-----------------------------------------------------------------------------
(* Every behaviour. *)

\* Nothing is booked and nothing is closed at the start.
LEMMA HistoryStarts == Init => HistoryInv
<1> SUFFICES ASSUME Init PROVE HistoryInv
  OBVIOUS
<1>1. /\ year = 1 /\ autoPost \in BOOLEAN /\ orders = <<>> /\ docs = <<>> /\ units = Stock /\ lots = <<>>
      /\ journal = <<>> /\ closings = <<>> /\ period = [y \in 1..Years |-> "NONE"] /\ reopened = {}
      /\ owed = [u \in {"CASH"} \cup KaratSet |-> 0]
  BY DEF Init
<1>2. vat \in VatRates
  <2>1. vat = CHOOSE x \in VatRates : \A y \in VatRates : x >= y
    BY DEF Init, Max
  <2>2. \E x \in VatRates : \A y \in VatRates : x >= y
    <3>1. \A x \in VatRates : x \in Int
      BY RateAssumption
    <3> QED BY <3>1, RateAssumption
  <2> QED BY <2>1, <2>2
<1>3. year \in 1..Years
  BY <1>1, StartAssumption
<1>4. units \in [DOMAIN Stock -> Int]
  BY <1>1, StartAssumption
<1>5. pieces \in [DOMAIN Workshop -> PieceSet]
  <2>1. pieces = [p \in DOMAIN Workshop |-> [karat |-> Workshop[p].karat, grams |-> Workshop[p].grams,
                                             cost |-> Workshop[p].cost, stone |-> 0,
                                             status |-> IF p \in Bought THEN "AWAY" ELSE "HERE"]]
    BY DEF Init
  <2>2. ASSUME NEW p \in DOMAIN Workshop PROVE pieces[p] \in PieceSet
    <3>1. Workshop[p].karat \in KaratSet /\ Workshop[p].grams \in Nat /\ Workshop[p].cost \in Nat
      BY StartAssumption
    <3> QED BY <2>1, <3>1 DEF PieceSet
  <2> QED BY <2>1, <2>2
<1>6. owed \in [{"CASH"} \cup KaratSet -> Int]
  BY <1>1
<1>7. /\ orders \in Seq(OrderSet) /\ docs \in Seq(DocSet) /\ lots \in Seq(LotSet) /\ Len(docs) = 0
  BY <1>1
<1>8. TablesTyped
  BY <1>1, <1>2, <1>3, <1>4, <1>5, <1>6, <1>7 DEF TablesTyped
<1>9. journal \in Seq(EntrySet) /\ closings \in Seq(1..Years) /\ DOMAIN closings = {} /\ Closed = {}
  <2>1. DOMAIN closings = {}
    BY <1>1
  <2> QED BY <1>1, <2>1 DEF Closed, Range
<1>10. BooksTyped
  BY <1>1, <1>9 DEF BooksTyped, Months
<1>11. Noticed /\ SettledBooksKept
  BY <1>9 DEF Noticed, SettledBooksKept
<1> QED BY <1>8, <1>10, <1>11 DEF HistoryInv, BooksInv

\* Every step keeps the invariant.
LEMMA HistoryKeeps == HistoryInv /\ [Next]_vars => HistoryInv'
<1> SUFFICES ASSUME HistoryInv, [Next]_vars PROVE HistoryInv'
  OBVIOUS
<1>1. ASSUME NEW cart \in Carts, NEW percent \in Discounts, Sell(cart, percent) PROVE HistoryInv'
  BY <1>1, SellKeeps
<1>2. ASSUME NEW n \in DOMAIN orders, NEW i \in DOMAIN orders[n].items, NEW qty, RefundItem(n, i, qty)
      PROVE  HistoryInv'
  BY <1>2, RefundItemKeeps
<1>3. ASSUME NEW n \in DOMAIN orders, Void(n) \/ RefundOrder(n) PROVE HistoryInv'
  BY <1>3, VoidKeeps, RefundOrderKeeps
<1>4. ASSUME Trade PROVE HistoryInv'
  BY <1>1, <1>2, <1>3, <1>4 DEF Trade
<1>5. ASSUME NEW p \in DOMAIN pieces, NEW cast \in Casts, NEW karatToo \in BOOLEAN, NEW weightToo \in BOOLEAN,
             Melt(p, cast, karatToo, weightToo)
      PROVE  HistoryInv'
  BY <1>5, MeltKeeps
<1>6. ASSUME Gold PROVE HistoryInv'
  <2>1. ASSUME NEW s \in Scraps, BuyBack(s) PROVE HistoryInv'
    BY <2>1, BuyBackKeeps
  <2>2. ASSUME NEW p \in Deliveries, NEW when \in 1..year, Deliver(p, when) PROVE HistoryInv'
    BY <2>2, DeliverKeeps
  <2>3. ASSUME NEW i \in DOMAIN lots, WriteOff(i) PROVE HistoryInv'
    BY <2>3, WriteOffKeeps
  <2> QED BY <1>5, <1>6, <2>1, <2>2, <2>3 DEF Gold
<1>7. ASSUME Office PROVE HistoryInv'
  <2>1. ASSUME NEW p \in DOMAIN pieces, NEW row \in Edits, EditPiece(p, row) PROVE HistoryInv'
    BY <2>1, EditPieceKeeps
  <2>2. ASSUME NEW flag \in BOOLEAN, NEW rate \in VatRates, ChangeSettings(flag, rate) PROVE HistoryInv'
    BY <2>2, ChangeSettingsKeeps
  <2>3. ASSUME NEW when \in 1..year, PostOpening(when) PROVE HistoryInv'
    BY <2>3, PostOpeningKeeps
  <2>4. ASSUME NEW y \in 1..year, CloseYear(y) PROVE HistoryInv'
    BY <2>4, CloseYearKeeps
  <2>5. ASSUME ReplayHistory PROVE HistoryInv'
    BY <2>5, ReplayKeeps
  <2>6. ASSUME NEW when \in 1..year, NEW amount \in Expenditures, PostManual(when, amount) PROVE HistoryInv'
    BY <2>6, PostManualKeeps
  <2>7. ASSUME NEW y \in 1..year, OpenMonth(y) \/ CloseMonths(y) PROVE HistoryInv'
    BY <2>7, OpenMonthKeeps, CloseMonthsKeeps
  <2> QED BY <1>7, <2>1, <2>2, <2>3, <2>4, <2>5, <2>6, <2>7 DEF Office
<1>8. ASSUME NextYear PROVE HistoryInv'
  BY <1>8, NextYearKeeps
<1>9. ASSUME UNCHANGED vars PROVE HistoryInv'
  BY <1>9, HistoryStutters
<1> QED BY <1>4, <1>6, <1>7, <1>8, <1>9 DEF Next

\* The journal, the documents and the tables they are read from are what
\* the code takes them for: every document names a sale and a line that exist,
\* and every entry has lines of the chart, whichever way it got in.
THEOREM HistoryTypes == Spec => []HistoryTyped
<1>1. HistoryInv => HistoryTyped
  BY DEF HistoryInv, HistoryTyped, BooksInv
<1> QED BY <1>1, HistoryStarts, HistoryKeeps, PTL DEF Spec

\* A year closed after the years before it stays settled as long as none of their
\* months is opened again, whatever is sold, delivered, refunded, replayed, entered
\* by hand, opened or closed afterwards (period_close.py:156, gl.py:108).
THEOREM ClosedYearsSettled == Spec => []SettledBooksKept
<1>1. HistoryInv => SettledBooksKept
  BY DEF HistoryInv, BooksInv
<1> QED BY <1>1, HistoryStarts, HistoryKeeps, PTL DEF Spec
=============================================================================
