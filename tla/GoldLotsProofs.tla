---------------------------- MODULE GoldLotsProofs ----------------------------
(***************************************************************************)
(* Proofs about GoldLots, for any handlers, lots, pieces, weights and      *)
(* bounds: what a supplier is owed agrees with the documents and every     *)
(* gram paid was drawn, a lot never debited from an outdated copy keeps    *)
(* its books, and a used piece has one fate.                               *)
(***************************************************************************)
EXTENDS GoldLots, SumTheorems, SequenceTheorems

-----------------------------------------------------------------------------
(* What a list of statements has still to do. *)

\* A statement names what its table holds.
StepOK(s) ==
  /\ s.do \in {"read", "draw", "adjust"} => s.on \in Lot /\ Exists(s.on)
  /\ s.do \in {"read", "draw"} => s.by \in Nat
  /\ s.do \in {"balance", "insert"} => s.on \in Unit
  /\ s.do = "insert" => s.by \in Nat
  /\ s.do = "decide" => s.on \in Piece
  /\ s.do = "create" => s.on \in Piece \cup {NONE}

\* A lot is drawn from right after it was read.
Planned(todo, seen) ==
  /\ todo \in Seq(Steps)
  /\ \A k \in DOMAIN todo :
       StepOK(todo[k]) /\ (todo[k].do = "draw" => k = 1 /\ seen # NONE)

\* The grams still to be drawn.
GramOf(s) == IF s.do \in {"read", "draw"} THEN s.by ELSE 0
Draws(todo) == [k \in DOMAIN todo |-> GramOf(todo[k])]
ToDraw(todo) == SumFunctionOnSet(Draws(todo), DOMAIN todo)

\* The balance of u is still to be moved by d, in one statement, or not at all.
About(s, u) == s.do \in {"balance", "insert"} /\ s.on = u
Unmentioned(todo, u) == \A k \in DOMAIN todo : ~About(todo[k], u)
Moves(todo, u, d) ==
  \/ d = 0 /\ Unmentioned(todo, u)
  \/ \E k \in DOMAIN todo :
       /\ About(todo[k], u) /\ todo[k].by = d
       /\ \A j \in DOMAIN todo : About(todo[j], u) => j = k

\* The head and the rest of a list.
LEMMA HeadTail ==
  ASSUME NEW T, NEW s \in Seq(T), s # <<>>
  PROVE  /\ Len(s) \in Nat /\ Len(s) >= 1 /\ 1 \in DOMAIN s /\ Head(s) = s[1] /\ Head(s) \in T
         /\ Tail(s) \in Seq(T) /\ Len(Tail(s)) = Len(s) - 1
         /\ \A k \in 1..(Len(s) - 1) : Tail(s)[k] = s[k + 1]
OBVIOUS

\* A list with a statement put before it.
LEMMA OneInFront ==
  ASSUME NEW T, NEW s \in Seq(T), NEW a \in T
  PROVE  /\ <<a>> \o s \in Seq(T) /\ Len(s) \in Nat /\ Len(<<a>> \o s) = Len(s) + 1
         /\ (<<a>> \o s)[1] = a
         /\ \A k \in 1..Len(s) : (<<a>> \o s)[k + 1] = s[k]
         /\ \A k \in 1..(Len(s) + 1) : k # 1 => k - 1 \in 1..Len(s) /\ (<<a>> \o s)[k] = s[k - 1]
OBVIOUS

\* Two lists, one after the other.
LEMMA EndToEnd ==
  ASSUME NEW T, NEW s \in Seq(T), NEW r \in Seq(T)
  PROVE  /\ s \o r \in Seq(T) /\ Len(s) \in Nat /\ Len(r) \in Nat /\ Len(s \o r) = Len(s) + Len(r)
         /\ \A k \in 1..Len(s) : (s \o r)[k] = s[k]
         /\ \A k \in 1..Len(r) : (s \o r)[Len(s) + k] = r[k]
         /\ \A k \in 1..(Len(s) + Len(r)) : k \notin 1..Len(s) =>
              k - Len(s) \in 1..Len(r) /\ (s \o r)[k] = r[k - Len(s)]
OBVIOUS

\* The grams of two lists, one after the other.
LEMMA DrawsJoined ==
  ASSUME NEW s \in Seq(Steps), NEW r \in Seq(Steps)
  PROVE  /\ ToDraw(s) \in Int /\ ToDraw(r) \in Int
         /\ ToDraw(s \o r) = ToDraw(s) + ToDraw(r)
<1> DEFINE d == Draws(s \o r)
<1>1. PICK m, n : m = Len(s) /\ n = Len(r)
  OBVIOUS
<1>2. m \in Nat /\ n \in Nat /\ DOMAIN s = 1..m /\ DOMAIN r = 1..n /\ DOMAIN (s \o r) = 1..(m + n)
  BY <1>1
<1>3. \A x \in Steps : GramOf(x) \in Int
  BY DEF Steps, GramOf
<1>4. /\ \A k \in 1..m : Draws(s)[k] = GramOf(s[k]) /\ Draws(s)[k] \in Int
      /\ \A k \in 1..n : Draws(r)[k] = GramOf(r[k]) /\ Draws(r)[k] \in Int
  BY <1>2, <1>3 DEF Draws
<1>5. /\ \A k \in 1..m : (s \o r)[k] = s[k]
      /\ \A k \in 1..n : (s \o r)[m + k] = r[k]
  BY <1>1, EndToEnd
<1>6. \A k \in 1..(m + n) : d[k] = GramOf((s \o r)[k])
  BY <1>2 DEF Draws
<1>7. \A k \in 1..m : k \in 1..(m + n)
  BY <1>2
<1>8. \A k \in 1..n : m + k \in 1..(m + n)
  BY <1>2
<1>9. (\A k \in 1..m : d[k] = Draws(s)[k]) /\ (\A k \in 1..n : d[m + k] = Draws(r)[k])
  <2> HIDE DEF d
  <2> QED BY <1>4, <1>5, <1>6, <1>7, <1>8
<1>10. IsFiniteSet(1..m) /\ IsFiniteSet(1..n) /\ IsFiniteSet((m + 1)..(m + n))
  BY <1>2, FS_Interval
<1>11. 1..(m + n) = (1..m) \cup ((m + 1)..(m + n)) /\ (1..m) \cap ((m + 1)..(m + n)) = {}
  BY <1>2
<1>12. \A k \in 1..(m + n) : d[k] \in Int
  <2>1. \A k \in 1..(m + n) : (s \o r)[k] \in Steps
    BY <1>1, <1>2, EndToEnd
  <2> HIDE DEF d
  <2> QED BY <1>3, <1>6, <2>1
<1>13. SumFunctionOnSet(d, 1..(m + n))
         = SumFunctionOnSet(d, 1..m) + SumFunctionOnSet(d, (m + 1)..(m + n))
  <2> DEFINE A == 1..m
             B == (m + 1)..(m + n)
  <2>1. IsFiniteSet(A) /\ IsFiniteSet(B) /\ A \cap B = {} /\ 1..(m + n) = A \cup B
    BY <1>10, <1>11
  <2>2. \A k \in A \cup B : d[k] \in Int
    BY <1>12, <2>1
  <2> HIDE DEF d, A, B
  <2>3. SumFunctionOnSet(d, A \cup B) = SumFunctionOnSet(d, A) + SumFunctionOnSet(d, B)
    BY <2>1, <2>2, SumUnion
  <2> QED BY <2>1, <2>3 DEF A, B
<1>14. SumFunctionOnSet(d, 1..m) = SumFunctionOnSet(Draws(s), 1..m)
  <2> HIDE DEF d
  <2> QED BY <1>9, <1>10, SumSame
<1>15. SumFunctionOnSet(d, (m + 1)..(m + n)) = SumFunctionOnSet(Draws(r), 1..n)
  <2> DEFINE f == Draws(r)
  <2> HIDE DEF d, f
  <2>1. \A k \in 1..n : f[k] \in Int /\ d[m + k] = f[k]
    BY <1>4, <1>9 DEF f
  <2> QED BY <1>2, <2>1, SumShift DEF f
<1>16. SumFunctionOnSet(Draws(s), 1..m) \in Int /\ SumFunctionOnSet(Draws(r), 1..n) \in Int
  BY <1>4, <1>10, SumType
<1> HIDE DEF d
<1> QED BY <1>2, <1>13, <1>14, <1>15, <1>16 DEF ToDraw, d

\* The grams of one statement.
LEMMA DrawsOne == ASSUME NEW a \in Steps PROVE ToDraw(<<a>>) = GramOf(a)
<1> DEFINE d == Draws(<<a>>)
<1>1. GramOf(a) \in Int
  BY DEF Steps, GramOf
<1>2. DOMAIN <<a>> = {1} /\ <<a>>[1] = a
  OBVIOUS
<1>3. d[1] = GramOf(a)
  BY <1>2 DEF Draws
<1>4. IsFiniteSet({1}) /\ IsFiniteSet({})
  BY FS_Singleton, FS_EmptySet
<1> HIDE DEF d
<1>5. SumFunctionOnSet(d, {1}) = d[1] + SumFunctionOnSet(d, {1} \ {1})
  BY <1>1, <1>3, <1>4, SumRemove
<1>6. SumFunctionOnSet(d, {1} \ {1}) = 0
  BY <1>4, SumStep
<1> QED BY <1>1, <1>2, <1>3, <1>5, <1>6 DEF ToDraw, d

\* The grams of nothing.
LEMMA DrawsNone == ToDraw(<<>>) = 0
<1>1. DOMAIN <<>> = {}
  OBVIOUS
<1>2. SumFunctionOnSet(Draws(<<>>), {}) = 0
  BY FS_EmptySet, SumStep
<1> QED BY <1>1, <1>2 DEF ToDraw

\* Nothing about u before or after a list leaves its move of u's balance as it is.
LEMMA MovesJoined ==
  ASSUME NEW s \in Seq(Steps), NEW r \in Seq(Steps), NEW u, NEW d
  PROVE  /\ Unmentioned(s, u) /\ Unmentioned(r, u) => Unmentioned(s \o r, u)
         /\ Unmentioned(s, u) /\ Moves(r, u, d) => Moves(s \o r, u, d)
         /\ Moves(s, u, d) /\ Unmentioned(r, u) => Moves(s \o r, u, d)
<1>1. PICK m, n, t : m = Len(s) /\ n = Len(r) /\ t = s \o r
  OBVIOUS
<1>2. /\ m \in Nat /\ n \in Nat /\ DOMAIN s = 1..m /\ DOMAIN r = 1..n /\ DOMAIN t = 1..(m + n)
      /\ \A k \in 1..m : t[k] = s[k] /\ k \in 1..(m + n)
      /\ \A k \in 1..n : t[m + k] = r[k] /\ m + k \in 1..(m + n)
      /\ \A k \in 1..(m + n) : k \notin 1..m => k - m \in 1..n /\ t[k] = r[k - m] /\ k = m + (k - m)
  BY <1>1, EndToEnd
<1>3. Unmentioned(s, u) /\ Unmentioned(r, u) => Unmentioned(t, u)
  BY <1>2 DEF Unmentioned
<1>4. ASSUME Unmentioned(s, u), NEW k \in DOMAIN r, About(r[k], u), r[k].by = d,
             \A j \in DOMAIN r : About(r[j], u) => j = k
      PROVE  Moves(t, u, d)
  <2>1. m + k \in DOMAIN t /\ About(t[m + k], u) /\ t[m + k].by = d
    BY <1>2, <1>4
  <2>2. ASSUME NEW j \in DOMAIN t, About(t[j], u) PROVE j = m + k
    <3>1. j \notin 1..m
      BY <1>2, <1>4, <2>2 DEF Unmentioned
    <3>2. j - m \in DOMAIN r /\ About(r[j - m], u) /\ j = m + (j - m)
      BY <1>2, <2>2, <3>1
    <3>3. j - m = k
      BY <1>4, <3>2
    <3> QED BY <3>2, <3>3
  <2> QED BY <2>1, <2>2 DEF Moves
<1>5. ASSUME Unmentioned(r, u), NEW k \in DOMAIN s, About(s[k], u), s[k].by = d,
             \A j \in DOMAIN s : About(s[j], u) => j = k
      PROVE  Moves(t, u, d)
  <2>1. k \in DOMAIN t /\ About(t[k], u) /\ t[k].by = d
    BY <1>2, <1>5
  <2>2. ASSUME NEW j \in DOMAIN t, About(t[j], u) PROVE j = k
    <3>1. j \in 1..m
      BY <1>2, <1>5, <2>2 DEF Unmentioned
    <3> QED BY <1>2, <1>5, <2>2, <3>1
  <2> QED BY <2>1, <2>2 DEF Moves
<1>6. (Unmentioned(s, u) /\ Moves(r, u, d) => Moves(t, u, d)) /\ (Moves(s, u, d) /\ Unmentioned(r, u) => Moves(t, u, d))
  BY <1>3, <1>4, <1>5 DEF Moves
<1> QED BY <1>1, <1>3, <1>6

\* A list that begins with the one move of u's balance says nothing more of u.
LEMMA MovesTail ==
  ASSUME NEW s \in Seq(Steps), s # <<>>, NEW u, NEW d
  PROVE  /\ Unmentioned(s, u) => ~About(Head(s), u) /\ Unmentioned(Tail(s), u)
         /\ Moves(s, u, d) /\ About(Head(s), u) => Head(s).by = d /\ Unmentioned(Tail(s), u)
         /\ Moves(s, u, d) /\ ~About(Head(s), u) => Moves(Tail(s), u, d)
<1>1. PICK n, t, h : n = Len(s) /\ t = Tail(s) /\ h = Head(s)
  OBVIOUS
<1>2. /\ n \in Nat /\ n >= 1 /\ DOMAIN s = 1..n /\ 1 \in DOMAIN s /\ h = s[1] /\ DOMAIN t = 1..(n - 1)
      /\ \A k \in 1..(n - 1) : t[k] = s[k + 1] /\ k + 1 \in 1..n /\ k + 1 # 1
      /\ \A k \in 1..n : k # 1 => k - 1 \in 1..(n - 1) /\ t[k - 1] = s[k]
  <2>1. /\ n \in Nat /\ n >= 1 /\ DOMAIN s = 1..n /\ 1 \in DOMAIN s /\ h = s[1] /\ DOMAIN t = 1..(n - 1)
        /\ \A k \in 1..(n - 1) : t[k] = s[k + 1]
    BY <1>1, HeadTail
  <2>2. \A k \in 1..(n - 1) : k + 1 \in 1..n /\ k + 1 # 1
    BY <2>1
  <2>3. \A k \in 1..n : k # 1 => k - 1 \in 1..(n - 1) /\ (k - 1) + 1 = k
    BY <2>1
  <2> QED BY <2>1, <2>2, <2>3
<1>3. Unmentioned(s, u) => ~About(h, u) /\ Unmentioned(t, u)
  BY <1>2 DEF Unmentioned
<1>4. ASSUME NEW k \in DOMAIN s, About(s[k], u), s[k].by = d, \A j \in DOMAIN s : About(s[j], u) => j = k
      PROVE  /\ About(h, u) => h.by = d /\ Unmentioned(t, u)
             /\ ~About(h, u) => Moves(t, u, d)
  <2>1. ASSUME About(h, u) PROVE h.by = d /\ Unmentioned(t, u)
    <3>1. k = 1
      BY <1>2, <1>4, <2>1
    <3>2. \A j \in DOMAIN t : j + 1 \in DOMAIN s /\ j + 1 # 1 /\ t[j] = s[j + 1]
      BY <1>2
    <3> QED BY <1>2, <1>4, <3>1, <3>2 DEF Unmentioned
  <2>2. ASSUME ~About(h, u) PROVE Moves(t, u, d)
    <3>1. k # 1
      BY <1>2, <1>4, <2>2
    <3>2. k - 1 \in DOMAIN t /\ t[k - 1] = s[k]
      BY <1>2, <3>1
    <3>3. ASSUME NEW j \in DOMAIN t, About(t[j], u) PROVE j = k - 1
      <4>1. j + 1 \in DOMAIN s /\ About(s[j + 1], u) /\ j \in Int
        BY <1>2, <3>3
      <4>2. j + 1 = k
        BY <1>4, <4>1
      <4> QED BY <4>1, <4>2
    <3> QED BY <1>4, <3>2, <3>3 DEF Moves
  <2> QED BY <2>1, <2>2
<1>5. ASSUME Moves(s, u, d)
      PROVE  /\ About(h, u) => h.by = d /\ Unmentioned(t, u)
             /\ ~About(h, u) => Moves(t, u, d)
  BY <1>3, <1>4, <1>5 DEF Moves
<1> QED BY <1>1, <1>3, <1>5

-----------------------------------------------------------------------------
(* What is left once the first statement ran. *)

Telling == [do |-> "event", on |-> NONE, by |-> 0]

\* The statement of an event names nothing and draws nothing.
LEMMA EventTypes == Telling \in Steps /\ Event = <<Telling>> /\ StepOK(Telling) /\ GramOf(Telling) = 0
BY DEF Telling, Steps, Event, Do, StepOK, GramOf

\* r is left of s: a statement less, and at most an event more.
Follows(s, r) ==
  /\ r \in Seq(Steps)
  /\ ToDraw(r) = ToDraw(s) - GramOf(Head(s)) /\ ToDraw(r) \in Int /\ ToDraw(s) \in Int
  /\ \A k \in DOMAIN r : r[k] = Telling \/ \E j \in DOMAIN s : j # 1 /\ r[k] = s[j]
  /\ \A u, d :
       /\ Unmentioned(s, u) => Unmentioned(r, u)
       /\ Moves(s, u, d) /\ About(Head(s), u) => Head(s).by = d /\ Unmentioned(r, u)
       /\ Moves(s, u, d) /\ ~About(Head(s), u) => Moves(r, u, d)

\* What a list asks for, what is left of it once its first statement is done asks for too.
LEMMA WhatFollows ==
  ASSUME NEW s \in Seq(Steps), s # <<>>
  PROVE  Follows(s, Tail(s)) /\ Follows(s, Event \o Tail(s)) /\ Follows(s, <<>> \o Tail(s))
<1>1. PICK t, h : t = Tail(s) /\ h = Head(s)
  OBVIOUS
<1>2. /\ t \in Seq(Steps) /\ h \in Steps /\ s = <<h>> \o t
      /\ \A k \in DOMAIN t : k + 1 \in DOMAIN s /\ k + 1 # 1 /\ t[k] = s[k + 1]
  <2>1. t \in Seq(Steps) /\ h \in Steps /\ s = <<h>> \o t
    BY <1>1
  <2>2. /\ Len(s) \in Nat /\ DOMAIN s = 1..Len(s) /\ DOMAIN t = 1..(Len(s) - 1)
        /\ \A k \in 1..(Len(s) - 1) : t[k] = s[k + 1]
    BY <1>1, HeadTail
  <2>3. \A k \in 1..(Len(s) - 1) : k + 1 \in 1..Len(s) /\ k + 1 # 1
    BY <2>2
  <2> QED BY <2>1, <2>2, <2>3
<1>3. <<h>> \in Seq(Steps) /\ ToDraw(<<h>>) = GramOf(h) /\ GramOf(h) \in Int
  <2>1. ToDraw(<<h>>) = GramOf(h)
    BY <1>2, DrawsOne
  <2>2. GramOf(h) \in Int
    BY <1>2 DEF Steps, GramOf
  <2> QED BY <1>2, <2>1, <2>2
<1>4. ToDraw(s) = GramOf(h) + ToDraw(t) /\ ToDraw(t) \in Int
  BY <1>2, <1>3, DrawsJoined
<1>5. Follows(s, t)
  <2>1. \A u, d :
       /\ Unmentioned(s, u) => Unmentioned(t, u)
       /\ Moves(s, u, d) /\ About(Head(s), u) => Head(s).by = d /\ Unmentioned(t, u)
       /\ Moves(s, u, d) /\ ~About(Head(s), u) => Moves(t, u, d)
    BY <1>1, MovesTail
  <2>2. ToDraw(t) = ToDraw(s) - GramOf(Head(s)) /\ ToDraw(s) \in Int
    BY <1>1, <1>3, <1>4
  <2>3. \A k \in DOMAIN t : \E j \in DOMAIN s : j # 1 /\ t[k] = s[j]
    BY <1>2
  <2> QED BY <1>2, <1>4, <2>1, <2>2, <2>3 DEF Follows
<1>6. Follows(s, Event \o t)
  <2>1. PICK r : r = Event \o t
    OBVIOUS
  <2>2. Event \in Seq(Steps) /\ ToDraw(Event) = 0
    BY EventTypes, DrawsOne
  <2>3. r \in Seq(Steps) /\ ToDraw(r) = ToDraw(t)
    BY <1>2, <1>4, <2>1, <2>2, DrawsJoined
  <2>4. \A k \in DOMAIN r : r[k] = Telling \/ \E j \in DOMAIN t : r[k] = t[j]
    <3>1. Len(t) \in Nat /\ DOMAIN t = 1..Len(t) /\ DOMAIN r = 1..(Len(t) + 1) /\ r[1] = Telling
          /\ \A k \in 1..(Len(t) + 1) : k # 1 => k - 1 \in 1..Len(t) /\ r[k] = t[k - 1]
      BY <1>2, <2>1, <2>3, EventTypes, OneInFront
    <3> QED BY <3>1
  <2>5. \A u : Unmentioned(Event, u)
    BY EventTypes DEF Unmentioned, About, Telling
  <2>6. \A u, d : (Unmentioned(t, u) => Unmentioned(r, u)) /\ (Moves(t, u, d) => Moves(r, u, d))
    BY <1>2, <2>1, <2>2, <2>5, MovesJoined
  <2>7. \A u, d :
       /\ Unmentioned(s, u) => Unmentioned(r, u)
       /\ Moves(s, u, d) /\ About(Head(s), u) => Head(s).by = d /\ Unmentioned(r, u)
       /\ Moves(s, u, d) /\ ~About(Head(s), u) => Moves(r, u, d)
    BY <1>5, <2>6 DEF Follows
  <2>8. \A k \in DOMAIN r : r[k] = Telling \/ \E j \in DOMAIN s : j # 1 /\ r[k] = s[j]
    BY <1>2, <2>4
  <2>9. ToDraw(r) = ToDraw(s) - GramOf(Head(s)) /\ ToDraw(s) \in Int /\ ToDraw(r) \in Int
    BY <1>5, <2>3 DEF Follows
  <2>10. Follows(s, r)
    BY <2>3, <2>7, <2>8, <2>9 DEF Follows
  <2> QED BY <2>1, <2>10
<1>7. <<>> \o t = t
  BY <1>2
<1> QED BY <1>1, <1>5, <1>6, <1>7

\* What is left is planned as it was.
LEMMA PlannedOn ==
  ASSUME NEW s, NEW r, NEW seen, NEW now, Planned(s, seen), Follows(s, r)
  PROVE  Planned(r, now) /\ \A k \in DOMAIN r : r[k].do # "draw"
<1>1. ASSUME NEW k \in DOMAIN r PROVE StepOK(r[k]) /\ r[k].do # "draw"
  <2>1. CASE r[k] = Telling
    BY <2>1, EventTypes DEF Telling
  <2>2. CASE \E j \in DOMAIN s : j # 1 /\ r[k] = s[j]
    BY <2>2 DEF Planned
  <2> QED BY <1>1, <2>1, <2>2 DEF Follows
<1> QED BY <1>1 DEF Planned, Follows

-----------------------------------------------------------------------------
(* The inductive invariant. *)

IsSession(x) == x = [op |-> x.op, todo |-> x.todo, seen |-> x.seen, stale |-> x.stale,
                     lots |-> x.lots, drawn |-> x.drawn, bal |-> x.bal, adjusted |-> x.adjusted,
                     fate |-> x.fate, due |-> x.due, paid |-> x.paid]

Shaped ==
  /\ tx = [p \in Proc |-> tx[p]]
  /\ \A p \in Proc : IsSession(tx[p])

\* What a transaction adds, zero where it adds nothing.
Pend(f, k) == IF k \in DOMAIN f THEN f[k] ELSE 0

\* The lots a transaction has written are locked, or its own; it draws from, corrects
\* and overlooks no others.
Holds(p) ==
  LET x == tx[p] IN
  /\ x.op \in {"none", "purchase", "payment", "adjust", "lot", "melt", "polish"}
  /\ Planned(x.todo, x.seen) /\ x.seen \in Copy \cup {NONE}
  /\ \A l \in DOMAIN x.lots :
       /\ l \in Lot /\ x.lots[l] \in LotRow /\ x.lots[l].left >= 0
       /\ Exists(l) => lotLock[l] = p
  /\ \A l \in DOMAIN x.drawn : l \in DOMAIN x.lots /\ Exists(l) /\ x.drawn[l] \in Nat
  /\ \A l \in DOMAIN x.adjusted : l \in DOMAIN x.lots /\ Exists(l) /\ x.adjusted[l] \in Int
  /\ \A l \in x.stale : l \in DOMAIN x.lots /\ Exists(l)

\* A lot the transaction wrote keeps its books, with what the transaction adds to them.
Booked(p) ==
  LET x == tx[p] IN \A l \in DOMAIN x.lots : l \notin stale /\ l \notin x.stale =>
    /\ x.lots[l].left = Weight + adjusted[l] + Pend(x.adjusted, l) - drawn[l] - Pend(x.drawn, l)
    /\ x.lots[l].depleted <=> x.lots[l].left = 0

\* A melt decides on its piece and then makes one lot of it; nobody else makes a lot of
\* a piece; who decides on a piece holds it.
Melting(p) ==
  LET x == tx[p] IN \E y \in Piece :
    \/ /\ Len(x.todo) = 2 /\ x.todo[1].do = "decide" /\ x.todo[1].on = y
       /\ x.todo[2].do = "create" /\ x.todo[2].on = y
       /\ DOMAIN x.lots = {} /\ DOMAIN x.fate = {}
    \/ /\ Len(x.todo) = 1 /\ x.todo[1].do = "create" /\ x.todo[1].on = y
       /\ DOMAIN x.lots = {} /\ DOMAIN x.fate = {y}
    \/ /\ Len(x.todo) = 0 /\ DOMAIN x.fate = {y}
       /\ \E l \in Lot : ~Exists(l) /\ DOMAIN x.lots = {l} /\ x.lots[l].from = y

Fated(p) ==
  LET x == tx[p] IN
  /\ x.op = "melt" => Melting(p)
  /\ x.op # "melt" =>
       /\ \A k \in DOMAIN x.todo : x.todo[k].do = "create" => x.todo[k].on = NONE
       /\ \A l \in DOMAIN x.lots : x.lots[l].from = IF Exists(l) THEN lots[l].from ELSE NONE
  /\ \A y \in DOMAIN x.fate :
       /\ y \in Piece /\ pieceLock[y] = p /\ fate[y] = "bought"
       /\ x.fate[y] = IF x.op = "melt" THEN "melted" ELSE "polished"

\* A balance is moved, in one statement, by what the request makes due less what it pays.
Debt(b) == IF b = NONE THEN 0 ELSE b
Owing(p) ==
  LET x == tx[p] IN
  /\ DOMAIN x.bal \subseteq Unit
  /\ \A u \in Unit :
       /\ Pend(x.due, u) \in Nat /\ Pend(x.paid, u) \in Nat
       /\ u \in DOMAIN x.bal =>
            /\ balLock[u] = p /\ Unmentioned(x.todo, u) /\ x.bal[u] \in Nat
            /\ x.bal[u] = Debt(balance[u]) + Pend(x.due, u) - Pend(x.paid, u)
       /\ u \notin DOMAIN x.bal => Moves(x.todo, u, Pend(x.due, u) - Pend(x.paid, u))

\* The grams drawn and still to be drawn are the grams paid.
Pending(f) == [l \in Lot |-> Pend(f, l)]
Weighed(p) ==
  SumFunctionOnSet(Pending(tx[p].drawn), Lot) + ToDraw(tx[p].todo) = Pend(tx[p].paid, "GOLD")

Sound(p) == Holds(p) /\ Booked(p) /\ Fated(p) /\ Owing(p) /\ Weighed(p)

OwnLots == \A p, q \in Proc : p # q => \A l \in DOMAIN tx[p].lots : l \notin DOMAIN tx[q].lots

Unborn == \A l \in Lot : ~Exists(l) => drawn[l] = 0 /\ adjusted[l] = 0 /\ l \notin stale

LotsInv ==
  /\ TypeOK /\ Shaped
  /\ \A p \in Proc : Sound(p)
  /\ OwnLots /\ Unborn
  /\ BalanceReconciles /\ GoldPaidWasDrawn /\ BooksKeptUnlessStale /\ OneFate

-----------------------------------------------------------------------------
(* What a step of one handler leaves of the others. *)

\* What q has written stays locked and as it was, and no lot goes away.
Spared(q) ==
  /\ tx'[q] = tx[q]
  /\ \A l \in Lot : Exists(l) => lots'[l] # NONE /\ lots'[l].from = lots[l].from
  /\ stale \subseteq stale'
  /\ \A l \in DOMAIN tx[q].lots :
       /\ lots'[l] = lots[l] /\ drawn'[l] = drawn[l] /\ adjusted'[l] = adjusted[l]
       /\ Exists(l) => lotLock'[l] = q
  /\ \A u \in DOMAIN tx[q].bal : balLock'[u] = q /\ balance'[u] = balance[u]
  /\ \A y \in DOMAIN tx[q].fate : pieceLock'[y] = q /\ fate'[y] = fate[y]

\* What q knows stays true.
LEMMA OthersSound ==
  ASSUME NEW q \in Proc, Sound(q), Spared(q)
  PROVE  Sound(q)'
<1> DEFINE x == tx[q]
<1>1. /\ tx'[q] = x
      /\ \A l \in Lot : Exists(l) => Exists(l)' /\ lots'[l].from = lots[l].from
      /\ \A l \in DOMAIN x.lots : lots'[l] = lots[l] /\ (Exists(l)' <=> Exists(l))
  BY DEF Spared, Exists
<1>2. Planned(x.todo, x.seen)'
  <2>1. ASSUME NEW s, StepOK(s) PROVE StepOK(s)'
    BY <1>1, <2>1 DEF StepOK
  <2>2. Planned(x.todo, x.seen)
    BY DEF Sound, Holds
  <2> QED BY <1>1, <2>1, <2>2 DEF Planned
<1>3. Holds(q)'
  <2>1. Holds(q)
    BY DEF Sound
  <2>2. \A l \in DOMAIN x.lots : Exists(l) => lotLock'[l] = q
    BY DEF Spared
  <2>3. Planned(tx[q].todo, tx[q].seen)'
    BY <1>1, <1>2
  <2> QED BY <1>1, <2>1, <2>2, <2>3 DEF Holds
<1>4. Booked(q)'
  <2>1. \A l \in DOMAIN x.lots : drawn'[l] = drawn[l] /\ adjusted'[l] = adjusted[l] /\ (l \in stale => l \in stale')
    BY DEF Spared
  <2> QED BY <1>1, <2>1 DEF Booked, Sound, Pend
<1>5. Fated(q)'
  <2>1. Fated(q) /\ \A y \in DOMAIN x.fate : pieceLock'[y] = q /\ fate'[y] = fate[y]
    BY DEF Sound, Spared
  <2>2. ASSUME x.op = "melt" PROVE Melting(q)'
    <3>1. PICK y \in Piece :
            \/ /\ Len(x.todo) = 2 /\ x.todo[1].do = "decide" /\ x.todo[1].on = y
               /\ x.todo[2].do = "create" /\ x.todo[2].on = y
               /\ DOMAIN x.lots = {} /\ DOMAIN x.fate = {}
            \/ /\ Len(x.todo) = 1 /\ x.todo[1].do = "create" /\ x.todo[1].on = y
               /\ DOMAIN x.lots = {} /\ DOMAIN x.fate = {y}
            \/ /\ Len(x.todo) = 0 /\ DOMAIN x.fate = {y}
               /\ \E l \in Lot : ~Exists(l) /\ DOMAIN x.lots = {l} /\ x.lots[l].from = y
      BY <2>1, <2>2 DEF Fated, Melting
    <3>2. CASE Len(x.todo) # 0
      BY <1>1, <3>1, <3>2 DEF Melting
    <3>3. CASE Len(x.todo) = 0
      <4>1. DOMAIN x.fate = {y}
        BY <3>1, <3>3
      <4>2. PICK l \in Lot : ~Exists(l) /\ DOMAIN x.lots = {l} /\ x.lots[l].from = y
        BY <3>1, <3>3
      <4>3. ~Exists(l)'
        BY <1>1, <4>2
      <4> QED BY <1>1, <3>3, <4>1, <4>2, <4>3 DEF Melting
    <3> QED BY <3>2, <3>3
  <2>3. Fated(q)' <=> (/\ x.op = "melt" => Melting(q)'
                       /\ x.op # "melt" =>
                            /\ \A k \in DOMAIN x.todo : x.todo[k].do = "create" => x.todo[k].on = NONE
                            /\ \A l \in DOMAIN x.lots :
                                 x.lots[l].from = IF Exists(l)' THEN lots'[l].from ELSE NONE
                       /\ \A y \in DOMAIN x.fate :
                            /\ y \in Piece /\ pieceLock'[y] = q /\ fate'[y] = "bought"
                            /\ x.fate[y] = IF x.op = "melt" THEN "melted" ELSE "polished")
    BY <1>1 DEF Fated
  <2> QED BY <1>1, <2>1, <2>2, <2>3 DEF Fated
<1>6. Owing(q)'
  <2>1. \A u \in DOMAIN x.bal : balLock'[u] = q /\ balance'[u] = balance[u]
    BY DEF Spared
  <2>2. Owing(q)
    BY DEF Sound
  <2>3. \A u \in DOMAIN x.bal : Debt(balance'[u]) = Debt(balance[u])
    BY <2>1
  <2> QED BY <1>1, <2>1, <2>2, <2>3 DEF Owing
<1>7. Weighed(q)'
  BY <1>1 DEF Sound, Weighed
<1> QED BY <1>3, <1>4, <1>5, <1>6, <1>7 DEF Sound

\* A handler given a record of the right fields.
LEMMA Given ==
  ASSUME Shaped, NEW p \in Proc, NEW x, tx' = [tx EXCEPT ![p] = x], IsSession(x)
  PROVE  Shaped' /\ tx'[p] = x /\ \A q \in Proc : q # p => tx'[q] = tx[q]
BY DEF Shaped, IsSession

\* Nobody loses a lock by a step of p, but p.
LocksKept(p) ==
  /\ lotLock' \in [Lot -> Proc \cup {NONE}] /\ balLock' \in [Unit -> Proc \cup {NONE}]
  /\ pieceLock' \in [Piece -> Proc \cup {NONE}] /\ auditLock' \in Proc \cup {NONE}
  /\ \A l \in Lot : lotLock[l] \notin {NONE, p} => lotLock'[l] = lotLock[l]
  /\ \A u \in Unit : balLock[u] \notin {NONE, p} => balLock'[u] = balLock[u]
  /\ \A y \in Piece : pieceLock[y] \notin {NONE, p} => pieceLock'[y] = pieceLock[y]

\* What the others hold while p runs a step.
LEMMA OthersHold ==
  ASSUME LotsInv, NEW p \in Proc, LocksKept(p), NEW q \in Proc, q # p
  PROVE  /\ \A l \in DOMAIN tx[q].lots : l \in Lot /\ (Exists(l) => lotLock[l] = q /\ lotLock'[l] = q)
         /\ \A u \in DOMAIN tx[q].bal : u \in Unit /\ balLock[u] = q /\ balLock'[u] = q
         /\ \A y \in DOMAIN tx[q].fate : y \in Piece /\ pieceLock[y] = q /\ pieceLock'[y] = q
<1>1. Holds(q) /\ Fated(q) /\ Owing(q) /\ q \notin {NONE, p}
  BY NoneAssumption DEF LotsInv, Sound
<1>2. /\ \A l \in DOMAIN tx[q].lots : l \in Lot /\ (Exists(l) => lotLock[l] = q)
      /\ \A u \in DOMAIN tx[q].bal : u \in Unit /\ balLock[u] = q
      /\ \A y \in DOMAIN tx[q].fate : y \in Piece /\ pieceLock[y] = q
  BY <1>1 DEF Holds, Fated, Owing
<1> QED BY <1>1, <1>2 DEF LocksKept

-----------------------------------------------------------------------------
(* Steps that write no table. *)

\* No table changes when all of them together do not.
LEMMA TablesKept ==
  ASSUME UNCHANGED tables
  PROVE  /\ lots' = lots /\ drawn' = drawn /\ adjusted' = adjusted /\ balance' = balance /\ due' = due
         /\ paid' = paid /\ fate' = fate /\ stale' = stale
BY DEF tables

\* Tables that stay as they are keep everything that is said of them.
LEMMA QuietLots ==
  ASSUME LotsInv, NEW p \in Proc, UNCHANGED tables, LocksKept(p), NEW x, IsSession(x),
         tx' = [tx EXCEPT ![p] = x], Sound(p)',
         \A l \in DOMAIN x.lots : \A q \in Proc : q # p => l \notin DOMAIN tx[q].lots
  PROVE  LotsInv'
<1>0. TypeOK /\ Shaped /\ \A q \in Proc : Sound(q)
  BY DEF LotsInv
<1>1. Shaped' /\ tx'[p] = x /\ \A q \in Proc : q # p => tx'[q] = tx[q]
  BY <1>0, Given
<1>2. lots' = lots /\ drawn' = drawn /\ adjusted' = adjusted /\ balance' = balance /\ due' = due
      /\ paid' = paid /\ fate' = fate /\ stale' = stale
  BY TablesKept
<1>3. ASSUME NEW q \in Proc PROVE Sound(q)'
  <2>1. CASE q = p
    BY <2>1
  <2>2. CASE q # p
    <3>1. Spared(q)
      BY <1>1, <1>2, <2>2, OthersHold DEF Spared, Exists
    <3> QED BY <1>0, <3>1, OthersSound
  <2> QED BY <2>1, <2>2
<1>4. \A q \in Proc : TxOK(tx[q])'
  BY <1>3 DEF Sound, Holds, TxOK, Planned
<1>5. TypeOK'
  BY <1>0, <1>2, <1>4 DEF TypeOK, LocksKept, Exists
<1>6. OwnLots'
  BY <1>1 DEF LotsInv, OwnLots
<1>7. Unborn' /\ BalanceReconciles' /\ GoldPaidWasDrawn' /\ BooksKeptUnlessStale' /\ OneFate'
  BY <1>2 DEF LotsInv, Unborn, Exists, BalanceReconciles, GoldPaidWasDrawn, BooksKeptUnlessStale, InBooks, OneFate
<1> QED BY <1>1, <1>3, <1>5, <1>6, <1>7 DEF LotsInv

\* Nothing pends of a transaction that has done nothing.
LEMMA NothingPends ==
  ASSUME NEW f, DOMAIN f = {}
  PROVE  (\A k : Pend(f, k) = 0) /\ SumFunctionOnSet(Pending(f), Lot) = 0
<1>1. \A k : Pend(f, k) = 0
  BY DEF Pend
<1>2. \A l \in Lot : Pending(f)[l] = 0
  BY <1>1 DEF Pending
<1>3. SumFunctionOnSet(Pending(f), Lot) = SumFunctionOnSet(Pending(f), {})
  BY <1>2, SumSupport, StockedAssumption
<1>4. SumFunctionOnSet(Pending(f), {}) = 0
  BY FS_EmptySet, SumStep
<1> QED BY <1>1, <1>3, <1>4

\* A session that is over knows nothing.
LEMMA IdleSound ==
  ASSUME NEW p, tx'[p] = IdleTx
  PROVE  Sound(p)' /\ IsSession(IdleTx) /\ DOMAIN IdleTx.lots = {}
<1>1. PICK x : x = IdleTx
  OBVIOUS
<1>2. /\ x.op = "none" /\ x.todo = <<>> /\ x.seen = NONE /\ x.stale = {} /\ DOMAIN x.lots = {}
      /\ DOMAIN x.drawn = {} /\ DOMAIN x.adjusted = {} /\ DOMAIN x.bal = {} /\ DOMAIN x.fate = {}
      /\ DOMAIN x.due = {} /\ DOMAIN x.paid = {} /\ IsSession(x)
  BY <1>1 DEF IdleTx, IsSession
<1>3. /\ x.todo \in Seq(Steps) /\ DOMAIN x.todo = {} /\ ToDraw(x.todo) = 0
      /\ \A u : Moves(x.todo, u, 0)
  BY <1>2, DrawsNone DEF Moves, Unmentioned
<1>4. Holds(p)'
  BY <1>1, <1>2, <1>3 DEF Holds, Planned
<1>5. Booked(p)' /\ Fated(p)'
  BY <1>1, <1>2, <1>3 DEF Booked, Fated
<1>6. \A k : Pend(x.due, k) = 0 /\ Pend(x.paid, k) = 0
  BY <1>2, NothingPends
<1>7. Owing(p)'
  BY <1>1, <1>2, <1>3, <1>6 DEF Owing
<1>8. SumFunctionOnSet(Pending(x.drawn), Lot) = 0
  BY <1>2, NothingPends
<1>9. Weighed(p)'
  BY <1>1, <1>3, <1>6, <1>8 DEF Weighed
<1> QED BY <1>1, <1>2, <1>4, <1>5, <1>7, <1>9 DEF Sound

\* Letting go of p's locks leaves everyone else's.
LEMMA Release == ASSUME TypeOK, NEW p \in Proc, ReleaseAll(p) PROVE LocksKept(p)
BY DEF TypeOK, ReleaseAll, Released, LocksKept

\* A refused or aborted request writes nothing and lets go of its locks.
LEMMA RefuseLots == ASSUME LotsInv, NEW p \in Proc, Refuse(p) PROVE LotsInv'
<1>1. TypeOK /\ Shaped /\ tx' = [tx EXCEPT ![p] = IdleTx] /\ ReleaseAll(p) /\ UNCHANGED tables
  BY DEF LotsInv, Refuse
<1>2. IsSession(IdleTx)
  BY DEF IsSession, IdleTx
<1>3. tx'[p] = IdleTx
  BY <1>1, <1>2, Given
<1>4. Sound(p)' /\ DOMAIN IdleTx.lots = {}
  BY <1>3, IdleSound
<1>5. LocksKept(p)
  BY <1>1, Release
<1> QED BY <1>1, <1>2, <1>4, <1>5, QuietLots

-----------------------------------------------------------------------------
(* Requests. *)

\* A list of statements that draws from no lot it has not read, and makes no lot of a piece.
Plain(todo) ==
  Planned(todo, NONE) /\ \A k \in DOMAIN todo : todo[k].do = "create" => todo[k].on = NONE

\* One such list after another is such a list.
LEMMA PlainJoined == ASSUME NEW s, NEW r, Plain(s), Plain(r) PROVE Plain(s \o r)
<1>1. PICK m, n, t : m = Len(s) /\ n = Len(r) /\ t = s \o r
  OBVIOUS
<1>2. s \in Seq(Steps) /\ r \in Seq(Steps)
  BY DEF Plain, Planned
<1>3. /\ t \in Seq(Steps) /\ DOMAIN s = 1..m /\ DOMAIN r = 1..n /\ DOMAIN t = 1..(m + n)
      /\ \A k \in 1..m : t[k] = s[k]
      /\ \A k \in 1..(m + n) : k \notin 1..m => k - m \in 1..n /\ t[k] = r[k - m]
  BY <1>1, <1>2, EndToEnd
<1>4. ASSUME NEW k \in DOMAIN t
      PROVE  StepOK(t[k]) /\ t[k].do # "draw" /\ (t[k].do = "create" => t[k].on = NONE)
  <2>1. CASE k \in 1..m
    BY <1>3, <2>1 DEF Plain, Planned
  <2>2. CASE k \notin 1..m
    BY <1>3, <1>4, <2>2 DEF Plain, Planned
  <2> QED BY <2>1, <2>2
<1> QED BY <1>1, <1>3, <1>4 DEF Plain, Planned

\* One statement.
LEMMA PlainOne ==
  ASSUME NEW a \in Steps, StepOK(a), a.do # "draw", a.do = "create" => a.on = NONE
  PROVE  Plain(<<a>>) /\ Planned(<<a>>, NONE) /\ <<a>> \in Seq(Steps) /\ ToDraw(<<a>>) = GramOf(a)
         /\ (\A u : ~About(a, u) => Unmentioned(<<a>>, u))
         /\ (\A u : About(a, u) => Moves(<<a>>, u, a.by))
<1>1. <<a>> \in Seq(Steps) /\ DOMAIN <<a>> = {1} /\ <<a>>[1] = a
  OBVIOUS
<1>2. ToDraw(<<a>>) = GramOf(a)
  BY DrawsOne
<1> QED BY <1>1, <1>2 DEF Plain, Planned, Unmentioned, Moves

\* The reads of the lots a request draws from, each followed by its draw.
LEMMA ConsumeFacts ==
  ASSUME NEW s \in DrawLists
  PROVE  /\ Plain(ConsumeLots(s)) /\ ToDraw(ConsumeLots(s)) = Grams(s) /\ Grams(s) \in Nat
         /\ \A u : Unmentioned(ConsumeLots(s), u)
         /\ DOMAIN ConsumeLots(s) = DOMAIN s
<1>1. PICK n \in 0..MaxDraws : s \in [1..n -> [on : {l \in Lot : Exists(l)}, by : 1..MaxAmount]]
  BY DEF DrawLists
<1>2. n \in Nat /\ DOMAIN s = 1..n
  BY <1>1, BoundAssumption
<1>3. PICK t : t = ConsumeLots(s)
  OBVIOUS
<1>4. /\ t = [k \in 1..n |-> [do |-> "read", on |-> s[k].on, by |-> s[k].by]]
      /\ \A k \in 1..n : s[k].on \in Lot /\ Exists(s[k].on) /\ s[k].by \in Nat
  BY <1>1, <1>2, <1>3, BoundAssumption DEF ConsumeLots
<1>5. /\ DOMAIN t = 1..n
      /\ \A k \in 1..n : /\ t[k].do = "read" /\ t[k].on = s[k].on /\ t[k].by = s[k].by
                         /\ t[k] \in Steps
  BY <1>4 DEF Steps
<1>6. t \in Seq(Steps)
  BY <1>2, <1>4, <1>5
<1>7. Plain(t) /\ \A u : Unmentioned(t, u)
  BY <1>4, <1>5, <1>6 DEF Plain, Planned, StepOK, Unmentioned, About
<1> DEFINE g == [k \in DOMAIN s |-> s[k].by]
<1>8. \A k \in 1..n : g[k] \in Nat /\ Draws(t)[k] = g[k]
  BY <1>2, <1>4, <1>5 DEF Draws, GramOf
<1>9. IsFiniteSet(1..n)
  BY <1>2, FS_Interval
<1> HIDE DEF g
<1>10. SumFunctionOnSet(g, 1..n) \in Nat /\ SumFunctionOnSet(Draws(t), 1..n) = SumFunctionOnSet(g, 1..n)
  BY <1>8, <1>9, SumNat, SumSame
<1>11. ToDraw(t) = Grams(s) /\ Grams(s) \in Nat
  BY <1>2, <1>5, <1>10 DEF ToDraw, Grams, g
<1> QED BY <1>2, <1>3, <1>5, <1>7, <1>11

\* A request has everything still to do.
LEMMA BeginLots ==
  ASSUME LotsInv, NEW p \in Proc, NEW op, NEW todo, NEW d, NEW c, Begin(p, op, todo, d, c),
         op \in {"purchase", "payment", "adjust", "lot", "melt", "polish"},
         Planned(todo, NONE), ToDraw(todo) = Pend(c, "GOLD"),
         \A u \in Unit : /\ Pend(d, u) \in Nat /\ Pend(c, u) \in Nat
                         /\ Moves(todo, u, Pend(d, u) - Pend(c, u)),
         op # "melt" => Plain(todo),
         op = "melt" => \E y \in Piece :
           Len(todo) = 2 /\ todo[1].do = "decide" /\ todo[1].on = y /\ todo[2].do = "create" /\ todo[2].on = y
  PROVE  LotsInv'
<1>1. PICK x : x = [IdleTx EXCEPT !.op = op, !.todo = todo, !.due = d, !.paid = c]
  OBVIOUS
<1>2. /\ IsSession(x) /\ x.op = op /\ x.todo = todo /\ x.seen = NONE /\ x.stale = {} /\ x.lots = <<>>
      /\ x.drawn = <<>> /\ x.bal = <<>> /\ x.adjusted = <<>> /\ x.fate = <<>> /\ x.due = d /\ x.paid = c
  BY <1>1 DEF IdleTx, IsSession
<1>3. tx' = [tx EXCEPT ![p] = x] /\ UNCHANGED tables /\ UNCHANGED locks
  BY <1>1 DEF Begin
<1>4. tx'[p] = x
  BY <1>2, <1>3, Given DEF LotsInv
<1>5. lots' = lots /\ LocksKept(p)
  BY <1>3 DEF tables, locks, LocksKept, LotsInv, TypeOK
<1>6. /\ DOMAIN x.lots = {} /\ DOMAIN x.drawn = {} /\ DOMAIN x.adjusted = {} /\ DOMAIN x.bal = {}
      /\ DOMAIN x.fate = {}
  BY <1>2
<1>7. Holds(p)'
  <2>1. Planned(x.todo, x.seen)'
    BY <1>2, <1>5 DEF Planned, StepOK, Exists
  <2>2. Planned(tx[p].todo, tx[p].seen)'
    BY <1>4, <2>1
  <2> QED BY <1>2, <1>4, <1>6, <2>2 DEF Holds
<1>8. Booked(p)'
  BY <1>4, <1>6 DEF Booked
<1>9. Fated(p)'
  <2>1. ASSUME op = "melt" PROVE Melting(p)'
    BY <1>2, <1>4, <1>6, <2>1 DEF Melting
  <2>2. op # "melt" => \A k \in DOMAIN x.todo : x.todo[k].do = "create" => x.todo[k].on = NONE
    BY <1>2 DEF Plain
  <2> QED BY <1>2, <1>4, <1>6, <2>1, <2>2 DEF Fated
<1>10. Owing(p)'
  BY <1>2, <1>4, <1>6 DEF Owing
<1>11. Weighed(p)'
  <2>1. SumFunctionOnSet(Pending(x.drawn), Lot) = 0 /\ ToDraw(x.todo) = Pend(x.paid, "GOLD") /\ Pend(x.paid, "GOLD") \in Nat
    BY <1>2, <1>6, NothingPends DEF Unit
  <2> QED BY <1>4, <2>1 DEF Weighed
<1>12. Sound(p)'
  BY <1>7, <1>8, <1>9, <1>10, <1>11 DEF Sound
<1> QED BY <1>2, <1>3, <1>5, <1>6, <1>12, QuietLots

\* A purchase draws what it pays in gold, may add a lot, and moves each balance by what is
\* left to pay.
LEMMA OweFacts ==
  ASSUME NEW u \in Unit, NEW n \in Nat
  PROVE  /\ Plain(Owe(u, n)) /\ ToDraw(Owe(u, n)) = 0 /\ Moves(Owe(u, n), u, n)
         /\ \A v : v # u => Unmentioned(Owe(u, n), v)
<1>1. CASE n > 0
  <2>1. PICK a : a = [do |-> "balance", on |-> u, by |-> n]
    OBVIOUS
  <2>2. a \in Steps /\ StepOK(a) /\ a.do # "draw" /\ a.do # "create" /\ GramOf(a) = 0 /\ a.by = n
    BY <2>1 DEF Steps, StepOK, GramOf
  <2>3. About(a, u) /\ \A v : v # u => ~About(a, v)
    BY <2>1 DEF About
  <2>4. Owe(u, n) = <<a>>
    BY <1>1, <2>1 DEF Owe, Do
  <2> QED BY <2>2, <2>3, <2>4, PlainOne
<1>2. CASE n = 0
  <2>1. Owe(u, n) = <<>> /\ DOMAIN <<>> = {} /\ <<>> \in Seq(Steps)
    BY <1>2 DEF Owe
  <2> QED BY <1>2, <2>1, DrawsNone DEF Plain, Planned, Moves, Unmentioned
<1> QED BY <1>1, <1>2

\* A purchase: reads of the lots it pays with, a lot bought, and what is left owed (create_purchase).
LEMMA PurchaseBegins == ASSUME LotsInv, NEW p \in Proc, BeginPurchase(p) PROVE LotsInv'
<1>1. PICK d \in [Unit -> 0..MaxAmount], s \in DrawLists, cash \in 0..MaxAmount, items \in 0..1 :
        /\ cash <= d["CASH"] /\ Grams(s) <= d["GOLD"]
        /\ Begin(p, "purchase",
             Told(ConsumeLots(s) \o (IF items = 1 THEN Do("create", NONE, 0) ELSE <<>>)
                    \o Owe("CASH", Owed(d["CASH"], cash)) \o Owe("GOLD", Owed(d["GOLD"], Grams(s)))),
             d, [u \in Unit |-> IF u = "CASH" THEN cash ELSE Grams(s)])
  BY DEF BeginPurchase
<1>2. PICK g, oc, og, cr, ow1, ow2, co :
        /\ g = Grams(s) /\ oc = Owed(d["CASH"], cash) /\ og = Owed(d["GOLD"], g)
        /\ cr = (IF items = 1 THEN Do("create", NONE, 0) ELSE <<>>)
        /\ ow1 = Owe("CASH", oc) /\ ow2 = Owe("GOLD", og) /\ co = ConsumeLots(s)
  OBVIOUS
<1>3. PICK todo, c : todo = ((co \o cr) \o ow1) \o ow2 /\ c = [u \in Unit |-> IF u = "CASH" THEN cash ELSE g]
  OBVIOUS
<1>4. Begin(p, "purchase", Told(todo), d, c)
  BY <1>1, <1>2, <1>3
<1>5. /\ g \in Nat /\ cash \in Nat /\ d["CASH"] \in Nat /\ d["GOLD"] \in Nat
      /\ oc = d["CASH"] - cash /\ oc \in Nat /\ og = d["GOLD"] - g /\ og \in Nat
  <2>1. g \in Nat
    BY <1>2, ConsumeFacts
  <2>2. "CASH" \in Unit /\ "GOLD" \in Unit /\ MaxAmount \in Nat
    BY BoundAssumption DEF Unit
  <2>3. cash \in Nat /\ d["CASH"] \in Nat /\ d["GOLD"] \in Nat
    BY <2>2
  <2>4. cash <= d["CASH"] /\ g <= d["GOLD"]
    BY <1>1, <1>2
  <2> QED BY <1>2, <2>1, <2>3, <2>4 DEF Owed
<1>6. /\ Plain(co) /\ ToDraw(co) = g /\ \A u : Unmentioned(co, u)
  BY <1>2, ConsumeFacts
<1>7. Plain(cr) /\ ToDraw(cr) = 0 /\ \A u : Unmentioned(cr, u)
  <2>1. CASE items = 1
    <3>1. PICK a : a = [do |-> "create", on |-> NONE, by |-> 0]
      OBVIOUS
    <3>2. a \in Steps /\ StepOK(a) /\ a.do # "draw" /\ a.on = NONE /\ GramOf(a) = 0 /\ \A u : ~About(a, u)
      BY <3>1 DEF Steps, StepOK, GramOf, About
    <3>3. cr = <<a>>
      BY <1>2, <2>1, <3>1 DEF Do
    <3> QED BY <3>2, <3>3, PlainOne
  <2>2. CASE items # 1
    <3>1. cr = <<>> /\ DOMAIN cr = {} /\ cr \in Seq(Steps)
      BY <1>2, <2>2
    <3> QED BY <3>1, DrawsNone DEF Plain, Planned, Unmentioned
  <2> QED BY <2>1, <2>2
<1>8. /\ Plain(ow1) /\ ToDraw(ow1) = 0 /\ Moves(ow1, "CASH", oc) /\ Unmentioned(ow1, "GOLD")
      /\ Plain(ow2) /\ ToDraw(ow2) = 0 /\ Moves(ow2, "GOLD", og) /\ Unmentioned(ow2, "CASH")
  BY <1>2, <1>5, OweFacts DEF Unit
<1>9. co \in Seq(Steps) /\ cr \in Seq(Steps) /\ ow1 \in Seq(Steps) /\ ow2 \in Seq(Steps)
  BY <1>6, <1>7, <1>8 DEF Plain, Planned
<1>10. PICK t1, t2 : t1 = co \o cr /\ t2 = t1 \o ow1 /\ todo = t2 \o ow2
  BY <1>3
<1>11. t1 \in Seq(Steps) /\ t2 \in Seq(Steps) /\ Plain(todo) /\ todo \in Seq(Steps)
  <2>1. Plain(t1)
    BY <1>6, <1>7, <1>10, PlainJoined
  <2>2. Plain(t2)
    BY <1>8, <1>10, <2>1, PlainJoined
  <2>3. Plain(todo)
    BY <1>8, <1>10, <2>2, PlainJoined
  <2> QED BY <2>1, <2>2, <2>3 DEF Plain, Planned
<1>12. ToDraw(todo) = g
  <2>1. ToDraw(t1) = ToDraw(co) + ToDraw(cr)
    BY <1>9, <1>10, DrawsJoined
  <2>2. ToDraw(t2) = ToDraw(t1) + ToDraw(ow1)
    BY <1>9, <1>10, <1>11, DrawsJoined
  <2>3. ToDraw(todo) = ToDraw(t2) + ToDraw(ow2)
    BY <1>9, <1>10, <1>11, DrawsJoined
  <2> QED BY <1>5, <1>6, <1>7, <1>8, <2>1, <2>2, <2>3
<1>13. Moves(todo, "CASH", oc) /\ Moves(todo, "GOLD", og)
  <2>1. Unmentioned(t1, "CASH") /\ Unmentioned(t1, "GOLD")
    BY <1>6, <1>7, <1>9, <1>10, MovesJoined
  <2>2. Moves(t2, "CASH", oc)
    BY <1>8, <1>9, <1>10, <1>11, <2>1, MovesJoined
  <2>3. Unmentioned(t2, "GOLD")
    BY <1>8, <1>9, <1>10, <1>11, <2>1, MovesJoined
  <2>4. Moves(todo, "CASH", oc)
    BY <1>8, <1>9, <1>10, <1>11, <2>2, MovesJoined
  <2>5. Moves(todo, "GOLD", og)
    BY <1>8, <1>9, <1>10, <1>11, <2>3, MovesJoined
  <2> QED BY <2>4, <2>5
<1>14. PICK told : told = Told(todo)
  OBVIOUS
<1>15. Plain(told) /\ ToDraw(told) = g /\ Moves(told, "CASH", oc) /\ Moves(told, "GOLD", og)
  <2>1. CASE todo # <<>>
    BY <1>11, <1>12, <1>13, <1>14, <2>1 DEF Told
  <2>2. CASE todo = <<>>
    <3>1. told = <<Telling>> /\ g = 0
      BY <1>12, <1>14, <2>2, EventTypes, DrawsNone DEF Told
    <3>2. oc = 0 /\ og = 0
      <4>1. DOMAIN todo = {}
        BY <2>2
      <4> QED BY <1>13, <4>1 DEF Moves
    <3>3. Telling.do = "event" /\ \A u : ~About(Telling, u)
      BY DEF Telling, About
    <3>4. Plain(told) /\ ToDraw(told) = 0 /\ \A u : Unmentioned(told, u)
      BY <3>1, <3>3, EventTypes, PlainOne
    <3> QED BY <3>1, <3>2, <3>4 DEF Moves
  <2> QED BY <2>1, <2>2
<1>16. /\ Pend(c, "CASH") = cash /\ Pend(c, "GOLD") = g
       /\ Pend(d, "CASH") = d["CASH"] /\ Pend(d, "GOLD") = d["GOLD"]
  <2>1. DOMAIN c = Unit /\ DOMAIN d = Unit /\ c["CASH"] = cash /\ c["GOLD"] = g
    BY <1>3 DEF Unit
  <2> QED BY <2>1 DEF Pend, Unit
<1>17. \A u \in Unit : Pend(d, u) \in Nat /\ Pend(c, u) \in Nat /\ Moves(told, u, Pend(d, u) - Pend(c, u))
  BY <1>5, <1>15, <1>16 DEF Unit
<1>18. Begin(p, "purchase", told, d, c) /\ Planned(told, NONE) /\ ToDraw(told) = Pend(c, "GOLD")
  BY <1>4, <1>14, <1>15, <1>16 DEF Plain
<1> QED BY <1>15, <1>17, <1>18, BeginLots

\* A request of one statement that draws nothing and moves no balance.
LEMMA OneStatementBegins ==
  ASSUME LotsInv, NEW p \in Proc, NEW op \in {"adjust", "lot", "polish"}, NEW a \in Steps,
         Begin(p, op, <<a>>, <<>>, <<>>), StepOK(a),
         a.do \in {"adjust", "create", "decide"}, a.do = "create" => a.on = NONE
  PROVE  LotsInv'
<1>1. a.do # "draw" /\ GramOf(a) = 0 /\ \A u : ~About(a, u)
  BY DEF GramOf, About
<1>2. Plain(<<a>>) /\ Planned(<<a>>, NONE) /\ ToDraw(<<a>>) = 0 /\ \A u : Unmentioned(<<a>>, u)
  BY <1>1, PlainOne
<1>3. \A k : Pend(<<>>, k) = 0
  BY DEF Pend
<1>4. \A u : Moves(<<a>>, u, 0)
  BY <1>2 DEF Moves
<1> QED BY <1>2, <1>3, <1>4, BeginLots

\* A payment in cash moves the cash balance and nothing else (create_payment).
LEMMA CashPaymentBegins == ASSUME LotsInv, NEW p \in Proc, BeginCashPayment(p) PROVE LotsInv'
<1>1. PICK n \in 1..MaxAmount :
        Begin(p, "payment", Do("balance", "CASH", -n), <<>>, [u \in {"CASH"} |-> n])
  BY DEF BeginCashPayment
<1>2. n \in Nat
  BY BoundAssumption
<1>3. PICK a, c : a = [do |-> "balance", on |-> "CASH", by |-> -n] /\ c = [u \in {"CASH"} |-> n]
  OBVIOUS
<1>4. /\ a \in Steps /\ StepOK(a) /\ a.do # "draw" /\ a.do # "create" /\ GramOf(a) = 0
      /\ About(a, "CASH") /\ ~About(a, "GOLD") /\ a.by = -n
  BY <1>2, <1>3 DEF Steps, StepOK, GramOf, About, Unit
<1>5. /\ Plain(<<a>>) /\ Planned(<<a>>, NONE) /\ ToDraw(<<a>>) = 0
      /\ Moves(<<a>>, "CASH", -n) /\ Unmentioned(<<a>>, "GOLD")
  BY <1>4, PlainOne
<1>6. /\ Pend(c, "CASH") = n /\ Pend(c, "GOLD") = 0 /\ \A k : Pend(<<>>, k) = 0
  BY <1>3 DEF Pend
<1>7. Begin(p, "payment", <<a>>, <<>>, c)
  BY <1>1, <1>3 DEF Do
<1>8. 0 - n = -n /\ 0 - 0 = 0
  BY <1>2
<1>9. \A u \in Unit : /\ Pend(<<>>, u) \in Nat /\ Pend(c, u) \in Nat
                      /\ Moves(<<a>>, u, Pend(<<>>, u) - Pend(c, u))
  BY <1>2, <1>5, <1>6, <1>8 DEF Unit, Moves
<1> QED BY <1>5, <1>6, <1>7, <1>9, BeginLots

\* A payment in gold moves the gold balance and draws as many grams (create_payment).
LEMMA GoldPaymentBegins == ASSUME LotsInv, NEW p \in Proc, BeginGoldPayment(p) PROVE LotsInv'
<1>1. PICK s \in DrawLists :
        Begin(p, "payment", Do("balance", "GOLD", -Amount(s)) \o ConsumeLots(s),
              <<>>, [u \in {"GOLD"} |-> Amount(s)])
  BY DEF BeginGoldPayment
<1>2. PICK n, co : n = Grams(s) /\ co = ConsumeLots(s)
  OBVIOUS
<1>3. n \in Nat /\ Plain(co) /\ ToDraw(co) = n /\ \A u : Unmentioned(co, u)
  BY <1>2, ConsumeFacts
<1>4. PICK a, c : a = [do |-> "balance", on |-> "GOLD", by |-> -n] /\ c = [u \in {"GOLD"} |-> n]
  OBVIOUS
<1>5. /\ a \in Steps /\ StepOK(a) /\ a.do # "draw" /\ a.do # "create" /\ GramOf(a) = 0
      /\ About(a, "GOLD") /\ ~About(a, "CASH") /\ a.by = -n
  BY <1>3, <1>4 DEF Steps, StepOK, GramOf, About, Unit
<1>6. /\ Plain(<<a>>) /\ <<a>> \in Seq(Steps) /\ ToDraw(<<a>>) = 0
      /\ Moves(<<a>>, "GOLD", -n) /\ Unmentioned(<<a>>, "CASH")
  BY <1>5, PlainOne
<1>7. PICK todo : todo = <<a>> \o co
  OBVIOUS
<1>8. co \in Seq(Steps)
  BY <1>3 DEF Plain, Planned
<1>9. Plain(todo) /\ ToDraw(todo) = n
  <2>1. ToDraw(todo) = ToDraw(<<a>>) + ToDraw(co)
    BY <1>6, <1>7, <1>8, DrawsJoined
  <2> QED BY <1>3, <1>6, <1>7, <2>1, PlainJoined
<1>10. Moves(todo, "GOLD", -n) /\ Unmentioned(todo, "CASH")
  BY <1>3, <1>6, <1>7, <1>8, MovesJoined
<1>11. Pend(c, "GOLD") = n /\ Pend(c, "CASH") = 0 /\ \A k : Pend(<<>>, k) = 0
  BY <1>4 DEF Pend
<1>12. Begin(p, "payment", todo, <<>>, c)
  BY <1>1, <1>2, <1>4, <1>7 DEF Do, Amount
<1>13. 0 - n = -n /\ 0 - 0 = 0
  BY <1>3
<1>14. \A u \in Unit : /\ Pend(<<>>, u) \in Nat /\ Pend(c, u) \in Nat
                       /\ Moves(todo, u, Pend(<<>>, u) - Pend(c, u))
  BY <1>3, <1>10, <1>11, <1>13 DEF Unit, Moves
<1>15. Planned(todo, NONE)
  BY <1>9 DEF Plain
<1> QED BY <1>9, <1>11, <1>12, <1>14, <1>15, BeginLots

\* A melt decides on a piece and makes a lot of it (create_melt).
LEMMA MeltBegins == ASSUME LotsInv, NEW p \in Proc, BeginMelt(p) PROVE LotsInv'
<1>1. PICK y \in Piece : Begin(p, "melt", Do("decide", y, 0) \o Do("create", y, 0), <<>>, <<>>)
  BY DEF BeginMelt
<1>2. PICK a, b : a = [do |-> "decide", on |-> y, by |-> 0] /\ b = [do |-> "create", on |-> y, by |-> 0]
  OBVIOUS
<1>3. /\ a \in Steps /\ StepOK(a) /\ GramOf(a) = 0 /\ (\A u : ~About(a, u)) /\ a.do = "decide" /\ a.on = y
      /\ b \in Steps /\ StepOK(b) /\ GramOf(b) = 0 /\ (\A u : ~About(b, u)) /\ b.do = "create" /\ b.on = y
  BY <1>2 DEF Steps, StepOK, GramOf, About
<1>4. PICK todo : todo = <<a>> \o <<b>>
  OBVIOUS
<1>5. <<a>> \in Seq(Steps) /\ <<b>> \in Seq(Steps)
  BY <1>3
<1>6. todo \in Seq(Steps) /\ Len(todo) = 2 /\ DOMAIN todo = {1, 2} /\ todo[1] = a /\ todo[2] = b
  <2>1. Len(<<b>>) = 1 /\ <<b>>[1] = b /\ 1 \in 1..1 /\ 1 + 1 = 2
    OBVIOUS
  <2>2. todo \in Seq(Steps) /\ Len(todo) = 2 /\ todo[1] = a /\ todo[2] = b
    BY <1>3, <1>4, <1>5, <2>1, OneInFront
  <2> QED BY <2>2
<1>7. ToDraw(todo) = 0
  <2>1. ToDraw(<<a>>) = 0 /\ ToDraw(<<b>>) = 0
    BY <1>3, DrawsOne
  <2>2. ToDraw(todo) = ToDraw(<<a>>) + ToDraw(<<b>>)
    BY <1>4, <1>5, DrawsJoined
  <2> QED BY <2>1, <2>2
<1>8. Planned(todo, NONE) /\ \A u : Moves(todo, u, 0)
  BY <1>3, <1>6 DEF Planned, Moves, Unmentioned
<1>9. \A k : Pend(<<>>, k) = 0
  BY DEF Pend
<1>10. Begin(p, "melt", todo, <<>>, <<>>)
  BY <1>1, <1>2, <1>4 DEF Do
<1>11. todo[1].do = "decide" /\ todo[1].on = y /\ todo[2].do = "create" /\ todo[2].on = y
  BY <1>3, <1>6
<1> QED BY <1>6, <1>7, <1>8, <1>9, <1>10, <1>11, BeginLots

\* A request begins with its statements.
LEMMA RequestLots == ASSUME LotsInv, NEW p \in Proc, Request(p) PROVE LotsInv'
<1>1. CASE BeginAdjust(p)
  <2>1. PICK l \in Lot, d \in {-1, 1} : Exists(l) /\ Begin(p, "adjust", Do("adjust", l, d), <<>>, <<>>)
    BY <1>1 DEF BeginAdjust
  <2>2. PICK a : a = [do |-> "adjust", on |-> l, by |-> d]
    OBVIOUS
  <2>3. a \in Steps /\ StepOK(a) /\ a.do = "adjust"
    BY <2>1, <2>2 DEF Steps, StepOK
  <2>4. Begin(p, "adjust", <<a>>, <<>>, <<>>)
    BY <2>1, <2>2 DEF Do
  <2> QED BY <2>3, <2>4, OneStatementBegins
<1>2. CASE BeginLot(p)
  <2>2. PICK a : a = [do |-> "create", on |-> NONE, by |-> 0]
    OBVIOUS
  <2>3. a \in Steps /\ StepOK(a) /\ a.do = "create" /\ a.on = NONE
    BY <2>2 DEF Steps, StepOK
  <2>4. Begin(p, "lot", <<a>>, <<>>, <<>>)
    BY <1>2, <2>2 DEF BeginLot, Do
  <2> QED BY <2>3, <2>4, OneStatementBegins
<1>3. CASE BeginPolish(p)
  <2>1. PICK y \in Piece : Begin(p, "polish", Do("decide", y, 0), <<>>, <<>>)
    BY <1>3 DEF BeginPolish
  <2>2. PICK a : a = [do |-> "decide", on |-> y, by |-> 0]
    OBVIOUS
  <2>3. a \in Steps /\ StepOK(a) /\ a.do = "decide"
    BY <2>2 DEF Steps, StepOK
  <2>4. Begin(p, "polish", <<a>>, <<>>, <<>>)
    BY <2>1, <2>2 DEF Do
  <2> QED BY <2>3, <2>4, OneStatementBegins
<1> QED BY <1>1, <1>2, <1>3, PurchaseBegins, CashPaymentBegins, GoldPaymentBegins, MeltBegins DEF Request

-----------------------------------------------------------------------------
(* Steps that write no row. *)

\* The statement p is at, and what is left when it ran.
LEMMA AtHead ==
  ASSUME LotsInv, NEW p \in Proc, tx[p].todo # <<>>
  PROVE  /\ tx[p].todo \in Seq(Steps) /\ Planned(tx[p].todo, tx[p].seen)
         /\ Next1(p) \in Steps /\ Next1(p) = Head(tx[p].todo) /\ Next1(p) = tx[p].todo[1]
         /\ StepOK(Next1(p)) /\ 1 \in DOMAIN tx[p].todo /\ Len(tx[p].todo) \in Nat /\ Len(tx[p].todo) >= 1
         /\ Follows(tx[p].todo, Rest(p)) /\ Follows(tx[p].todo, Recorded(p))
         /\ Len(Rest(p)) = Len(tx[p].todo) - 1
         /\ \A k \in 1..(Len(tx[p].todo) - 1) : Rest(p)[k] = tx[p].todo[k + 1]
         /\ Next1(p).do \notin {"decide", "create"} => tx[p].op # "melt"
<1>1. PICK s : s = tx[p].todo
  OBVIOUS
<1>2. Planned(s, tx[p].seen) /\ s \in Seq(Steps) /\ s # <<>>
  BY <1>1 DEF LotsInv, Sound, Holds, Planned
<1>3. /\ Head(s) = s[1] /\ 1 \in DOMAIN s /\ Head(s) \in Steps /\ Len(s) \in Nat /\ Len(s) >= 1
      /\ Len(Tail(s)) = Len(s) - 1 /\ \A k \in 1..(Len(s) - 1) : Tail(s)[k] = s[k + 1]
  BY <1>2, HeadTail
<1>4. StepOK(s[1])
  BY <1>2, <1>3 DEF Planned
<1>5. Follows(s, Tail(s)) /\ Follows(s, Event \o Tail(s)) /\ Follows(s, <<>> \o Tail(s))
  BY <1>2, WhatFollows
<1>6. Recorded(p) = Event \o Tail(s) \/ Recorded(p) = <<>> \o Tail(s)
  BY <1>1 DEF Recorded, Rest
<1>7. Next1(p) = Head(s) /\ Rest(p) = Tail(s)
  BY <1>1 DEF Next1, Rest
<1>8. tx[p].op = "melt" => s[1].do \in {"decide", "create"}
  <2>1. ASSUME tx[p].op = "melt" PROVE s[1].do \in {"decide", "create"}
    <3>1. Melting(p)
      BY <2>1 DEF LotsInv, Sound, Fated
    <3>2. Len(s) # 0
      BY <1>3
    <3> QED BY <1>1, <3>1, <3>2 DEF Melting
  <2> QED BY <2>1
<1> QED BY <1>1, <1>2, <1>3, <1>4, <1>5, <1>6, <1>7, <1>8

\* A list in which a statement is replaced by one of the same grams, about no balance.
LEMMA Replaced ==
  ASSUME NEW s \in Seq(Steps), s # <<>>, NEW a \in Steps, NEW seen, NEW now, Planned(s, seen),
         StepOK(a), a.do = "draw" => now # NONE, GramOf(a) = GramOf(Head(s))
  PROVE  /\ Planned(<<a>> \o Tail(s), now) /\ ToDraw(<<a>> \o Tail(s)) = ToDraw(s)
         /\ \A k \in DOMAIN (<<a>> \o Tail(s)) :
              (<<a>> \o Tail(s))[k] = a \/ \E j \in DOMAIN s : (<<a>> \o Tail(s))[k] = s[j]
         /\ \A u : ~About(a, u) /\ Unmentioned(s, u) => Unmentioned(<<a>> \o Tail(s), u)
         /\ \A u, d : ~About(a, u) /\ ~About(Head(s), u) /\ Moves(s, u, d) => Moves(<<a>> \o Tail(s), u, d)
         /\ \A u, d : About(a, u) /\ About(Head(s), u) /\ a.by = Head(s).by /\ Moves(s, u, d) =>
              Moves(<<a>> \o Tail(s), u, d)
<1>1. PICK t, r, one : t = Tail(s) /\ r = <<a>> \o t /\ one = <<a>>
  OBVIOUS
<1>2. Follows(s, t) /\ t \in Seq(Steps) /\ \A k \in DOMAIN t : t[k].do # "draw" /\ StepOK(t[k])
  BY <1>1, WhatFollows, PlannedOn DEF Follows, Planned
<1>3. /\ r \in Seq(Steps) /\ DOMAIN r = 1..(Len(t) + 1) /\ DOMAIN t = 1..Len(t) /\ Len(t) \in Nat /\ r[1] = a
      /\ \A k \in 1..(Len(t) + 1) : k # 1 => k - 1 \in 1..Len(t) /\ r[k] = t[k - 1]
  BY <1>1, <1>2, OneInFront
<1>4. \A k \in DOMAIN r : StepOK(r[k]) /\ (r[k].do = "draw" => k = 1 /\ now # NONE)
  BY <1>2, <1>3
<1>5. one \in Seq(Steps) /\ DOMAIN one = {1} /\ one[1] = a
  BY <1>1
<1>6. ToDraw(r) = ToDraw(s)
  <2>1. ToDraw(r) = ToDraw(one) + ToDraw(t) /\ ToDraw(t) \in Int
    BY <1>1, <1>2, <1>5, DrawsJoined
  <2>2. ToDraw(one) = GramOf(a) /\ GramOf(a) \in Int
    BY <1>1, DrawsOne DEF Steps, GramOf
  <2> QED BY <1>2, <2>1, <2>2 DEF Follows
<1>7. \A k \in DOMAIN r : r[k] = a \/ \E j \in DOMAIN s : r[k] = s[j]
  <2>1. \A k \in DOMAIN t : \E j \in DOMAIN s : t[k] = s[j]
    <3>1. /\ Len(s) \in Nat /\ DOMAIN s = 1..Len(s) /\ DOMAIN t = 1..(Len(s) - 1)
          /\ \A k \in 1..(Len(s) - 1) : t[k] = s[k + 1]
      BY <1>1, HeadTail
    <3>2. \A k \in 1..(Len(s) - 1) : k + 1 \in 1..Len(s)
      BY <3>1
    <3> QED BY <3>1, <3>2
  <2> QED BY <1>3, <2>1
<1>8. ASSUME NEW u, ~About(a, u) PROVE Unmentioned(one, u)
  BY <1>5, <1>8 DEF Unmentioned
<1>9. ASSUME NEW u, ~About(a, u), Unmentioned(s, u) PROVE Unmentioned(r, u)
  BY <1>1, <1>2, <1>5, <1>8, <1>9, MovesJoined DEF Follows
<1>10. ASSUME NEW u, NEW d, ~About(a, u), ~About(Head(s), u), Moves(s, u, d) PROVE Moves(r, u, d)
  <2>1. Moves(t, u, d)
    BY <1>2, <1>10 DEF Follows
  <2> QED BY <1>1, <1>2, <1>5, <1>8, <1>10, <2>1, MovesJoined
<1>11. ASSUME NEW u, NEW d, About(a, u), About(Head(s), u), a.by = Head(s).by, Moves(s, u, d) PROVE Moves(r, u, d)
  <2>1. Head(s).by = d /\ Unmentioned(t, u)
    BY <1>2, <1>11 DEF Follows
  <2>2. Moves(one, u, d)
    BY <1>5, <1>11, <2>1 DEF Moves
  <2> QED BY <1>1, <1>2, <1>5, <2>1, <2>2, MovesJoined
<1>12. Planned(r, now)
  BY <1>3, <1>4 DEF Planned
<1> QED BY <1>1, <1>6, <1>7, <1>9, <1>10, <1>11, <1>12

\* A step after which the same is done and the same is to be done.
LEMMA SameWork ==
  ASSUME LotsInv, NEW p \in Proc, UNCHANGED tables, UNCHANGED <<lotLock, balLock, pieceLock>>,
         auditLock' \in Proc \cup {NONE}, NEW x, IsSession(x), tx' = [tx EXCEPT ![p] = x],
         x.op = tx[p].op, x.stale = tx[p].stale, x.lots = tx[p].lots, x.drawn = tx[p].drawn,
         x.bal = tx[p].bal, x.adjusted = tx[p].adjusted, x.fate = tx[p].fate, x.due = tx[p].due,
         x.paid = tx[p].paid, x.op # "melt", x.seen \in Copy \cup {NONE}, Planned(x.todo, x.seen),
         ToDraw(x.todo) = ToDraw(tx[p].todo),
         \A k \in DOMAIN x.todo : x.todo[k].do = "create" => x.todo[k].on = NONE,
         \A u \in Unit : Unmentioned(tx[p].todo, u) => Unmentioned(x.todo, u),
         \A u \in Unit : \A d : Moves(tx[p].todo, u, d) => Moves(x.todo, u, d)
  PROVE  LotsInv'
<1>1. tx'[p] = x
  BY Given DEF LotsInv
<1>2. /\ lots' = lots /\ drawn' = drawn /\ adjusted' = adjusted /\ balance' = balance /\ due' = due
      /\ paid' = paid /\ fate' = fate /\ stale' = stale
  BY TablesKept
<1>3. Sound(p) /\ TypeOK
  BY DEF LotsInv
<1>4. LocksKept(p)
  BY <1>3 DEF TypeOK, LocksKept
<1>5. Planned(tx[p].todo, tx[p].seen)'
  <2>1. Planned(x.todo, x.seen)'
    BY <1>2 DEF Planned, StepOK, Exists
  <2> QED BY <1>1, <2>1
<1>6. Holds(p)'
  BY <1>1, <1>2, <1>3, <1>5 DEF Sound, Holds, Exists
<1>7. Booked(p)'
  BY <1>1, <1>2, <1>3 DEF Sound, Booked
<1>8. Fated(p)'
  BY <1>1, <1>2, <1>3 DEF Sound, Fated, Exists
<1>9. Owing(p)'
  BY <1>1, <1>2, <1>3 DEF Sound, Owing
<1>10. Weighed(p)'
  BY <1>1, <1>3 DEF Sound, Weighed
<1>11. Sound(p)'
  BY <1>6, <1>7, <1>8, <1>9, <1>10 DEF Sound
<1>12. \A l \in DOMAIN x.lots : \A q \in Proc : q # p => l \notin DOMAIN tx[q].lots
  BY DEF LotsInv, OwnLots
<1> QED BY <1>4, <1>11, <1>12, QuietLots

\* An event is recorded.
LEMMA EventLots == ASSUME LotsInv, NEW p \in Proc, RecordEvent(p) PROVE LotsInv'
<1>1. PICK y, s, r : y = tx[p] /\ s = y.todo /\ r = Rest(p)
  OBVIOUS
<1>2. /\ s # <<>> /\ Next1(p).do = "event" /\ auditLock' = p /\ UNCHANGED tables
      /\ UNCHANGED <<lotLock, balLock, pieceLock>> /\ tx' = [tx EXCEPT ![p] = [y EXCEPT !.todo = r]]
  BY <1>1 DEF RecordEvent, At, Record, Go
<1>3. /\ Follows(s, r) /\ Planned(s, y.seen) /\ Next1(p) = Head(s) /\ y.op # "melt"
  BY <1>1, <1>2, AtHead
<1>4. IsSession(y) /\ Sound(p)
  BY <1>1 DEF LotsInv, Shaped
<1>5. PICK x : x = [y EXCEPT !.todo = r]
  OBVIOUS
<1>6. /\ IsSession(x) /\ x.op = y.op /\ x.stale = y.stale /\ x.lots = y.lots /\ x.drawn = y.drawn
      /\ x.bal = y.bal /\ x.adjusted = y.adjusted /\ x.fate = y.fate /\ x.due = y.due /\ x.paid = y.paid
      /\ x.seen = y.seen /\ x.todo = r
  BY <1>4, <1>5 DEF IsSession
<1>7. Planned(r, y.seen) /\ ToDraw(r) = ToDraw(s)
  BY <1>2, <1>3, PlannedOn DEF Follows, GramOf
<1>8. \A u, d : (Unmentioned(s, u) => Unmentioned(r, u)) /\ (Moves(s, u, d) => Moves(r, u, d))
  BY <1>2, <1>3 DEF Follows, About
<1>9. \A k \in DOMAIN r : r[k].do = "create" => r[k].on = NONE
  <2>1. \A j \in DOMAIN s : s[j].do = "create" => s[j].on = NONE
    BY <1>1, <1>3, <1>4 DEF Sound, Fated
  <2> QED BY <1>3, <2>1 DEF Follows, Telling
<1>10. y.seen \in Copy \cup {NONE}
  BY <1>1, <1>4 DEF Sound, Holds
<1>11. tx' = [tx EXCEPT ![p] = x] /\ auditLock' \in Proc \cup {NONE}
  BY <1>2, <1>5
<1>12. /\ x.op = tx[p].op /\ x.stale = tx[p].stale /\ x.lots = tx[p].lots /\ x.drawn = tx[p].drawn
       /\ x.bal = tx[p].bal /\ x.adjusted = tx[p].adjusted /\ x.fate = tx[p].fate /\ x.due = tx[p].due
       /\ x.paid = tx[p].paid /\ x.op # "melt"
  BY <1>1, <1>3, <1>6
<1>13. /\ x.seen \in Copy \cup {NONE} /\ Planned(x.todo, x.seen) /\ ToDraw(x.todo) = ToDraw(tx[p].todo)
       /\ \A k \in DOMAIN x.todo : x.todo[k].do = "create" => x.todo[k].on = NONE
       /\ \A u \in Unit : Unmentioned(tx[p].todo, u) => Unmentioned(x.todo, u)
       /\ \A u \in Unit : \A d : Moves(tx[p].todo, u, d) => Moves(x.todo, u, d)
  BY <1>1, <1>6, <1>7, <1>8, <1>9, <1>10
<1> QED BY <1>2, <1>6, <1>11, <1>12, <1>13, SameWork

\* A statement gives way to another one.
LEMMA GivesWay ==
  ASSUME LotsInv, NEW p \in Proc, tx[p].todo # <<>>, Next1(p).do \notin {"decide", "create"},
         UNCHANGED tables, UNCHANGED locks, NEW a \in Steps, StepOK(a), a.do # "create",
         NEW now \in Copy \cup {NONE}, a.do = "draw" => now # NONE,
         GramOf(a) = GramOf(Next1(p)), \A u : About(a, u) <=> About(Next1(p), u), a.by = Next1(p).by,
         tx' = [tx EXCEPT ![p] = [[tx[p] EXCEPT !.seen = now] EXCEPT !.todo = <<a>> \o Rest(p)]]
  PROVE  LotsInv'
<1>1. PICK y, s, r : y = tx[p] /\ s = y.todo /\ r = <<a>> \o Tail(s)
  OBVIOUS
<1>2. s \in Seq(Steps) /\ s # <<>> /\ Planned(s, y.seen) /\ Next1(p) = Head(s) /\ y.op # "melt"
  BY <1>1, AtHead
<1>3. IsSession(y) /\ Sound(p)
  BY <1>1 DEF LotsInv, Shaped
<1>4. PICK x : x = [[y EXCEPT !.seen = now] EXCEPT !.todo = r]
  OBVIOUS
<1>5. /\ IsSession(x) /\ x.op = y.op /\ x.stale = y.stale /\ x.lots = y.lots /\ x.drawn = y.drawn
      /\ x.bal = y.bal /\ x.adjusted = y.adjusted /\ x.fate = y.fate /\ x.due = y.due /\ x.paid = y.paid
      /\ x.seen = now /\ x.todo = r
  BY <1>3, <1>4 DEF IsSession
<1>6. tx' = [tx EXCEPT ![p] = x]
  BY <1>1, <1>4 DEF Rest
<1>7. /\ Planned(r, now) /\ ToDraw(r) = ToDraw(s)
      /\ \A k \in DOMAIN r : r[k] = a \/ \E j \in DOMAIN s : r[k] = s[j]
      /\ \A u : ~About(a, u) /\ Unmentioned(s, u) => Unmentioned(r, u)
      /\ \A u, d : ~About(a, u) /\ ~About(Head(s), u) /\ Moves(s, u, d) => Moves(r, u, d)
      /\ \A u, d : About(a, u) /\ About(Head(s), u) /\ a.by = Head(s).by /\ Moves(s, u, d) => Moves(r, u, d)
  <2>1. GramOf(a) = GramOf(Head(s))
    BY <1>2
  <2> DEFINE t == <<a>> \o Tail(s)
  <2>2. /\ Planned(t, now) /\ ToDraw(t) = ToDraw(s)
        /\ \A k \in DOMAIN t : t[k] = a \/ \E j \in DOMAIN s : t[k] = s[j]
        /\ \A u : ~About(a, u) /\ Unmentioned(s, u) => Unmentioned(t, u)
        /\ \A u, d : ~About(a, u) /\ ~About(Head(s), u) /\ Moves(s, u, d) => Moves(t, u, d)
        /\ \A u, d : About(a, u) /\ About(Head(s), u) /\ a.by = Head(s).by /\ Moves(s, u, d) => Moves(t, u, d)
    BY <1>2, <2>1, Replaced
  <2> HIDE DEF t
  <2>3. r = t
    BY <1>1 DEF t
  <2> QED BY <2>2, <2>3
<1>8. \A u : Unmentioned(s, u) => ~About(Head(s), u)
  BY <1>2, MovesTail
<1>9. \A u, d : (Unmentioned(s, u) => Unmentioned(r, u)) /\ (Moves(s, u, d) => Moves(r, u, d))
  BY <1>2, <1>7, <1>8
<1>10. \A k \in DOMAIN r : r[k].do = "create" => r[k].on = NONE
  <2>1. \A j \in DOMAIN s : s[j].do = "create" => s[j].on = NONE
    BY <1>1, <1>2, <1>3 DEF Sound, Fated
  <2> QED BY <1>7, <2>1
<1>11. UNCHANGED <<lotLock, balLock, pieceLock>> /\ auditLock' \in Proc \cup {NONE}
  BY DEF locks, LotsInv, TypeOK
<1>12. /\ x.op = tx[p].op /\ x.stale = tx[p].stale /\ x.lots = tx[p].lots /\ x.drawn = tx[p].drawn
       /\ x.bal = tx[p].bal /\ x.adjusted = tx[p].adjusted /\ x.fate = tx[p].fate /\ x.due = tx[p].due
       /\ x.paid = tx[p].paid /\ x.op # "melt"
  BY <1>1, <1>2, <1>5
<1>13. /\ x.seen \in Copy \cup {NONE} /\ Planned(x.todo, x.seen) /\ ToDraw(x.todo) = ToDraw(tx[p].todo)
       /\ \A k \in DOMAIN x.todo : x.todo[k].do = "create" => x.todo[k].on = NONE
       /\ \A u \in Unit : Unmentioned(tx[p].todo, u) => Unmentioned(x.todo, u)
       /\ \A u \in Unit : \A d : Moves(tx[p].todo, u, d) => Moves(x.todo, u, d)
  <2>1. x.todo = r /\ x.seen = now /\ tx[p].todo = s
    BY <1>1, <1>5
  <2>2. now \in Copy \cup {NONE} /\ Planned(r, now) /\ ToDraw(r) = ToDraw(s)
    BY <1>1, <1>7
  <2> QED BY <1>9, <1>10, <2>1, <2>2
<1> QED BY <1>5, <1>6, <1>11, <1>12, <1>13, SameWork

\* The row of a lot that exists, as p sees it.
LEMMA RowType ==
  ASSUME LotsInv, NEW p \in Proc, NEW l \in Lot, Exists(l)
  PROVE  /\ RowOf(p, l) \in LotRow /\ RowOf(p, l).left >= 0 /\ RowOf(p, l).left \in Int
         /\ RowOf(p, l).depleted \in BOOLEAN /\ RowOf(p, l).from \in Piece \cup {NONE}
<1>1. lots[l] \in LotRow /\ lots[l].left >= 0
  BY DEF LotsInv, TypeOK, Exists
<1>2. \A m \in DOMAIN tx[p].lots : tx[p].lots[m] \in LotRow /\ tx[p].lots[m].left >= 0
  BY DEF LotsInv, Sound, Holds
<1>3. RowOf(p, l) \in LotRow /\ RowOf(p, l).left >= 0
  BY <1>1, <1>2 DEF RowOf
<1> QED BY <1>3 DEF LotRow

\* A lot is read before it is drawn from.
LEMMA ReadLots == ASSUME LotsInv, NEW p \in Proc, Read(p) PROVE LotsInv'
<1>1. PICK l, n, now :
        /\ l = Next1(p).on /\ n = Next1(p).by
        /\ now = IF tx[p].seen # NONE /\ l = tx[p].seen.of THEN tx[p].seen
                 ELSE [of |-> l, row |-> RowOf(p, l)]
  OBVIOUS
<1>2. /\ tx[p].todo # <<>> /\ Next1(p).do = "read" /\ UNCHANGED tables /\ UNCHANGED locks
      /\ tx' = [tx EXCEPT ![p] = [[tx[p] EXCEPT !.seen = now] EXCEPT !.todo = Do("draw", l, n) \o Rest(p)]]
  BY <1>1 DEF Read, At, Go
<1>3. StepOK(Next1(p)) /\ Next1(p) \in Steps
  BY <1>2, AtHead
<1>4. l \in Lot /\ Exists(l) /\ n \in Nat
  BY <1>1, <1>2, <1>3 DEF StepOK
<1>5. PICK a : a = [do |-> "draw", on |-> l, by |-> n]
  OBVIOUS
<1>6. /\ a \in Steps /\ StepOK(a) /\ a.do = "draw" /\ GramOf(a) = n /\ a.by = n /\ \A u : ~About(a, u)
      /\ GramOf(Next1(p)) = n /\ \A u : ~About(Next1(p), u)
  BY <1>1, <1>2, <1>4, <1>5 DEF Steps, StepOK, GramOf, About
<1>7. now \in Copy /\ now # NONE
  <2>1. RowOf(p, l) \in LotRow
    BY <1>4, RowType
  <2>2. tx[p].seen \in Copy \cup {NONE}
    BY DEF LotsInv, Sound, Holds
  <2>3. [of |-> l, row |-> RowOf(p, l)] \in Copy
    BY <1>4, <2>1 DEF Copy
  <2> QED BY <1>1, <2>2, <2>3, RowAssumption
<1>8. tx' = [tx EXCEPT ![p] = [[tx[p] EXCEPT !.seen = now] EXCEPT !.todo = <<a>> \o Rest(p)]]
  BY <1>2, <1>5 DEF Do
<1>9. a.by = Next1(p).by /\ GramOf(a) = GramOf(Next1(p)) /\ \A u : About(a, u) <=> About(Next1(p), u)
  BY <1>1, <1>6
<1> QED BY <1>2, <1>6, <1>7, <1>8, <1>9, GivesWay

\* Nobody has a balance yet: its first row is to be inserted.
LEMMA InsertAheadLots ==
  ASSUME LotsInv, NEW p \in Proc, At(p, "balance"), ~(Next1(p).by < 0),
         tx' = [tx EXCEPT ![p].todo = Do("insert", Next1(p).on, Next1(p).by) \o Rest(p)],
         UNCHANGED <<tables, locks>>
  PROVE  LotsInv'
<1>1. PICK y, u, n, a : y = tx[p] /\ u = Next1(p).on /\ n = Next1(p).by /\ a = [do |-> "insert", on |-> u, by |-> n]
  OBVIOUS
<1>2. y.todo # <<>> /\ Next1(p).do = "balance"
  BY <1>1 DEF At
<1>3. StepOK(Next1(p)) /\ Next1(p) \in Steps
  BY <1>1, <1>2, AtHead
<1>4. u \in Unit /\ n \in Nat
  <2>1. Next1(p).by \in Int
    BY <1>3 DEF Steps
  <2> QED BY <1>1, <1>2, <1>3, <2>1 DEF StepOK
<1>5. /\ a \in Steps /\ StepOK(a) /\ a.do = "insert" /\ a.by = n /\ GramOf(a) = 0 /\ GramOf(Next1(p)) = 0
      /\ \A v : About(a, v) <=> About(Next1(p), v)
  BY <1>1, <1>2, <1>4 DEF Steps, StepOK, GramOf, About
<1>6. y.seen \in Copy \cup {NONE} /\ IsSession(y) /\ tx = [q \in Proc |-> tx[q]]
  BY <1>1 DEF LotsInv, Sound, Holds, Shaped
<1>7. [y EXCEPT !.todo = <<a>> \o Rest(p)] = [[y EXCEPT !.seen = y.seen] EXCEPT !.todo = <<a>> \o Rest(p)]
  BY <1>6 DEF IsSession
<1>8. tx' = [tx EXCEPT ![p] = [y EXCEPT !.todo = <<a>> \o Rest(p)]]
  BY <1>1, <1>6 DEF Do
<1>9. tx' = [tx EXCEPT ![p] = [[tx[p] EXCEPT !.seen = tx[p].seen] EXCEPT !.todo = <<a>> \o Rest(p)]]
  BY <1>1, <1>7, <1>8
<1> QED BY <1>1, <1>2, <1>5, <1>6, <1>9, GivesWay

-----------------------------------------------------------------------------
(* Draws and corrections. *)

\* What a transaction has drawn from a lot, drawn once more.
LEMMA SumDrawn ==
  ASSUME NEW f, NEW l \in Lot, NEW n \in Int, \A k \in Lot : Pend(f, k) \in Int
  PROVE  /\ SumFunctionOnSet(Pending(Add(f, l, n)), Lot) = SumFunctionOnSet(Pending(f), Lot) + n
         /\ SumFunctionOnSet(Pending(f), Lot) \in Int
<1>1. PICK a, b : a = Pending(f) /\ b = Pending(Add(f, l, n))
  OBVIOUS
<1>2. \A k \in Lot : a[k] = Pend(f, k) /\ b[k] = Pend(Add(f, l, n), k)
  BY <1>1 DEF Pending
<1>3. b[l] = n + a[l] /\ \A k \in Lot : k # l => b[k] = a[k]
  <2>1. Pend(Add(f, l, n), l) = n + Pend(f, l) /\ \A k : k # l => Pend(Add(f, l, n), k) = Pend(f, k)
    BY DEF Add, Put, Pend
  <2> QED BY <1>2, <2>1
<1>4. \A k \in Lot : a[k] \in Int /\ b[k] \in Int
  BY <1>2, <1>3
<1>5. SumFunctionOnSet(b, Lot) = SumFunctionOnSet(a, Lot) - a[l] + b[l] /\ SumFunctionOnSet(a, Lot) \in Int
  BY <1>3, <1>4, SumChange, SumType, StockedAssumption
<1> QED BY <1>1, <1>3, <1>4, <1>5

\* The books of a lot as p sees it.
LEMMA BooksOfRow ==
  ASSUME LotsInv, NEW p \in Proc, NEW l \in Lot, Exists(l), l \notin stale, l \notin tx[p].stale
  PROVE  /\ RowOf(p, l).left = Weight + adjusted[l] + Pend(tx[p].adjusted, l) - drawn[l] - Pend(tx[p].drawn, l)
         /\ RowOf(p, l).depleted <=> RowOf(p, l).left = 0
<1>1. CASE l \in DOMAIN tx[p].lots
  BY <1>1 DEF LotsInv, Sound, Booked, RowOf
<1>2. CASE l \notin DOMAIN tx[p].lots
  <2>1. Pend(tx[p].adjusted, l) = 0 /\ Pend(tx[p].drawn, l) = 0
    BY <1>2 DEF LotsInv, Sound, Holds, Pend
  <2>2. InBooks(l) /\ RowOf(p, l) = lots[l]
    BY <1>2 DEF LotsInv, BooksKeptUnlessStale, RowOf
  <2>3. Weight \in Int /\ adjusted[l] \in Int /\ drawn[l] \in Int
    BY BoundAssumption DEF LotsInv, TypeOK
  <2> QED BY <2>1, <2>2, <2>3 DEF InBooks
<1> QED BY <1>1, <1>2

\* A row with another weight and another flag.
RowIs(row, m, b, x) == row = [left |-> m, depleted |-> b, from |-> x]

\* The row of a lot, field by field.
LEMMA RowWritten ==
  ASSUME NEW row, NEW m \in Int, NEW b \in BOOLEAN, NEW x \in Piece \cup {NONE}, RowIs(row, m, b, x)
  PROVE  row \in LotRow /\ row.left = m /\ row.depleted = b /\ row.from = x
BY Zenon DEF LotRow, RowIs

\* A row agrees with the books of a lot, and with what a transaction adds to them.
Agrees(row, l, x) ==
  /\ row.left = Weight + adjusted[l] + Pend(x.adjusted, l) - drawn[l] - Pend(x.drawn, l)
  /\ row.depleted <=> row.left = 0

\* p writes a row to lot l, under its lock, and goes on with x.
WritesLot(p, l, row, x) ==
  /\ UNCHANGED tables /\ UNCHANGED <<balLock, pieceLock, auditLock>>
  /\ Free(lotLock[l], p) /\ lotLock' = [lotLock EXCEPT ![l] = p]
  /\ IsSession(x) /\ tx' = [tx EXCEPT ![p] = x]
  /\ tx[p].todo # <<>> /\ (\A u : ~About(Next1(p), u)) /\ Follows(tx[p].todo, x.todo)
  /\ x.op = tx[p].op /\ x.op # "melt" /\ x.bal = tx[p].bal /\ x.fate = tx[p].fate
  /\ x.due = tx[p].due /\ x.paid = tx[p].paid /\ x.seen \in Copy \cup {NONE}
  /\ row \in LotRow /\ row.left >= 0 /\ row.from = RowOf(p, l).from /\ x.lots = Put(tx[p].lots, l, row)
  /\ \A k \in DOMAIN x.drawn : k \in DOMAIN tx[p].drawn \cup {l} /\ x.drawn[k] \in Nat
  /\ \A k \in DOMAIN x.adjusted : k \in DOMAIN tx[p].adjusted \cup {l} /\ x.adjusted[k] \in Int
  /\ \A k \in Lot : k # l => Pend(x.drawn, k) = Pend(tx[p].drawn, k)
                             /\ Pend(x.adjusted, k) = Pend(tx[p].adjusted, k)
  /\ tx[p].stale \subseteq x.stale /\ x.stale \subseteq tx[p].stale \cup {l}
  /\ l \notin stale /\ l \notin x.stale => Agrees(row, l, x)
  /\ SumFunctionOnSet(Pending(x.drawn), Lot) + ToDraw(x.todo) = Pend(x.paid, "GOLD")

\* A lot written under its lock keeps its books, and the others theirs.
LEMMA LotWritten ==
  ASSUME LotsInv, NEW p \in Proc, NEW l \in Lot, Exists(l), NEW row, NEW x, WritesLot(p, l, row, x)
  PROVE  LotsInv'
<1> USE DEF WritesLot
<1>1. PICK y, s, r : y = tx[p] /\ s = y.todo /\ r = x.todo
  OBVIOUS
<1>2. tx'[p] = x /\ TypeOK /\ Sound(p) /\ Holds(p) /\ Fated(p) /\ Owing(p) /\ Booked(p)
  BY Given DEF LotsInv, Sound
<1>3. /\ lots' = lots /\ drawn' = drawn /\ adjusted' = adjusted /\ balance' = balance /\ due' = due
      /\ paid' = paid /\ fate' = fate /\ stale' = stale /\ \A k : Exists(k)' <=> Exists(k)
  BY TablesKept DEF Exists
<1>4. LocksKept(p) /\ lotLock'[l] = p /\ \A k \in Lot : lotLock[k] = p => lotLock'[k] = p
  BY <1>2 DEF TypeOK, LocksKept, Free
<1>5. DOMAIN x.lots = DOMAIN y.lots \cup {l} /\ x.lots[l] = row /\ \A k \in DOMAIN y.lots : k # l => x.lots[k] = y.lots[k]
  BY <1>1 DEF Put
<1>6. Follows(s, r) /\ Planned(s, y.seen) /\ Next1(p) = Head(s)
  BY <1>1, AtHead
<1>7. Planned(r, x.seen)
  BY <1>6, PlannedOn
<1>8. Holds(p)'
  <2>1. Planned(tx[p].todo, tx[p].seen)'
    <3>1. Planned(x.todo, x.seen)'
      BY <1>1, <1>3, <1>7 DEF Planned, StepOK
    <3> QED BY <1>2, <3>1
  <2>2. \A k \in DOMAIN x.lots : /\ k \in Lot /\ x.lots[k] \in LotRow /\ x.lots[k].left >= 0
                                 /\ Exists(k)' => lotLock'[k] = p
    BY <1>1, <1>2, <1>3, <1>4, <1>5 DEF Holds
  <2>3. /\ \A k \in DOMAIN x.drawn : k \in DOMAIN x.lots /\ Exists(k)' /\ x.drawn[k] \in Nat
        /\ \A k \in DOMAIN x.adjusted : k \in DOMAIN x.lots /\ Exists(k)' /\ x.adjusted[k] \in Int
        /\ \A k \in x.stale : k \in DOMAIN x.lots /\ Exists(k)'
    BY <1>1, <1>2, <1>3, <1>5 DEF Holds
  <2>4. x.op \in {"none", "purchase", "payment", "adjust", "lot", "melt", "polish"}
    BY <1>2 DEF Holds
  <2> QED BY <1>2, <2>1, <2>2, <2>3, <2>4 DEF Holds
<1>9. Booked(p)'
  <2>1. ASSUME NEW k \in DOMAIN x.lots, k \notin stale, k \notin x.stale
        PROVE  /\ x.lots[k].left = Weight + adjusted[k] + Pend(x.adjusted, k) - drawn[k] - Pend(x.drawn, k)
               /\ x.lots[k].depleted <=> x.lots[k].left = 0
    <3>1. CASE k = l
      BY <1>5, <2>1, <3>1 DEF Agrees
    <3>2. CASE k # l
      <4>1. k \in DOMAIN y.lots /\ k \in Lot /\ k \notin y.stale /\ x.lots[k] = y.lots[k]
        BY <1>1, <1>2, <1>5, <2>1, <3>2 DEF Holds
      <4>2. Pend(x.drawn, k) = Pend(y.drawn, k) /\ Pend(x.adjusted, k) = Pend(y.adjusted, k)
        BY <1>1, <3>2, <4>1
      <4> QED BY <1>1, <1>2, <2>1, <4>1, <4>2 DEF Booked
    <3> QED BY <3>1, <3>2
  <2> QED BY <1>2, <1>3, <2>1 DEF Booked
<1>10. Fated(p)'
  <2>1. \A k \in DOMAIN r : r[k].do = "create" => r[k].on = NONE
    <3>1. \A j \in DOMAIN s : s[j].do = "create" => s[j].on = NONE
      BY <1>1, <1>2 DEF Fated
    <3> QED BY <1>6, <3>1 DEF Follows, Telling
  <2>2. \A k \in DOMAIN x.lots : x.lots[k].from = IF Exists(k) THEN lots[k].from ELSE NONE
    <3>1. \A k \in DOMAIN y.lots : y.lots[k].from = IF Exists(k) THEN lots[k].from ELSE NONE
      BY <1>1, <1>2 DEF Fated
    <3>2. row.from = lots[l].from
      BY <1>1, <3>1 DEF RowOf
    <3> QED BY <1>5, <3>1, <3>2
  <2>3. \A z \in DOMAIN x.fate :
          /\ z \in Piece /\ pieceLock'[z] = p /\ fate'[z] = "bought"
          /\ x.fate[z] = IF x.op = "melt" THEN "melted" ELSE "polished"
    BY <1>2, <1>3 DEF Fated
  <2> QED BY <1>1, <1>2, <1>3, <2>1, <2>2, <2>3 DEF Fated
<1>11. Owing(p)'
  <2>1. \A u, d : (Unmentioned(s, u) => Unmentioned(r, u)) /\ (Moves(s, u, d) => Moves(r, u, d))
    BY <1>6 DEF Follows
  <2> QED BY <1>1, <1>2, <1>3, <2>1 DEF Owing
<1>12. Weighed(p)'
  BY <1>2 DEF Weighed
<1>13. Sound(p)'
  BY <1>8, <1>9, <1>10, <1>11, <1>12 DEF Sound
<1>14. ASSUME NEW k \in DOMAIN x.lots, NEW q \in Proc, q # p PROVE k \notin DOMAIN tx[q].lots
  <2>1. CASE k = l
    <3>1. l \in DOMAIN tx[q].lots => lotLock[l] = q
      BY DEF LotsInv, Sound, Holds
    <3>2. lotLock[l] # q
      BY <1>14, NoneAssumption DEF Free
    <3> QED BY <2>1, <3>1, <3>2
  <2>2. CASE k # l
    BY <1>1, <1>5, <1>14, <2>2 DEF LotsInv, OwnLots
  <2> QED BY <2>1, <2>2
<1> QED BY <1>4, <1>13, <1>14, QuietLots

\* Grams are drawn from a lot.
LEMMA DrawLots == ASSUME LotsInv, NEW p \in Proc, Draw(p) PROVE LotsInv'
<1>1. PICK y, s, r, l, n, copy : /\ y = tx[p] /\ s = y.todo /\ r = Recorded(p)
        /\ l = Next1(p).on /\ n = Next1(p).by /\ copy = SessionCopy(p, l)
  OBVIOUS
<1>2. s # <<>> /\ Next1(p).do = "draw" /\ Free(lotLock[l], p)
  BY <1>1 DEF Draw, At
<1>3. CASE Short(copy, n)
  BY <1>1, <1>3, RefuseLots DEF Draw
<1>4. CASE ~Short(copy, n)
  <2>1. /\ s \in Seq(Steps) /\ Planned(s, y.seen) /\ Next1(p) = s[1] /\ Next1(p) = Head(s) /\ 1 \in DOMAIN s
        /\ StepOK(Next1(p)) /\ Follows(s, r) /\ y.op # "melt"
    BY <1>1, <1>2, AtHead
  <2>2. l \in Lot /\ Exists(l) /\ n \in Nat
    BY <1>1, <1>2, <2>1 DEF StepOK
  <2>3. y.seen \in Copy /\ y.seen # NONE /\ copy = y.seen.row /\ copy \in LotRow
    <3>1. y.seen \in Copy \cup {NONE}
      BY <1>1 DEF LotsInv, Sound, Holds
    <3>2. y.seen # NONE
      BY <1>2, <2>1 DEF Planned
    <3> QED BY <1>1, <3>1, <3>2 DEF Copy, SessionCopy
  <2>4. copy.depleted = FALSE /\ n <= copy.left /\ copy.left \in Int
    BY <1>4, <2>2, <2>3 DEF Short, LotRow
  <2>5. PICK db, row, debited, stales :
          /\ db = RowOf(p, l) /\ row = Debited(db, copy, n) /\ debited = Debited(copy, copy, n)
          /\ stales = IF copy = db THEN y.stale ELSE y.stale \cup {l}
    OBVIOUS
  <2>6. db \in LotRow /\ db.left \in Int
    BY <2>2, <2>5, RowType
  <2>7. /\ row \in LotRow /\ row.left = copy.left - n /\ row.left >= 0 /\ row.from = db.from
        /\ row.depleted = (db.depleted \/ copy.left - n <= 0)
    <3>1. PICK m, b : m = copy.left - n /\ b = (db.depleted \/ copy.left - n <= 0)
      OBVIOUS
    <3>2. m \in Int /\ m >= 0 /\ b \in BOOLEAN
      BY <2>2, <2>4, <3>1
    <3>3. RowIs(row, m, b, db.from) /\ db.from \in Piece \cup {NONE}
      BY <2>5, <2>6, <3>1, Zenon DEF Debited, RowIs, LotRow
    <3>4. row \in LotRow /\ row.left = m /\ row.depleted = b /\ row.from = db.from
      BY <3>2, <3>3, RowWritten, Zenon
    <3> QED BY <3>1, <3>2, <3>4, Zenon
  <2>8. debited \in LotRow
    <3>1. PICK m, b : m = copy.left - n /\ b = (copy.depleted \/ copy.left - n <= 0)
      OBVIOUS
    <3>2. m \in Int /\ b \in BOOLEAN
      BY <2>2, <2>4, <3>1
    <3>3. RowIs(debited, m, b, copy.from) /\ copy.from \in Piece \cup {NONE}
      BY <2>3, <2>5, <3>1, Zenon DEF Debited, RowIs, LotRow
    <3> QED BY <3>2, <3>3, RowWritten, Zenon
  <2>9. PICK x : x = [[y EXCEPT !.lots = Put(@, l, row), !.drawn = Add(@, l, n), !.seen.row = debited,
                                !.stale = stales] EXCEPT !.todo = r]
    OBVIOUS
  <2>10. IsSession(y) /\ Sound(p) /\ Holds(p) /\ Weighed(p) /\ Owing(p)
    BY <1>1 DEF LotsInv, Shaped, Sound
  <2>11. /\ IsSession(x) /\ x.op = y.op /\ x.stale = stales /\ x.lots = Put(y.lots, l, row)
         /\ x.drawn = Add(y.drawn, l, n) /\ x.bal = y.bal /\ x.adjusted = y.adjusted /\ x.fate = y.fate
         /\ x.due = y.due /\ x.paid = y.paid /\ x.seen = [y.seen EXCEPT !.row = debited] /\ x.todo = r
    BY <2>9, <2>10 DEF IsSession
  <2>12. lotLock' = [lotLock EXCEPT ![l] = p] /\ UNCHANGED tables /\ UNCHANGED <<balLock, pieceLock, auditLock>>
         /\ tx' = [tx EXCEPT ![p] = x]
    BY <1>1, <1>4, <2>5, <2>9 DEF Draw, Go
  <2>13. x.seen \in Copy \cup {NONE}
    BY <2>3, <2>8, <2>11 DEF Copy
  <2>14. /\ \A k \in DOMAIN y.drawn : y.drawn[k] \in Nat
         /\ \A k \in DOMAIN y.adjusted : y.adjusted[k] \in Int
         /\ \A k : Pend(y.drawn, k) \in Nat /\ Pend(y.adjusted, k) \in Int
    <3>1. \A k \in DOMAIN y.drawn : y.drawn[k] \in Nat
      BY <1>1, <2>10 DEF Holds
    <3>2. \A k \in DOMAIN y.adjusted : y.adjusted[k] \in Int
      BY <1>1, <2>10 DEF Holds
    <3> QED BY <3>1, <3>2 DEF Pend
  <2>15. /\ DOMAIN x.drawn = DOMAIN y.drawn \cup {l} /\ Pend(x.drawn, l) = n + Pend(y.drawn, l)
         /\ x.drawn[l] = n + Pend(y.drawn, l) /\ (\A k : k # l => Pend(x.drawn, k) = Pend(y.drawn, k))
         /\ \A k \in DOMAIN y.drawn : k # l => x.drawn[k] = y.drawn[k]
    BY <2>11 DEF Add, Put, Pend
  <2>16. \A k \in DOMAIN x.drawn : k \in DOMAIN y.drawn \cup {l} /\ x.drawn[k] \in Nat
    BY <2>2, <2>14, <2>15
  <2>17. ASSUME l \notin stale, l \notin x.stale PROVE Agrees(row, l, x)
    <3>1. copy = db /\ l \notin y.stale
      BY <2>5, <2>11, <2>17
    <3>2. /\ db.left = Weight + adjusted[l] + Pend(y.adjusted, l) - drawn[l] - Pend(y.drawn, l)
          /\ db.depleted <=> db.left = 0
      BY <1>1, <2>2, <2>5, <2>17, <3>1, BooksOfRow
    <3>3. Weight \in Int /\ adjusted[l] \in Int /\ drawn[l] \in Int
      BY <2>2, BoundAssumption DEF LotsInv, TypeOK
    <3>4. PICK a, b, c, e : a = adjusted[l] /\ b = Pend(y.adjusted, l) /\ c = drawn[l] /\ e = Pend(y.drawn, l)
      OBVIOUS
    <3>5. row.left = Weight + a + b - c - (n + e)
      <4>1. db.left = Weight + a + b - c - e /\ row.left = db.left - n
        BY <2>7, <3>1, <3>2, <3>4
      <4>2. Weight \in Int /\ a \in Int /\ b \in Int /\ c \in Int /\ e \in Int /\ n \in Int
        BY <2>2, <2>14, <3>3, <3>4
      <4> QED BY <4>1, <4>2
    <3>6. row.depleted <=> row.left = 0
      <4>1. db.depleted = FALSE
        BY <2>4, <3>1
      <4>2. row.depleted <=> row.left <= 0
        BY <2>7, <4>1
      <4>3. row.left \in Int
        BY <2>2, <2>4, <2>7
      <4> QED BY <2>7, <4>2, <4>3
    <3> QED BY <2>11, <2>15, <3>4, <3>5, <3>6 DEF Agrees
  <2>18. SumFunctionOnSet(Pending(x.drawn), Lot) + ToDraw(x.todo) = Pend(x.paid, "GOLD")
    <3>1. /\ SumFunctionOnSet(Pending(x.drawn), Lot) = SumFunctionOnSet(Pending(y.drawn), Lot) + n
          /\ SumFunctionOnSet(Pending(y.drawn), Lot) \in Int
      BY <2>2, <2>11, <2>14, SumDrawn
    <3>2. GramOf(Head(s)) = n
      BY <1>1, <1>2, <2>1 DEF GramOf
    <3>3. ToDraw(r) = ToDraw(s) - n /\ ToDraw(s) \in Int
      BY <2>1, <3>2 DEF Follows
    <3>4. SumFunctionOnSet(Pending(y.drawn), Lot) + ToDraw(s) = Pend(y.paid, "GOLD")
      BY <1>1, <2>10 DEF Weighed
    <3> QED BY <2>2, <2>11, <3>1, <3>3, <3>4
  <2>19. /\ x.op = tx[p].op /\ x.op # "melt" /\ x.bal = tx[p].bal /\ x.fate = tx[p].fate /\ x.due = tx[p].due
         /\ x.paid = tx[p].paid /\ Follows(tx[p].todo, x.todo) /\ tx[p].todo # <<>>
         /\ x.lots = Put(tx[p].lots, l, row) /\ row.from = RowOf(p, l).from
    BY <1>1, <1>2, <2>1, <2>5, <2>7, <2>11
  <2>20. \A u : ~About(Next1(p), u)
    BY <1>2 DEF About
  <2>21. /\ \A k \in DOMAIN x.drawn : k \in DOMAIN tx[p].drawn \cup {l} /\ x.drawn[k] \in Nat
         /\ \A k \in DOMAIN x.adjusted : k \in DOMAIN tx[p].adjusted \cup {l} /\ x.adjusted[k] \in Int
         /\ \A k \in Lot : k # l => Pend(x.drawn, k) = Pend(tx[p].drawn, k)
                                    /\ Pend(x.adjusted, k) = Pend(tx[p].adjusted, k)
         /\ tx[p].stale \subseteq x.stale /\ x.stale \subseteq tx[p].stale \cup {l}
    BY <1>1, <2>5, <2>11, <2>14, <2>15, <2>16
  <2>22. WritesLot(p, l, row, x)
    BY <1>2, <2>7, <2>11, <2>12, <2>13, <2>17, <2>18, <2>19, <2>20, <2>21 DEF WritesLot
  <2> QED BY <2>2, <2>22, LotWritten
<1> QED BY <1>3, <1>4

\* A lot is corrected.
LEMMA AdjustLots == ASSUME LotsInv, NEW p \in Proc, Adjust(p) PROVE LotsInv'
<1>1. PICK y, s, r, l, d, db : /\ y = tx[p] /\ s = y.todo /\ r = Recorded(p)
        /\ l = Next1(p).on /\ d = Next1(p).by /\ db = RowOf(p, l)
  OBVIOUS
<1>2. s # <<>> /\ Next1(p).do = "adjust" /\ Free(lotLock[l], p)
  BY <1>1 DEF Adjust, At
<1>3. CASE db.left + d < 0
  BY <1>1, <1>3, RefuseLots DEF Adjust
<1>4. CASE ~(db.left + d < 0)
  <2>1. /\ s \in Seq(Steps) /\ Next1(p) = Head(s) /\ Next1(p) \in Steps
        /\ StepOK(Next1(p)) /\ Follows(s, r) /\ y.op # "melt"
    BY <1>1, <1>2, AtHead
  <2>2. l \in Lot /\ Exists(l) /\ d \in Int
    <3>1. Next1(p).by \in Int
      BY <2>1 DEF Steps
    <3> QED BY <1>1, <1>2, <2>1, <3>1 DEF StepOK
  <2>3. db \in LotRow /\ db.left \in Int
    BY <1>1, <2>2, RowType
  <2>4. PICK row : row = Corrected(db, d)
    OBVIOUS
  <2>5. /\ row \in LotRow /\ row.left = db.left + d /\ row.left >= 0 /\ row.from = db.from
        /\ row.depleted = (db.left + d <= 0)
    <3>1. PICK m, b : m = db.left + d /\ b = (db.left + d <= 0)
      OBVIOUS
    <3>2. m \in Int /\ m >= 0 /\ b \in BOOLEAN
      BY <1>4, <2>2, <2>3, <3>1
    <3>3. RowIs(row, m, b, db.from) /\ db.from \in Piece \cup {NONE}
      BY <2>3, <2>4, <3>1, Zenon DEF Corrected, RowIs, LotRow
    <3>4. row \in LotRow /\ row.left = m /\ row.depleted = b /\ row.from = db.from
      BY <3>2, <3>3, RowWritten, Zenon
    <3> QED BY <3>1, <3>2, <3>4, Zenon
  <2>9. PICK x : x = [[y EXCEPT !.lots = Put(@, l, row), !.adjusted = Add(@, l, d)] EXCEPT !.todo = r]
    OBVIOUS
  <2>10. IsSession(y) /\ Sound(p) /\ Holds(p) /\ Weighed(p)
    BY <1>1 DEF LotsInv, Shaped, Sound
  <2>11. /\ IsSession(x) /\ x.op = y.op /\ x.stale = y.stale /\ x.lots = Put(y.lots, l, row)
         /\ x.drawn = y.drawn /\ x.bal = y.bal /\ x.adjusted = Add(y.adjusted, l, d) /\ x.fate = y.fate
         /\ x.due = y.due /\ x.paid = y.paid /\ x.seen = y.seen /\ x.todo = r
    BY <2>9, <2>10 DEF IsSession
  <2>12. lotLock' = [lotLock EXCEPT ![l] = p] /\ UNCHANGED tables /\ UNCHANGED <<balLock, pieceLock, auditLock>>
         /\ tx' = [tx EXCEPT ![p] = x]
    BY <1>1, <1>4, <2>4, <2>9 DEF Adjust, Go
  <2>13. x.seen \in Copy \cup {NONE}
    BY <1>1, <2>10, <2>11 DEF Holds
  <2>14. /\ \A k \in DOMAIN y.drawn : y.drawn[k] \in Nat
         /\ \A k \in DOMAIN y.adjusted : y.adjusted[k] \in Int
         /\ \A k : Pend(y.drawn, k) \in Nat /\ Pend(y.adjusted, k) \in Int
    <3>1. \A k \in DOMAIN y.drawn : y.drawn[k] \in Nat
      BY <1>1, <2>10 DEF Holds
    <3>2. \A k \in DOMAIN y.adjusted : y.adjusted[k] \in Int
      BY <1>1, <2>10 DEF Holds
    <3> QED BY <3>1, <3>2 DEF Pend
  <2>15. /\ DOMAIN x.adjusted = DOMAIN y.adjusted \cup {l} /\ Pend(x.adjusted, l) = d + Pend(y.adjusted, l)
         /\ x.adjusted[l] = d + Pend(y.adjusted, l) /\ (\A k : k # l => Pend(x.adjusted, k) = Pend(y.adjusted, k))
         /\ \A k \in DOMAIN y.adjusted : k # l => x.adjusted[k] = y.adjusted[k]
    BY <2>11 DEF Add, Put, Pend
  <2>16. \A k \in DOMAIN x.adjusted : k \in DOMAIN y.adjusted \cup {l} /\ x.adjusted[k] \in Int
    BY <2>2, <2>14, <2>15
  <2>17. ASSUME l \notin stale, l \notin x.stale PROVE Agrees(row, l, x)
    <3>2. db.left = Weight + adjusted[l] + Pend(y.adjusted, l) - drawn[l] - Pend(y.drawn, l)
      BY <1>1, <2>2, <2>11, <2>17, BooksOfRow
    <3>3. Weight \in Int /\ adjusted[l] \in Int /\ drawn[l] \in Int
      BY <2>2, BoundAssumption DEF LotsInv, TypeOK
    <3>4. PICK a, b, c, e : a = adjusted[l] /\ b = Pend(y.adjusted, l) /\ c = drawn[l] /\ e = Pend(y.drawn, l)
      OBVIOUS
    <3>5. row.left = Weight + a + (d + b) - c - e
      <4>1. db.left = Weight + a + b - c - e /\ row.left = db.left + d
        BY <2>5, <3>2, <3>4
      <4>2. Weight \in Int /\ a \in Int /\ b \in Int /\ c \in Int /\ e \in Int /\ d \in Int
        BY <2>2, <2>14, <3>3, <3>4
      <4> QED BY <4>1, <4>2
    <3>6. row.depleted <=> row.left = 0
      <4>1. row.depleted <=> row.left <= 0
        BY <2>5
      <4>2. row.left \in Int
        BY <2>2, <2>3, <2>5
      <4> QED BY <2>5, <4>1, <4>2
    <3> QED BY <2>11, <2>15, <3>4, <3>5, <3>6 DEF Agrees
  <2>18. SumFunctionOnSet(Pending(x.drawn), Lot) + ToDraw(x.todo) = Pend(x.paid, "GOLD")
    <3>1. ToDraw(r) = ToDraw(s)
      BY <1>2, <2>1 DEF Follows, GramOf
    <3> QED BY <1>1, <2>10, <2>11, <3>1 DEF Weighed
  <2>19. /\ x.op = tx[p].op /\ x.op # "melt" /\ x.bal = tx[p].bal /\ x.fate = tx[p].fate /\ x.due = tx[p].due
         /\ x.paid = tx[p].paid /\ Follows(tx[p].todo, x.todo) /\ tx[p].todo # <<>>
         /\ x.lots = Put(tx[p].lots, l, row) /\ row.from = RowOf(p, l).from
    BY <1>1, <1>2, <2>1, <2>5, <2>11
  <2>20. \A u : ~About(Next1(p), u)
    BY <1>2 DEF About
  <2>21. /\ \A k \in DOMAIN x.drawn : k \in DOMAIN tx[p].drawn \cup {l} /\ x.drawn[k] \in Nat
         /\ \A k \in DOMAIN x.adjusted : k \in DOMAIN tx[p].adjusted \cup {l} /\ x.adjusted[k] \in Int
         /\ \A k \in Lot : k # l => Pend(x.drawn, k) = Pend(tx[p].drawn, k)
                                    /\ Pend(x.adjusted, k) = Pend(tx[p].adjusted, k)
         /\ tx[p].stale \subseteq x.stale /\ x.stale \subseteq tx[p].stale \cup {l}
    BY <1>1, <2>11, <2>14, <2>15, <2>16
  <2>22. WritesLot(p, l, row, x)
    BY <1>2, <2>5, <2>11, <2>12, <2>13, <2>17, <2>18, <2>19, <2>20, <2>21 DEF WritesLot
  <2> QED BY <2>2, <2>22, LotWritten
<1> QED BY <1>3, <1>4

-----------------------------------------------------------------------------
(* Balances. *)

\* p moves the balance of u to b, under its lock, and goes on with x.
WritesBalance(p, u, b, x) ==
  /\ UNCHANGED tables /\ UNCHANGED <<lotLock, pieceLock, auditLock>>
  /\ Free(balLock[u], p) /\ balLock' = [balLock EXCEPT ![u] = p]
  /\ IsSession(x) /\ tx' = [tx EXCEPT ![p] = x]
  /\ tx[p].todo # <<>> /\ Next1(p).do \in {"balance", "insert"} /\ Next1(p).on = u
  /\ Follows(tx[p].todo, x.todo) /\ x.bal = Put(tx[p].bal, u, b)
  /\ x.op = tx[p].op /\ x.stale = tx[p].stale /\ x.lots = tx[p].lots /\ x.drawn = tx[p].drawn
  /\ x.adjusted = tx[p].adjusted /\ x.fate = tx[p].fate /\ x.due = tx[p].due
  /\ x.paid = tx[p].paid /\ x.seen = tx[p].seen
  /\ b \in Nat /\ b = Debt(balance[u]) + Next1(p).by

\* A balance moved under its lock has moved by what the request makes due less what it pays.
LEMMA BalanceWritten ==
  ASSUME LotsInv, NEW p \in Proc, NEW u \in Unit, NEW b, NEW x, WritesBalance(p, u, b, x)
  PROVE  LotsInv'
<1> USE DEF WritesBalance
<1>1. PICK y, s, r, n : y = tx[p] /\ s = y.todo /\ r = x.todo /\ n = Next1(p).by
  OBVIOUS
<1>2. tx'[p] = x /\ TypeOK /\ Sound(p) /\ Holds(p) /\ Fated(p) /\ Owing(p) /\ Booked(p) /\ Weighed(p)
  BY Given DEF LotsInv, Sound
<1>3. /\ lots' = lots /\ drawn' = drawn /\ adjusted' = adjusted /\ balance' = balance /\ due' = due
      /\ paid' = paid /\ fate' = fate /\ stale' = stale /\ \A k : Exists(k)' <=> Exists(k)
  BY TablesKept DEF Exists
<1>4. LocksKept(p) /\ balLock'[u] = p /\ \A v \in Unit : balLock[v] = p => balLock'[v] = p
  BY <1>2 DEF TypeOK, LocksKept, Free
<1>5. DOMAIN x.bal = DOMAIN y.bal \cup {u} /\ x.bal[u] = b /\ \A v \in DOMAIN y.bal : v # u => x.bal[v] = y.bal[v]
  BY <1>1 DEF Put
<1>6. /\ s \in Seq(Steps) /\ s # <<>> /\ Follows(s, r) /\ Planned(s, y.seen) /\ Next1(p) = Head(s) /\ y.op # "melt"
      /\ Head(s).by = n /\ n \in Int
  <2>1. s \in Seq(Steps) /\ s # <<>> /\ Follows(s, r) /\ Planned(s, y.seen) /\ Next1(p) = Head(s) /\ Next1(p) \in Steps
    BY <1>1, AtHead
  <2>2. Next1(p).do \notin {"decide", "create"}
    OBVIOUS
  <2>3. y.op # "melt"
    BY <1>1, <2>2, AtHead
  <2>4. Next1(p).by \in Int
    BY <2>1 DEF Steps
  <2> QED BY <1>1, <2>1, <2>3, <2>4
<1>7. About(Head(s), u) /\ (\A v : v # u => ~About(Head(s), v)) /\ GramOf(Head(s)) = 0
  BY <1>6 DEF About, GramOf
<1>8. Holds(p)'
  <2>1. Planned(r, x.seen)
    BY <1>6, PlannedOn
  <2>2. Planned(tx[p].todo, tx[p].seen)'
    <3>1. Planned(x.todo, x.seen)'
      BY <1>1, <1>3, <2>1 DEF Planned, StepOK
    <3> QED BY <1>2, <3>1
  <2> QED BY <1>2, <1>3, <2>2 DEF Holds
<1>9. Booked(p)'
  BY <1>2, <1>3 DEF Booked
<1>10. Fated(p)'
  <2>1. \A k \in DOMAIN r : r[k].do = "create" => r[k].on = NONE
    <3>1. \A j \in DOMAIN s : s[j].do = "create" => s[j].on = NONE
      BY <1>1, <1>2, <1>6 DEF Fated
    <3> QED BY <1>6, <3>1 DEF Follows, Telling
  <2> QED BY <1>1, <1>2, <1>3, <1>6, <2>1 DEF Fated
<1>11. Owing(p)'
  <2>1. u \notin DOMAIN y.bal
    <3>1. Unmentioned(s, u) => ~About(Head(s), u)
      BY <1>6, MovesTail
    <3> QED BY <1>1, <1>2, <1>7, <3>1 DEF Owing
  <2>2. n = Pend(y.due, u) - Pend(y.paid, u) /\ Unmentioned(r, u)
    <3>1. Moves(s, u, Pend(y.due, u) - Pend(y.paid, u))
      BY <1>1, <1>2, <2>1 DEF Owing
    <3> QED BY <1>6, <1>7, <3>1 DEF Follows
  <2>3. Pend(y.due, u) \in Nat /\ Pend(y.paid, u) \in Nat
    BY <1>1, <1>2 DEF Owing
  <2>4. b = Debt(balance[u]) + Pend(y.due, u) - Pend(y.paid, u)
    <3>1. Debt(balance[u]) \in Int
      BY <1>2, NoneAssumption DEF TypeOK, Debt
    <3> QED BY <1>1, <2>2, <2>3, <3>1
  <2>5. ASSUME NEW v \in Unit, v # u
        PROVE  (Unmentioned(s, v) => Unmentioned(r, v)) /\ \A d : Moves(s, v, d) => Moves(r, v, d)
    BY <1>6, <1>7, <2>5 DEF Follows
  <2>6. ASSUME NEW v \in Unit
        PROVE  /\ Pend(x.due, v) \in Nat /\ Pend(x.paid, v) \in Nat
               /\ v \in DOMAIN x.bal =>
                    /\ balLock'[v] = p /\ Unmentioned(r, v) /\ x.bal[v] \in Nat
                    /\ x.bal[v] = Debt(balance[v]) + Pend(x.due, v) - Pend(x.paid, v)
               /\ v \notin DOMAIN x.bal => Moves(r, v, Pend(x.due, v) - Pend(x.paid, v))
    <3>1. CASE v = u
      BY <1>1, <1>4, <1>5, <2>2, <2>3, <2>4, <3>1
    <3>2. CASE v # u
      <4>1. Owing(p) /\ x.due = y.due /\ x.paid = y.paid
        BY <1>1, <1>2
      <4>2. v \in DOMAIN x.bal => v \in DOMAIN y.bal /\ x.bal[v] = y.bal[v]
        BY <1>5, <3>2
      <4>3. v \notin DOMAIN x.bal => v \notin DOMAIN y.bal
        BY <1>5
      <4> QED BY <1>1, <1>4, <2>5, <3>2, <4>1, <4>2, <4>3 DEF Owing
    <3> QED BY <3>1, <3>2
  <2>7. DOMAIN x.bal \subseteq Unit
    BY <1>1, <1>2, <1>5 DEF Owing
  <2> QED BY <1>1, <1>2, <1>3, <2>6, <2>7 DEF Owing
<1>12. Weighed(p)'
  <2>1. ToDraw(r) = ToDraw(s)
    BY <1>6, <1>7 DEF Follows
  <2> QED BY <1>1, <1>2, <2>1 DEF Weighed
<1>13. Sound(p)'
  BY <1>8, <1>9, <1>10, <1>11, <1>12 DEF Sound
<1>14. \A k \in DOMAIN x.lots : \A q \in Proc : q # p => k \notin DOMAIN tx[q].lots
  BY DEF LotsInv, OwnLots
<1> QED BY <1>4, <1>13, <1>14, QuietLots

\* p moves the balance of u to b and has r left to do.
LEMMA BalanceMoved ==
  ASSUME LotsInv, NEW p \in Proc, tx[p].todo # <<>>, Next1(p).do \in {"balance", "insert"},
         NEW u \in Unit, u = Next1(p).on, Free(balLock[u], p), balLock' = [balLock EXCEPT ![u] = p],
         UNCHANGED <<lotLock, pieceLock, auditLock>>, NEW r \in {Rest(p), Recorded(p)},
         NEW b \in Nat, b = Debt(balance[u]) + Next1(p).by,
         Go(p, [tx[p] EXCEPT !.bal = Put(@, u, b)], r)
  PROVE  LotsInv'
<1>1. PICK y : y = tx[p]
  OBVIOUS
<1>2. PICK x : x = [[y EXCEPT !.bal = Put(@, u, b)] EXCEPT !.todo = r]
  OBVIOUS
<1>3. IsSession(y)
  BY <1>1 DEF LotsInv, Shaped
<1>4. /\ IsSession(x) /\ x.op = y.op /\ x.stale = y.stale /\ x.lots = y.lots
      /\ x.drawn = y.drawn /\ x.bal = Put(y.bal, u, b) /\ x.adjusted = y.adjusted /\ x.fate = y.fate
      /\ x.due = y.due /\ x.paid = y.paid /\ x.seen = y.seen /\ x.todo = r
  BY <1>2, <1>3 DEF IsSession
<1>5. tx' = [tx EXCEPT ![p] = x] /\ UNCHANGED tables
  BY <1>1, <1>2 DEF Go
<1>6. Follows(tx[p].todo, x.todo)
  BY <1>4, AtHead
<1>7. WritesBalance(p, u, b, x)
  BY <1>1, <1>4, <1>5, <1>6 DEF WritesBalance
<1> QED BY <1>7, BalanceWritten

\* adjust_balance on a row, and the insertion of the first one.
LEMMA BalanceLots == ASSUME LotsInv, NEW p \in Proc, Balance(p) PROVE LotsInv'
<1>1. PICK u, n : u = Next1(p).on /\ n = Next1(p).by
  OBVIOUS
<1>2. At(p, "balance") /\ tx[p].todo # <<>> /\ Next1(p).do = "balance"
  BY DEF Balance, At
<1>3. u \in Unit /\ n \in Int
  <2>1. StepOK(Next1(p)) /\ Next1(p) \in Steps
    BY <1>2, AtHead
  <2>2. Next1(p).by \in Int
    BY <2>1 DEF Steps
  <2> QED BY <1>1, <1>2, <2>1, <2>2 DEF StepOK
<1>4. CASE balance[u] = NONE
  <2>1. CASE n < 0
    BY <1>1, <1>4, <2>1, RefuseLots DEF Balance
  <2>2. CASE ~(n < 0)
    BY <1>1, <1>2, <1>4, <2>2, InsertAheadLots DEF Balance
  <2> QED BY <2>1, <2>2
<1>5. CASE balance[u] # NONE
  <2>1. PICK b : b = balance[u] + n
    OBVIOUS
  <2>2. balance[u] \in Nat
    BY <1>3, <1>5 DEF LotsInv, TypeOK
  <2>3. CASE Overpaid(b)
    BY <1>1, <1>5, <2>1, <2>3, RefuseLots DEF Balance
  <2>4. CASE ~Overpaid(b)
    <3>1. b \in Nat /\ b = Debt(balance[u]) + n
      BY <1>3, <1>5, <2>1, <2>2, <2>4 DEF Overpaid, Debt
    <3>2. PICK r : r = IF InGold(p) THEN Rest(p) ELSE Recorded(p)
      OBVIOUS
    <3>3. /\ Free(balLock[u], p) /\ balLock' = [balLock EXCEPT ![u] = p] /\ UNCHANGED <<lotLock, pieceLock, auditLock>>
          /\ Go(p, [tx[p] EXCEPT !.bal = Put(@, u, b)], r)
      BY <1>1, <1>5, <2>1, <2>4, <3>2 DEF Balance
    <3>4. r \in {Rest(p), Recorded(p)}
      BY <3>2
    <3> QED BY <1>1, <1>2, <1>3, <3>1, <3>3, <3>4, BalanceMoved
  <2> QED BY <2>3, <2>4
<1> QED BY <1>4, <1>5

\* The first row of a balance, inserted under its primary key.
LEMMA InsertLots == ASSUME LotsInv, NEW p \in Proc, Insert(p) PROVE LotsInv'
<1>1. PICK u, n : u = Next1(p).on /\ n = Next1(p).by
  OBVIOUS
<1>2. tx[p].todo # <<>> /\ Next1(p).do = "insert"
  BY DEF Insert, At
<1>3. u \in Unit /\ n \in Nat
  BY <1>1, <1>2, AtHead DEF StepOK
<1>4. CASE Taken(u)
  BY <1>1, <1>4, RefuseLots DEF Insert
<1>5. CASE ~Taken(u)
  <2>1. /\ Free(balLock[u], p) /\ balLock' = [balLock EXCEPT ![u] = p] /\ UNCHANGED <<lotLock, pieceLock, auditLock>>
        /\ Go(p, [tx[p] EXCEPT !.bal = Put(@, u, n)], Recorded(p))
    BY <1>1, <1>5 DEF Insert
  <2>2. n = Debt(balance[u]) + n
    BY <1>3, <1>5 DEF Taken, Debt
  <2>3. Recorded(p) \in {Rest(p), Recorded(p)}
    OBVIOUS
  <2> QED BY <1>1, <1>2, <1>3, <2>1, <2>2, <2>3, BalanceMoved
<1> QED BY <1>4, <1>5

-----------------------------------------------------------------------------
(* New lots, and what becomes of a piece. *)

\* A new lot has its whole weight, and is made of the piece its melt decided on.
LEMMA CreateLots == ASSUME LotsInv, NEW p \in Proc, Create(p) PROVE LotsInv'
<1>1. PICK l \in Lot :
        /\ At(p, "create") /\ ~Exists(l) /\ \A q \in Proc : l \notin DOMAIN tx[q].lots
        /\ Record(p, [tx[p] EXCEPT !.lots = Put(@, l, NewLot(Next1(p).on))])
  BY DEF Create
<1>2. PICK y, s, r, from, row : /\ y = tx[p] /\ s = y.todo /\ r = Rest(p) /\ from = Next1(p).on
                                /\ row = NewLot(from)
  OBVIOUS
<1>3. s # <<>> /\ Next1(p).do = "create"
  BY <1>1, <1>2 DEF At
<1>4. /\ s \in Seq(Steps) /\ Follows(s, r) /\ Planned(s, y.seen) /\ Next1(p) = Head(s) /\ Next1(p) = s[1]
      /\ StepOK(Next1(p)) /\ 1 \in DOMAIN s /\ Len(s) \in Nat /\ Len(s) >= 1 /\ Len(r) = Len(s) - 1
  BY <1>2, <1>3, AtHead
<1>5. from \in Piece \cup {NONE}
  BY <1>2, <1>3, <1>4 DEF StepOK
<1>6. row \in LotRow /\ row.left = Weight /\ row.depleted = FALSE /\ row.from = from /\ Weight \in Nat \ {0}
  <2>1. Weight \in Nat \ {0} /\ Weight \in Int
    BY BoundAssumption
  <2>2. RowIs(row, Weight, FALSE, from)
    BY <1>2, Zenon DEF NewLot, RowIs
  <2>3. FALSE \in BOOLEAN
    OBVIOUS
  <2> QED BY <1>5, <2>1, <2>2, <2>3, RowWritten
<1>7. IsSession(y) /\ TypeOK /\ Sound(p) /\ Holds(p) /\ Fated(p) /\ Owing(p) /\ Booked(p) /\ Weighed(p) /\ Unborn
  BY <1>2 DEF LotsInv, Sound, Shaped
<1>8. PICK x : x = [[y EXCEPT !.lots = Put(@, l, row)] EXCEPT !.todo = r]
  OBVIOUS
<1>9. /\ IsSession(x) /\ x.op = y.op /\ x.stale = y.stale /\ x.lots = Put(y.lots, l, row)
      /\ x.drawn = y.drawn /\ x.bal = y.bal /\ x.adjusted = y.adjusted /\ x.fate = y.fate
      /\ x.due = y.due /\ x.paid = y.paid /\ x.seen = y.seen /\ x.todo = r
  BY <1>7, <1>8 DEF IsSession
<1>10. /\ auditLock' = p /\ UNCHANGED tables /\ UNCHANGED <<lotLock, balLock, pieceLock>>
       /\ tx' = [tx EXCEPT ![p] = x]
  BY <1>1, <1>2, <1>8 DEF Record, Go
<1>11. tx'[p] = x
  BY <1>9, <1>10, Given DEF LotsInv
<1>12. /\ lots' = lots /\ drawn' = drawn /\ adjusted' = adjusted /\ balance' = balance /\ due' = due
       /\ paid' = paid /\ fate' = fate /\ stale' = stale /\ \A k : Exists(k)' <=> Exists(k)
  BY <1>10, TablesKept DEF Exists
<1>13. LocksKept(p)
  BY <1>7, <1>10 DEF TypeOK, LocksKept
<1>14. DOMAIN x.lots = DOMAIN y.lots \cup {l} /\ x.lots[l] = row /\ \A k \in DOMAIN y.lots : k # l => x.lots[k] = y.lots[k]
  BY <1>9 DEF Put
<1>15. GramOf(Head(s)) = 0 /\ \A u : ~About(Head(s), u)
  BY <1>3, <1>4 DEF GramOf, About
<1>16. Holds(p)'
  <2>1. Planned(r, x.seen)
    BY <1>4, PlannedOn
  <2>2. Planned(tx[p].todo, tx[p].seen)'
    <3>1. Planned(x.todo, x.seen)'
      BY <1>9, <1>12, <2>1 DEF Planned, StepOK
    <3> QED BY <1>11, <3>1
  <2>3. ASSUME NEW k \in DOMAIN x.lots
        PROVE  k \in Lot /\ x.lots[k] \in LotRow /\ x.lots[k].left >= 0 /\ (Exists(k) => lotLock[k] = p)
    <3>1. CASE k = l
      BY <1>1, <1>6, <1>14, <3>1
    <3>2. CASE k # l
      BY <1>2, <1>7, <1>14, <2>3, <3>2 DEF Holds
    <3> QED BY <3>1, <3>2
  <2> QED BY <1>2, <1>7, <1>9, <1>10, <1>11, <1>12, <1>14, <2>2, <2>3 DEF Holds
<1>17. Booked(p)'
  <2>1. ASSUME NEW k \in DOMAIN x.lots, k \notin stale, k \notin x.stale
        PROVE  /\ x.lots[k].left = Weight + adjusted[k] + Pend(x.adjusted, k) - drawn[k] - Pend(x.drawn, k)
               /\ x.lots[k].depleted <=> x.lots[k].left = 0
    <3>1. CASE k = l
      <4>1. drawn[l] = 0 /\ adjusted[l] = 0
        BY <1>1, <1>7 DEF Unborn
      <4>2. Pend(x.adjusted, l) = 0 /\ Pend(x.drawn, l) = 0
        BY <1>1, <1>2, <1>7, <1>9 DEF Holds, Pend
      <4>3. x.lots[k].left = Weight + adjusted[k] + Pend(x.adjusted, k) - drawn[k] - Pend(x.drawn, k)
        BY <1>6, <1>14, <3>1, <4>1, <4>2
      <4>4. x.lots[k].depleted = FALSE /\ x.lots[k].left # 0
        BY <1>6, <1>14, <3>1
      <4> QED BY <4>3, <4>4
    <3>2. CASE k # l
      BY <1>2, <1>7, <1>9, <1>14, <2>1, <3>2 DEF Booked
    <3> QED BY <3>1, <3>2
  <2> QED BY <1>11, <1>12, <2>1 DEF Booked
<1>18. Fated(p)'
  <2>1. \A z \in DOMAIN x.fate :
          /\ z \in Piece /\ pieceLock'[z] = p /\ fate'[z] = "bought"
          /\ x.fate[z] = IF x.op = "melt" THEN "melted" ELSE "polished"
    BY <1>2, <1>7, <1>9, <1>10, <1>12 DEF Fated
  <2>2. CASE y.op = "melt"
    <3>1. Melting(p)
      BY <1>2, <1>7, <2>2 DEF Fated
    <3>2. PICK z \in Piece :
            Len(s) = 1 /\ s[1].on = z /\ DOMAIN y.lots = {} /\ DOMAIN y.fate = {z}
      BY <1>2, <1>3, <1>4, <3>1 DEF Melting
    <3>3. Len(r) = 0 /\ from = z
      BY <1>2, <1>4, <3>2
    <3>4. ~Exists(l)' /\ DOMAIN x.lots = {l} /\ x.lots[l].from = z
      BY <1>1, <1>6, <1>12, <1>14, <3>2, <3>3
    <3>5. Melting(p)'
      BY <1>9, <1>11, <3>2, <3>3, <3>4 DEF Melting
    <3> QED BY <1>9, <1>11, <2>1, <2>2, <3>5 DEF Fated
  <2>3. CASE y.op # "melt"
    <3>1. \A j \in DOMAIN s : s[j].do = "create" => s[j].on = NONE
      BY <1>2, <1>7, <2>3 DEF Fated
    <3>2. \A k \in DOMAIN r : r[k].do = "create" => r[k].on = NONE
      BY <1>4, <3>1 DEF Follows, Telling
    <3>3. from = NONE
      BY <1>2, <1>3, <1>4, <3>1
    <3>4. \A k \in DOMAIN y.lots : y.lots[k].from = IF Exists(k) THEN lots[k].from ELSE NONE
      BY <1>2, <1>7, <2>3 DEF Fated
    <3>5. \A k \in DOMAIN x.lots : x.lots[k].from = IF Exists(k) THEN lots[k].from ELSE NONE
      BY <1>1, <1>6, <1>14, <3>3, <3>4
    <3> QED BY <1>9, <1>11, <1>12, <2>1, <2>3, <3>2, <3>5 DEF Fated
  <2> QED BY <2>2, <2>3
<1>19. Owing(p)'
  <2>1. \A u, d : (Unmentioned(s, u) => Unmentioned(r, u)) /\ (Moves(s, u, d) => Moves(r, u, d))
    BY <1>4, <1>15 DEF Follows
  <2> QED BY <1>2, <1>7, <1>9, <1>10, <1>11, <1>12, <2>1 DEF Owing
<1>20. Weighed(p)'
  <2>1. ToDraw(r) = ToDraw(s)
    BY <1>4, <1>15 DEF Follows
  <2> QED BY <1>2, <1>7, <1>9, <1>11, <2>1 DEF Weighed
<1>21. Sound(p)'
  BY <1>16, <1>17, <1>18, <1>19, <1>20 DEF Sound
<1>22. \A k \in DOMAIN x.lots : \A q \in Proc : q # p => k \notin DOMAIN tx[q].lots
  BY <1>1, <1>2, <1>14 DEF LotsInv, OwnLots
<1> QED BY <1>9, <1>10, <1>13, <1>21, <1>22, QuietLots

\* A piece is decided on under its lock, when nothing has become of it.
LEMMA DecideLots == ASSUME LotsInv, NEW p \in Proc, Decide(p) PROVE LotsInv'
<1>1. PICK y, s, z : y = tx[p] /\ s = y.todo /\ z = Next1(p).on
  OBVIOUS
<1>2. s # <<>> /\ Next1(p).do = "decide" /\ Free(pieceLock[z], p)
  BY <1>1 DEF Decide, At
<1>3. CASE ~Undecided(z)
  BY <1>1, <1>3, RefuseLots DEF Decide
<1>4. CASE Undecided(z)
  <2>1. /\ s \in Seq(Steps) /\ Planned(s, y.seen) /\ Next1(p) = Head(s) /\ Next1(p) = s[1]
        /\ StepOK(Next1(p)) /\ 1 \in DOMAIN s /\ Len(s) \in Nat /\ Len(s) >= 1 /\ Len(Rest(p)) = Len(s) - 1
        /\ Follows(s, Rest(p)) /\ Follows(s, Recorded(p))
        /\ \A k \in 1..(Len(s) - 1) : Rest(p)[k] = s[k + 1]
    BY <1>1, <1>2, AtHead
  <2>2. z \in Piece /\ fate[z] = "bought"
    BY <1>1, <1>2, <1>4, <2>1 DEF StepOK, Undecided
  <2>3. PICK r, what : /\ r = IF y.op = "melt" THEN Rest(p) ELSE Recorded(p)
                       /\ what = IF y.op = "melt" THEN "melted" ELSE "polished"
    OBVIOUS
  <2>4. PICK x : x = [[y EXCEPT !.fate = Put(@, z, what)] EXCEPT !.todo = r]
    OBVIOUS
  <2>5. IsSession(y) /\ TypeOK /\ Sound(p) /\ Holds(p) /\ Fated(p) /\ Owing(p) /\ Booked(p) /\ Weighed(p)
    BY <1>1 DEF LotsInv, Sound, Shaped
  <2>6. /\ IsSession(x) /\ x.op = y.op /\ x.stale = y.stale /\ x.lots = y.lots
        /\ x.drawn = y.drawn /\ x.bal = y.bal /\ x.adjusted = y.adjusted /\ x.fate = Put(y.fate, z, what)
        /\ x.due = y.due /\ x.paid = y.paid /\ x.seen = y.seen /\ x.todo = r
    BY <2>4, <2>5 DEF IsSession
  <2>7. /\ pieceLock' = [pieceLock EXCEPT ![z] = p] /\ UNCHANGED tables
        /\ UNCHANGED <<lotLock, balLock, auditLock>> /\ tx' = [tx EXCEPT ![p] = x]
    BY <1>1, <1>4, <2>3, <2>4 DEF Decide, Go
  <2>8. tx'[p] = x /\ Follows(s, r)
    BY <2>1, <2>3, <2>6, <2>7, Given DEF LotsInv
  <2>9. /\ lots' = lots /\ drawn' = drawn /\ adjusted' = adjusted /\ balance' = balance /\ due' = due
        /\ paid' = paid /\ fate' = fate /\ stale' = stale /\ \A k : Exists(k)' <=> Exists(k)
    BY <2>7, TablesKept DEF Exists
  <2>10. LocksKept(p) /\ pieceLock'[z] = p /\ \A k \in Piece : pieceLock[k] = p => pieceLock'[k] = p
    BY <1>2, <2>2, <2>5, <2>7 DEF TypeOK, LocksKept, Free
  <2>11. DOMAIN x.fate = DOMAIN y.fate \cup {z} /\ x.fate[z] = what /\ \A k \in DOMAIN y.fate : k # z => x.fate[k] = y.fate[k]
    BY <2>6 DEF Put
  <2>12. GramOf(Head(s)) = 0 /\ \A u : ~About(Head(s), u)
    BY <1>2, <2>1 DEF GramOf, About
  <2>13. Holds(p)'
    <3>1. Planned(r, x.seen)
      BY <2>1, <2>8, PlannedOn
    <3>2. Planned(tx[p].todo, tx[p].seen)'
      <4>1. Planned(x.todo, x.seen)'
        BY <2>6, <2>9, <3>1 DEF Planned, StepOK
      <4> QED BY <2>8, <4>1
    <3> QED BY <1>1, <2>5, <2>6, <2>7, <2>8, <2>9, <3>2 DEF Holds
  <2>14. Booked(p)'
    BY <1>1, <2>5, <2>6, <2>8, <2>9 DEF Booked
  <2>15. Fated(p)'
    <3>1. ASSUME NEW k \in DOMAIN x.fate
          PROVE  /\ k \in Piece /\ pieceLock'[k] = p /\ fate[k] = "bought"
                 /\ x.fate[k] = IF x.op = "melt" THEN "melted" ELSE "polished"
      <4>1. CASE k = z
        BY <2>2, <2>3, <2>6, <2>10, <2>11, <4>1
      <4>2. CASE k # z
        BY <1>1, <2>5, <2>6, <2>10, <2>11, <3>1, <4>2 DEF Fated
      <4> QED BY <4>1, <4>2
    <3>2. CASE y.op = "melt"
      <4>1. Melting(p)
        BY <1>1, <2>5, <3>2 DEF Fated
      <4>2. PICK v \in Piece :
              /\ Len(s) = 2 /\ s[1].on = v /\ s[2].do = "create" /\ s[2].on = v
              /\ DOMAIN y.lots = {} /\ DOMAIN y.fate = {}
        BY <1>1, <1>2, <2>1, <4>1 DEF Melting
      <4>3. v = z
        BY <1>1, <2>1, <4>2
      <4>4. Len(r) = 1 /\ r[1].do = "create" /\ r[1].on = z
        <5>1. r = Rest(p) /\ 1 \in 1..(Len(s) - 1) /\ 1 + 1 = 2
          BY <2>3, <3>2, <4>2
        <5> QED BY <2>1, <4>2, <4>3, <5>1
      <4>5. Melting(p)'
        BY <2>2, <2>6, <2>8, <2>11, <4>2, <4>4 DEF Melting
      <4> QED BY <2>6, <2>8, <2>9, <3>1, <3>2, <4>5 DEF Fated
    <3>3. CASE y.op # "melt"
      <4>1. \A j \in DOMAIN s : s[j].do = "create" => s[j].on = NONE
        BY <1>1, <2>5, <3>3 DEF Fated
      <4>2. \A k \in DOMAIN r : r[k].do = "create" => r[k].on = NONE
        BY <2>8, <4>1 DEF Follows, Telling
      <4>3. \A k \in DOMAIN x.lots : x.lots[k].from = IF Exists(k) THEN lots[k].from ELSE NONE
        BY <1>1, <2>5, <2>6, <3>3 DEF Fated
      <4> QED BY <2>6, <2>8, <2>9, <3>1, <3>3, <4>2, <4>3 DEF Fated
    <3> QED BY <3>2, <3>3
  <2>16. Owing(p)'
    <3>1. \A u, d : (Unmentioned(s, u) => Unmentioned(r, u)) /\ (Moves(s, u, d) => Moves(r, u, d))
      BY <2>8, <2>12 DEF Follows
    <3> QED BY <1>1, <2>5, <2>6, <2>7, <2>8, <2>9, <3>1 DEF Owing
  <2>17. Weighed(p)'
    <3>1. ToDraw(r) = ToDraw(s)
      BY <2>8, <2>12 DEF Follows
    <3> QED BY <1>1, <2>5, <2>6, <2>8, <3>1 DEF Weighed
  <2>18. Sound(p)'
    BY <2>13, <2>14, <2>15, <2>16, <2>17 DEF Sound
  <2>19. \A k \in DOMAIN x.lots : \A q \in Proc : q # p => k \notin DOMAIN tx[q].lots
    BY <1>1, <2>6 DEF LotsInv, OwnLots
  <2> QED BY <2>6, <2>7, <2>10, <2>18, <2>19, QuietLots
<1> QED BY <1>3, <1>4
-----------------------------------------------------------------------------
(* Commit. *)

\* What the commit of p's transaction x leaves in the tables, row by row.
Committed(p, x) ==
  /\ x = tx[p] /\ x.todo = <<>> /\ tx' = [tx EXCEPT ![p] = IdleTx] /\ ReleaseAll(p)
  /\ lots' = [l \in Lot |-> lots'[l]] /\ drawn' = [l \in Lot |-> drawn'[l]]
  /\ adjusted' = [l \in Lot |-> adjusted'[l]] /\ balance' = [u \in Unit |-> balance'[u]]
  /\ due' = [u \in Unit |-> due'[u]] /\ paid' = [u \in Unit |-> paid'[u]]
  /\ fate' = [y \in Piece |-> fate'[y]] /\ stale' = stale \cup x.stale
  /\ \A l \in Lot :
       /\ lots'[l] = IF l \in DOMAIN x.lots THEN x.lots[l] ELSE lots[l]
       /\ drawn'[l] = drawn[l] + Pend(x.drawn, l)
       /\ adjusted'[l] = adjusted[l] + Pend(x.adjusted, l)
  /\ \A u \in Unit :
       /\ balance'[u] = IF u \in DOMAIN x.bal THEN x.bal[u] ELSE balance[u]
       /\ due'[u] = due[u] + Pend(x.due, u) /\ paid'[u] = paid[u] + Pend(x.paid, u)
  /\ \A y \in Piece : fate'[y] = IF y \in DOMAIN x.fate THEN x.fate[y] ELSE fate[y]

\* A table with rows put over it, and one with amounts added.
LEMMA OverAt ==
  ASSUME NEW S, NEW f, DOMAIN f = S, NEW g, NEW h, h = Over(f, g)
  PROVE  h = [k \in S |-> h[k]] /\ \A k \in S : h[k] = IF k \in DOMAIN g THEN g[k] ELSE f[k]
BY DEF Over

\* A table with amounts added to it.
LEMMA PlusAt ==
  ASSUME NEW S, NEW f, DOMAIN f = S, NEW g, NEW h, h = Plus(f, g), \A k \in S : f[k] \in Int
  PROVE  h = [k \in S |-> h[k]] /\ \A k \in S : h[k] = f[k] + Pend(g, k)
<1>1. h = [k \in S |-> h[k]] /\ \A k \in S : h[k] = IF k \in DOMAIN g THEN f[k] + g[k] ELSE f[k]
  BY DEF Plus
<1>2. ASSUME NEW k \in S PROVE h[k] = f[k] + Pend(g, k)
  <2>1. CASE k \in DOMAIN g
    BY <1>1, <2>1 DEF Pend
  <2>2. CASE k \notin DOMAIN g
    BY <1>1, <2>2 DEF Pend
  <2> QED BY <2>1, <2>2
<1> QED BY <1>1, <1>2

\* Commit, row by row.
LEMMA CommitRows == ASSUME LotsInv, NEW p \in Proc, Commit(p) PROVE Committed(p, tx[p])
<1>1. PICK x : x = tx[p]
  OBVIOUS
<1>2. /\ x.todo = <<>> /\ tx' = [tx EXCEPT ![p] = IdleTx] /\ ReleaseAll(p)
      /\ lots' = Over(lots, x.lots) /\ drawn' = Plus(drawn, x.drawn)
      /\ adjusted' = Plus(adjusted, x.adjusted) /\ balance' = Over(balance, x.bal)
      /\ due' = Plus(due, x.due) /\ paid' = Plus(paid, x.paid) /\ fate' = Over(fate, x.fate)
      /\ stale' = stale \cup x.stale
  BY <1>1 DEF Commit
<1>3. /\ DOMAIN lots = Lot /\ DOMAIN drawn = Lot /\ DOMAIN adjusted = Lot /\ DOMAIN balance = Unit
      /\ DOMAIN due = Unit /\ DOMAIN paid = Unit /\ DOMAIN fate = Piece
      /\ (\A l \in Lot : drawn[l] \in Int /\ adjusted[l] \in Int)
      /\ \A u \in Unit : due[u] \in Int /\ paid[u] \in Int
  BY DEF LotsInv, TypeOK
<1>4. lots' = [l \in Lot |-> lots'[l]]
      /\ \A l \in Lot : lots'[l] = IF l \in DOMAIN x.lots THEN x.lots[l] ELSE lots[l]
  BY <1>2, <1>3, OverAt
<1>5. drawn' = [l \in Lot |-> drawn'[l]] /\ \A l \in Lot : drawn'[l] = drawn[l] + Pend(x.drawn, l)
  BY <1>2, <1>3, PlusAt
<1>6. adjusted' = [l \in Lot |-> adjusted'[l]]
      /\ \A l \in Lot : adjusted'[l] = adjusted[l] + Pend(x.adjusted, l)
  BY <1>2, <1>3, PlusAt
<1>7. balance' = [u \in Unit |-> balance'[u]]
      /\ \A u \in Unit : balance'[u] = IF u \in DOMAIN x.bal THEN x.bal[u] ELSE balance[u]
  BY <1>2, <1>3, OverAt
<1>8. due' = [u \in Unit |-> due'[u]] /\ \A u \in Unit : due'[u] = due[u] + Pend(x.due, u)
  BY <1>2, <1>3, PlusAt
<1>9. paid' = [u \in Unit |-> paid'[u]] /\ \A u \in Unit : paid'[u] = paid[u] + Pend(x.paid, u)
  BY <1>2, <1>3, PlusAt
<1>10. fate' = [y \in Piece |-> fate'[y]]
       /\ \A y \in Piece : fate'[y] = IF y \in DOMAIN x.fate THEN x.fate[y] ELSE fate[y]
  BY <1>2, <1>3, OverAt
<1>11. Committed(p, x)
  BY <1>1, <1>2, <1>4, <1>5, <1>6, <1>7, <1>8, <1>9, <1>10 DEF Committed
<1> QED BY <1>1, <1>11
\* What is known of a transaction with nothing left to do.
Finished(p, x) ==
  /\ \A l \in DOMAIN x.lots : l \in Lot /\ x.lots[l] \in LotRow /\ x.lots[l].left >= 0 /\ (Exists(l) => lotLock[l] = p)
  /\ \A l \in Lot : /\ Pend(x.drawn, l) \in Nat /\ Pend(x.adjusted, l) \in Int
                    /\ ~Exists(l) => Pend(x.drawn, l) = 0 /\ Pend(x.adjusted, l) = 0 /\ l \notin x.stale
                    /\ l \notin DOMAIN x.lots => Pend(x.drawn, l) = 0 /\ Pend(x.adjusted, l) = 0
  /\ \A l \in x.stale : l \in Lot
  /\ DOMAIN x.bal \subseteq Unit
  /\ \A u \in Unit :
       /\ Pend(x.due, u) \in Nat /\ Pend(x.paid, u) \in Nat
       /\ u \in DOMAIN x.bal => /\ balLock[u] = p /\ x.bal[u] \in Nat
                                /\ x.bal[u] = Debt(balance[u]) + Pend(x.due, u) - Pend(x.paid, u)
       /\ u \notin DOMAIN x.bal => Pend(x.due, u) = Pend(x.paid, u)
  /\ SumFunctionOnSet(Pending(x.drawn), Lot) = Pend(x.paid, "GOLD")

\* It has drawn what it paid and moved each balance by what it owes.
LEMMA FinishedFacts ==
  ASSUME LotsInv, NEW p \in Proc, tx[p].todo = <<>>
  PROVE  Finished(p, tx[p])
<1>1. PICK x : x = tx[p]
  OBVIOUS
<1>2. Holds(p) /\ Owing(p) /\ Weighed(p) /\ x.todo = <<>> /\ DOMAIN x.todo = {}
  BY <1>1 DEF LotsInv, Sound
<1>3. \A l \in DOMAIN x.lots : l \in Lot /\ x.lots[l] \in LotRow /\ x.lots[l].left >= 0 /\ (Exists(l) => lotLock[l] = p)
  BY <1>1, <1>2 DEF Holds
<1>4. ASSUME NEW l \in Lot
      PROVE  /\ Pend(x.drawn, l) \in Nat /\ Pend(x.adjusted, l) \in Int
             /\ ~Exists(l) => Pend(x.drawn, l) = 0 /\ Pend(x.adjusted, l) = 0 /\ l \notin x.stale
             /\ l \notin DOMAIN x.lots => Pend(x.drawn, l) = 0 /\ Pend(x.adjusted, l) = 0
  BY <1>1, <1>2 DEF Holds, Pend
<1>5. \A l \in x.stale : l \in Lot
  BY <1>1, <1>2 DEF Holds
<1>6. ASSUME NEW u \in Unit
      PROVE  /\ Pend(x.due, u) \in Nat /\ Pend(x.paid, u) \in Nat
             /\ u \in DOMAIN x.bal => /\ balLock[u] = p /\ x.bal[u] \in Nat
                                      /\ x.bal[u] = Debt(balance[u]) + Pend(x.due, u) - Pend(x.paid, u)
             /\ u \notin DOMAIN x.bal => Pend(x.due, u) = Pend(x.paid, u)
  <2>1. /\ Pend(x.due, u) \in Nat /\ Pend(x.paid, u) \in Nat
        /\ u \in DOMAIN x.bal => /\ balLock[u] = p /\ x.bal[u] \in Nat
                                 /\ x.bal[u] = Debt(balance[u]) + Pend(x.due, u) - Pend(x.paid, u)
        /\ u \notin DOMAIN x.bal => Moves(x.todo, u, Pend(x.due, u) - Pend(x.paid, u))
    BY <1>1, <1>2 DEF Owing
  <2>2. PICK d : d = Pend(x.due, u) - Pend(x.paid, u)
    OBVIOUS
  <2>3. u \notin DOMAIN x.bal => d = 0
    BY <1>2, <2>1, <2>2 DEF Moves
  <2>4. PICK m \in Nat, n \in Nat : m = Pend(x.due, u) /\ n = Pend(x.paid, u)
    BY <2>1
  <2>5. u \notin DOMAIN x.bal => m = n
    BY <2>2, <2>3, <2>4
  <2> QED BY <2>1, <2>4, <2>5
<1>7. DOMAIN x.bal \subseteq Unit
  BY <1>1, <1>2 DEF Owing
<1>8. SumFunctionOnSet(Pending(x.drawn), Lot) = Pend(x.paid, "GOLD")
  <2>1. SumFunctionOnSet(Pending(x.drawn), Lot) + 0 = Pend(x.paid, "GOLD")
    BY <1>1, <1>2, DrawsNone DEF Weighed
  <2>2. SumFunctionOnSet(Pending(x.drawn), Lot) \in Int
    <3>1. \A l \in Lot : Pending(x.drawn)[l] \in Int
      BY <1>4 DEF Pending
    <3> QED BY <3>1, SumType, StockedAssumption
  <2> QED BY <2>1, <2>2
<1>9. Finished(p, x)
  BY <1>3, <1>4, <1>5, <1>6, <1>7, <1>8 DEF Finished
<1> QED BY <1>1, <1>9

\* The others keep what they hold across p's commit, and their work.
LEMMA CommitOthers ==
  ASSUME LotsInv, NEW p \in Proc, NEW x, Committed(p, x), Finished(p, x), LocksKept(p),
         \A l \in DOMAIN x.lots : Exists(l) => x.lots[l].from = lots[l].from,
         \A y \in DOMAIN x.fate : pieceLock[y] = p,
         NEW q \in Proc, q # p
  PROVE  Spared(q)
<1>1. TypeOK /\ Shaped /\ OwnLots /\ Holds(q) /\ q # NONE
  BY NoneAssumption DEF LotsInv, Sound
<1>2. tx'[q] = tx[q]
  BY <1>1 DEF Committed, Shaped
<1>3. /\ \A l \in DOMAIN tx[q].lots : l \in Lot /\ l \notin DOMAIN x.lots /\ (Exists(l) => lotLock'[l] = q)
      /\ \A u \in DOMAIN tx[q].bal : u \in Unit /\ balLock[u] = q /\ balLock'[u] = q
      /\ \A y \in DOMAIN tx[q].fate : y \in Piece /\ pieceLock[y] = q /\ pieceLock'[y] = q
  BY <1>1, OthersHold DEF OwnLots, Committed
<1>4. ASSUME NEW l \in Lot, Exists(l) PROVE lots'[l] # NONE /\ lots'[l].from = lots[l].from
  <2>1. CASE l \in DOMAIN x.lots
    <3>1. lots'[l] = x.lots[l] /\ x.lots[l] \in LotRow
      BY <2>1 DEF Committed, Finished
    <3>2. NONE \notin LotRow
      BY RowAssumption
    <3> QED BY <1>4, <2>1, <3>1, <3>2
  <2>2. CASE l \notin DOMAIN x.lots
    BY <1>4, <2>2 DEF Committed, Exists
  <2> QED BY <2>1, <2>2
<1>5. stale \subseteq stale'
  BY DEF Committed
<1>6. ASSUME NEW l \in DOMAIN tx[q].lots
      PROVE  lots'[l] = lots[l] /\ drawn'[l] = drawn[l] /\ adjusted'[l] = adjusted[l]
  <2>1. l \in Lot /\ l \notin DOMAIN x.lots
    BY <1>3
  <2>2. Pend(x.drawn, l) = 0 /\ Pend(x.adjusted, l) = 0
    BY <2>1 DEF Finished
  <2>3. drawn[l] \in Int /\ adjusted[l] \in Int
    BY <1>1, <2>1 DEF TypeOK
  <2>4. lots'[l] = lots[l] /\ drawn'[l] = drawn[l] + 0 /\ adjusted'[l] = adjusted[l] + 0
    BY <2>1, <2>2 DEF Committed
  <2> QED BY <2>3, <2>4
<1>7. \A u \in DOMAIN tx[q].bal : balance'[u] = balance[u]
  <2>1. \A u \in DOMAIN tx[q].bal : u \in Unit /\ u \notin DOMAIN x.bal
    BY <1>3 DEF Finished
  <2> QED BY <2>1 DEF Committed
<1>8. \A y \in DOMAIN tx[q].fate : fate'[y] = fate[y]
  BY <1>3 DEF Committed
<1> QED BY <1>2, <1>3, <1>4, <1>5, <1>6, <1>7, <1>8 DEF Spared

\* A commit writes rows of the right kind.
LEMMA CommitTypes ==
  ASSUME LotsInv, NEW p \in Proc, NEW x, Committed(p, x), Finished(p, x), LocksKept(p),
         \A y \in DOMAIN x.fate : x.fate[y] \in Fates,
         \A q \in Proc : TxOK(tx[q])'
  PROVE  TypeOK'
<1>1. TypeOK
  BY DEF LotsInv
<1>2. ASSUME NEW l \in Lot
      PROVE  lots'[l] \in LotRow \cup {NONE} /\ (Exists(l)' => lots'[l].left >= 0)
  <2>1. CASE l \in DOMAIN x.lots
    BY <2>1 DEF Committed, Finished
  <2>2. CASE l \notin DOMAIN x.lots
    BY <1>1, <2>2 DEF Committed, TypeOK, Exists
  <2> QED BY <2>1, <2>2
<1>3. ASSUME NEW l \in Lot
      PROVE  drawn'[l] \in Nat /\ adjusted'[l] \in Int
  <2>1. PICK m, n : m = Pend(x.drawn, l) /\ n = Pend(x.adjusted, l)
    OBVIOUS
  <2>2. m \in Nat /\ n \in Int /\ drawn[l] \in Nat /\ adjusted[l] \in Int
    BY <1>1, <2>1 DEF TypeOK, Finished
  <2>3. drawn'[l] = drawn[l] + m /\ adjusted'[l] = adjusted[l] + n
    BY <2>1 DEF Committed
  <2> QED BY <2>2, <2>3
<1>4. ASSUME NEW u \in Unit
      PROVE  balance'[u] \in Nat \cup {NONE} /\ due'[u] \in Nat /\ paid'[u] \in Nat
  <2>1. PICK m, n : m = Pend(x.due, u) /\ n = Pend(x.paid, u)
    OBVIOUS
  <2>2. m \in Nat /\ n \in Nat /\ due[u] \in Nat /\ paid[u] \in Nat
    BY <1>1, <2>1 DEF TypeOK, Finished
  <2>3. due'[u] = due[u] + m /\ paid'[u] = paid[u] + n
    BY <2>1 DEF Committed
  <2>4. balance'[u] \in Nat \cup {NONE}
    BY <1>1 DEF TypeOK, Committed, Finished
  <2> QED BY <2>2, <2>3, <2>4
<1>5. \A y \in Piece : fate'[y] \in Fates
  BY <1>1 DEF TypeOK, Committed
<1>6. stale' \subseteq Lot
  BY <1>1 DEF TypeOK, Committed, Finished
<1>7. /\ lots' \in [Lot -> LotRow \cup {NONE}] /\ drawn' \in [Lot -> Nat] /\ adjusted' \in [Lot -> Int]
      /\ balance' \in [Unit -> Nat \cup {NONE}] /\ due' \in [Unit -> Nat] /\ paid' \in [Unit -> Nat]
      /\ fate' \in [Piece -> Fates]
  BY <1>2, <1>3, <1>4, <1>5 DEF Committed
<1> QED BY <1>2, <1>6, <1>7 DEF TypeOK, LocksKept
\* A commit keeps the balances: it moves each by what it makes due less what it pays.
LEMMA CommitBalances ==
  ASSUME LotsInv, NEW p \in Proc, NEW x, Committed(p, x), Finished(p, x)
  PROVE  BalanceReconciles'
<1> SUFFICES ASSUME NEW u \in Unit
             PROVE  due'[u] - paid'[u] = IF balance'[u] = NONE THEN 0 ELSE balance'[u]
  BY DEF BalanceReconciles
<1>1. PICK m, n, b : m = Pend(x.due, u) /\ n = Pend(x.paid, u) /\ b = Debt(balance[u])
  OBVIOUS
<1>2. TypeOK /\ BalanceReconciles
  BY DEF LotsInv
<1>3. /\ m \in Nat /\ n \in Nat /\ due[u] \in Nat /\ paid[u] \in Nat /\ b \in Nat
      /\ due[u] - paid[u] = b
  BY <1>1, <1>2 DEF TypeOK, BalanceReconciles, Finished, Debt
<1>4. due'[u] = due[u] + m /\ paid'[u] = paid[u] + n
  BY <1>1 DEF Committed
<1>5. due'[u] - paid'[u] = b + m - n
  <2>1. PICK d, c : d = due[u] /\ c = paid[u]
    OBVIOUS
  <2>2. d \in Nat /\ c \in Nat /\ d - c = b /\ due'[u] = d + m /\ paid'[u] = c + n
    BY <1>3, <1>4, <2>1
  <2>3. (d + m) - (c + n) = b + m - n
    BY <1>3, <2>2
  <2> QED BY <2>2, <2>3
<1>6. CASE u \in DOMAIN x.bal
  <2>1. balance'[u] = x.bal[u] /\ x.bal[u] \in Nat /\ x.bal[u] = b + m - n
    BY <1>1, <1>6 DEF Committed, Finished
  <2>2. balance'[u] # NONE
    BY <2>1, NoneAssumption
  <2> QED BY <1>5, <2>1, <2>2
<1>7. CASE u \notin DOMAIN x.bal
  <2>1. m = n /\ balance'[u] = balance[u]
    BY <1>1, <1>7 DEF Committed, Finished
  <2>2. due'[u] - paid'[u] = b
    BY <1>3, <1>5, <2>1
  <2> QED BY <1>1, <2>1, <2>2 DEF Debt
<1> QED BY <1>6, <1>7

\* A commit adds the grams it paid to the draws.
LEMMA CommitGrams ==
  ASSUME LotsInv, NEW p \in Proc, NEW x, Committed(p, x), Finished(p, x)
  PROVE  GoldPaidWasDrawn'
<1> DEFINE f == Pending(x.drawn)
<1>1. TypeOK /\ GoldPaidWasDrawn /\ IsFiniteSet(Lot) /\ "GOLD" \in Unit
  BY StockedAssumption DEF LotsInv, Unit
<1>2. ASSUME NEW l \in Lot PROVE drawn[l] \in Int /\ f[l] \in Int /\ drawn'[l] = drawn[l] + f[l]
  BY <1>1 DEF TypeOK, Finished, Committed, Pending
<1>3. SumFunctionOnSet(f, Lot) = Pend(x.paid, "GOLD") /\ paid'["GOLD"] = paid["GOLD"] + Pend(x.paid, "GOLD")
  BY <1>1 DEF Finished, Committed
<1> HIDE DEF f
<1>4. SumFunctionOnSet(drawn', Lot) = SumFunctionOnSet(drawn, Lot) + SumFunctionOnSet(f, Lot)
  BY <1>1, <1>2, SumPlus
<1> QED BY <1>1, <1>3, <1>4 DEF GoldPaidWasDrawn

\* A commit keeps the books of every lot nobody debited from an outdated copy.
LEMMA CommitBooks ==
  ASSUME LotsInv, NEW p \in Proc, NEW x, Committed(p, x), Finished(p, x)
  PROVE  BooksKeptUnlessStale'
<1> SUFFICES ASSUME NEW l \in Lot, Exists(l)', l \notin stale' PROVE InBooks(l)'
  BY DEF BooksKeptUnlessStale
<1>1. PICK m, n, d, a : /\ m = Pend(x.drawn, l) /\ n = Pend(x.adjusted, l)
                        /\ d = drawn[l] /\ a = adjusted[l]
  OBVIOUS
<1>2. /\ m \in Nat /\ n \in Int /\ d \in Nat /\ a \in Int /\ Weight \in Int
      /\ drawn'[l] = d + m /\ adjusted'[l] = a + n /\ l \notin stale /\ l \notin x.stale
  BY <1>1, BoundAssumption DEF LotsInv, TypeOK, Finished, Committed
<1>3. CASE l \in DOMAIN x.lots
  <2>1. Booked(p) /\ x = tx[p]
    BY DEF LotsInv, Sound, Committed
  <2>2. /\ x.lots[l].left = Weight + a + n - d - m
        /\ x.lots[l].depleted <=> x.lots[l].left = 0
    BY <1>1, <1>2, <1>3, <2>1 DEF Booked
  <2>3. lots'[l] = x.lots[l]
    BY <1>3 DEF Committed
  <2>4. lots'[l].left = Weight + adjusted'[l] - drawn'[l]
    BY <1>2, <2>2, <2>3
  <2>5. lots'[l].depleted <=> lots'[l].left = 0
    BY <2>2, <2>3, Zenon
  <2> QED BY <2>4, <2>5, Zenon DEF InBooks
<1>4. CASE l \notin DOMAIN x.lots
  <2>1. lots'[l] = lots[l] /\ m = 0 /\ n = 0
    BY <1>1, <1>4 DEF Committed, Finished
  <2>2. InBooks(l)
    BY <1>2, <2>1 DEF LotsInv, BooksKeptUnlessStale, Exists
  <2>3. lots'[l].left = Weight + adjusted'[l] - drawn'[l]
    BY <1>1, <1>2, <2>1, <2>2 DEF InBooks
  <2>4. lots'[l].depleted <=> lots'[l].left = 0
    BY <2>1, <2>2, Zenon DEF InBooks
  <2> QED BY <2>3, <2>4, Zenon DEF InBooks
<1> QED BY <1>3, <1>4

\* A lot that is not there yet has neither draws nor corrections.
LEMMA CommitUnborn ==
  ASSUME LotsInv, NEW p \in Proc, NEW x, Committed(p, x), Finished(p, x)
  PROVE  Unborn'
<1> SUFFICES ASSUME NEW l \in Lot, ~Exists(l)' PROVE drawn'[l] = 0 /\ adjusted'[l] = 0 /\ l \notin stale'
  BY DEF Unborn
<1>1. ~Exists(l)
  <2>1. CASE l \in DOMAIN x.lots
    BY <2>1, RowAssumption DEF Exists, Committed, Finished
  <2>2. CASE l \notin DOMAIN x.lots
    BY <2>2 DEF Exists, Committed
  <2> QED BY <2>1, <2>2
<1>2. drawn[l] = 0 /\ adjusted[l] = 0 /\ l \notin stale
  BY <1>1 DEF LotsInv, Unborn
<1>3. Pend(x.drawn, l) = 0 /\ Pend(x.adjusted, l) = 0 /\ l \notin x.stale
  BY <1>1 DEF Finished
<1>4. drawn'[l] = 0 + 0 /\ adjusted'[l] = 0 + 0 /\ stale' = stale \cup x.stale
  BY <1>2, <1>3 DEF Committed
<1> QED BY <1>2, <1>3, <1>4

\* The lots made of a piece.
LotsOf(y) == {l \in Lot : Exists(l) /\ lots[l].from = y}

\* A melt's commit adds the one lot of its piece; any other commit leaves the lots of every piece.
LEMMA CommitFate ==
  ASSUME LotsInv, NEW p \in Proc, NEW x, Committed(p, x), Finished(p, x)
  PROVE  OneFate'
<1> SUFFICES ASSUME NEW y \in Piece
             PROVE  Cardinality(LotsOf(y)') = IF fate'[y] = "melted" THEN 1 ELSE 0
  BY DEF OneFate, LotsOf
<1>1. Cardinality(LotsOf(y)) = IF fate[y] = "melted" THEN 1 ELSE 0
  BY DEF LotsInv, OneFate, LotsOf
<1>2. Fated(p) /\ x = tx[p] /\ x.todo = <<>>
  BY DEF LotsInv, Sound, Committed
<1>3. CASE x.op = "melt"
  <2>1. Len(x.todo) = 0 /\ Melting(p)
    BY <1>2, <1>3 DEF Fated
  <2>2. PICK z \in Piece :
          DOMAIN x.fate = {z} /\ \E l \in Lot : ~Exists(l) /\ DOMAIN x.lots = {l} /\ x.lots[l].from = z
    BY <1>2, <2>1 DEF Melting
  <2>3. PICK l \in Lot : ~Exists(l) /\ DOMAIN x.lots = {l} /\ x.lots[l].from = z
    BY <2>2
  <2>4. fate[z] = "bought" /\ x.fate[z] = "melted"
    BY <1>2, <1>3, <2>2 DEF Fated
  <2>5. lots'[l].from = z /\ Exists(l)' /\ \A k \in Lot : k # l => lots'[k] = lots[k]
    BY <2>3, RowAssumption DEF Committed, Finished, Exists
  <2>6. CASE y = z
    <3>1. Cardinality(LotsOf(z)) = 0
      BY <1>1, <2>4, <2>6
    <3>2. IsFiniteSet(LotsOf(z))
      BY StockedAssumption, FS_Subset DEF LotsOf
    <3>3. LotsOf(z) = {}
      BY <3>1, <3>2, FS_EmptySet
    <3>4. LotsOf(z)' = {l}
      BY <2>3, <2>5, <3>3 DEF LotsOf, Exists
    <3>5. Cardinality({l}) = 1
      BY FS_Singleton
    <3>6. fate'[z] = "melted"
      BY <2>2, <2>4 DEF Committed
    <3> QED BY <2>6, <3>4, <3>5, <3>6
  <2>7. CASE y # z
    <3>1. LotsOf(y)' = LotsOf(y)
      BY <2>3, <2>5, <2>7 DEF LotsOf, Exists
    <3>2. fate'[y] = fate[y]
      BY <2>2, <2>7 DEF Committed
    <3> QED BY <1>1, <3>1, <3>2
  <2> QED BY <2>6, <2>7
<1>4. CASE x.op # "melt"
  <2>1. \A l \in DOMAIN x.lots : x.lots[l].from = IF Exists(l) THEN lots[l].from ELSE NONE
    BY <1>2, <1>4 DEF Fated
  <2>2. ASSUME NEW l \in Lot PROVE (Exists(l)' /\ lots'[l].from = y) <=> (Exists(l) /\ lots[l].from = y)
    <3>1. CASE l \in DOMAIN x.lots
      <4>1. lots'[l] = x.lots[l] /\ lots'[l] # NONE
        BY <3>1, RowAssumption DEF Committed, Finished
      <4>2. lots'[l].from = IF Exists(l) THEN lots[l].from ELSE NONE
        BY <2>1, <3>1, <4>1
      <4>3. y # NONE
        BY NoneAssumption
      <4> QED BY <4>1, <4>2, <4>3 DEF Exists
    <3>2. CASE l \notin DOMAIN x.lots
      BY <3>2 DEF Committed, Exists
    <3> QED BY <3>1, <3>2
  <2>3. LotsOf(y)' = LotsOf(y)
    BY <2>2 DEF LotsOf
  <2>4. fate'[y] = "melted" <=> fate[y] = "melted"
    <3>1. CASE y \in DOMAIN x.fate
      <4>1. fate[y] = "bought" /\ x.fate[y] = "polished" /\ fate'[y] = x.fate[y]
        BY <1>2, <1>4, <3>1 DEF Fated, Committed
      <4> QED BY <4>1
    <3>2. CASE y \notin DOMAIN x.fate
      BY <3>2 DEF Committed
    <3> QED BY <3>1, <3>2
  <2> QED BY <1>1, <2>3, <2>4
<1> QED BY <1>3, <1>4

\* A commit lets go of what the transaction wrote, and everyone else keeps theirs.
LEMMA CommitLots == ASSUME LotsInv, NEW p \in Proc, Commit(p) PROVE LotsInv'
<1>1. tx[p].todo = <<>> /\ Committed(p, tx[p]) /\ Finished(p, tx[p])
  BY CommitRows, FinishedFacts DEF Commit
<1>2. PICK x : x = tx[p]
  OBVIOUS
<1>3. Committed(p, x) /\ Finished(p, x) /\ Fated(p)
  BY <1>1, <1>2 DEF LotsInv, Sound
<1>4. TypeOK /\ Shaped /\ ReleaseAll(p) /\ tx' = [tx EXCEPT ![p] = IdleTx]
  BY <1>3 DEF LotsInv, Committed
<1>5. LocksKept(p)
  BY <1>4, Release
<1>6. IsSession(IdleTx)
  BY DEF IsSession, IdleTx
<1>7. Shaped' /\ tx'[p] = IdleTx /\ \A q \in Proc : q # p => tx'[q] = tx[q]
  BY <1>4, <1>6, Given
<1>8. ASSUME NEW l \in DOMAIN x.lots, Exists(l) PROVE x.lots[l].from = lots[l].from
  <2>1. CASE x.op = "melt"
    <3>1. Melting(p) /\ Len(x.todo) = 0
      BY <1>1, <1>2, <1>3, <2>1 DEF Fated
    <3>2. \E k \in Lot : ~Exists(k) /\ DOMAIN x.lots = {k}
      BY <1>2, <3>1 DEF Melting
    <3> QED BY <1>8, <3>2
  <2>2. CASE x.op # "melt"
    BY <1>2, <1>3, <1>8, <2>2 DEF Fated
  <2> QED BY <2>1, <2>2
<1>9. \A y \in DOMAIN x.fate : pieceLock[y] = p /\ x.fate[y] \in Fates
  BY <1>2, <1>3 DEF Fated, Fates
<1>10. ASSUME NEW q \in Proc PROVE Sound(q)'
  <2>1. CASE q = p
    BY <1>7, <2>1, IdleSound
  <2>2. CASE q # p
    <3>1. Spared(q)
      BY <1>3, <1>5, <1>8, <1>9, <2>2, CommitOthers
    <3> QED BY <3>1, OthersSound DEF LotsInv
  <2> QED BY <2>1, <2>2
<1>11. \A q \in Proc : TxOK(tx[q])'
  BY <1>10 DEF Sound, Holds, TxOK, Planned
<1>12. TypeOK'
  BY <1>3, <1>5, <1>9, <1>11, CommitTypes
<1>13. OwnLots'
  <2>1. DOMAIN IdleTx.lots = {}
    BY <1>7, IdleSound
  <2> QED BY <1>7, <2>1 DEF LotsInv, OwnLots
<1>14. Unborn' /\ BalanceReconciles' /\ GoldPaidWasDrawn' /\ BooksKeptUnlessStale' /\ OneFate'
  BY <1>3, CommitUnborn, CommitBalances, CommitGrams, CommitBooks, CommitFate
<1> QED BY <1>7, <1>10, <1>12, <1>13, <1>14 DEF LotsInv
-----------------------------------------------------------------------------
(* The invariant, from the first state on. *)

\* The model starts with whole lots, nothing owed and every piece undecided.
LEMMA InitLots == ASSUME Init PROVE LotsInv
<1>1. /\ lots = [l \in Lot |-> IF l \in Stocked THEN NewLot(NONE) ELSE NONE]
      /\ drawn = [l \in Lot |-> 0] /\ adjusted = [l \in Lot |-> 0]
      /\ balance = [u \in Unit |-> NONE] /\ due = [u \in Unit |-> 0] /\ paid = [u \in Unit |-> 0]
      /\ fate = [y \in Piece |-> "bought"] /\ stale = {}
      /\ lotLock = [l \in Lot |-> NONE] /\ balLock = [u \in Unit |-> NONE]
      /\ pieceLock = [y \in Piece |-> NONE] /\ auditLock = NONE
      /\ tx = [p \in Proc |-> IdleTx]
  BY DEF Init
<1>2. PICK row : row = NewLot(NONE)
  OBVIOUS
<1>3. /\ row \in LotRow /\ row.left = Weight /\ row.depleted = FALSE /\ row.from = NONE
      /\ Weight \in Nat \ {0} /\ row # NONE
  <2>1. Weight \in Nat \ {0} /\ Weight \in Int
    BY BoundAssumption
  <2>2. RowIs(row, Weight, FALSE, NONE)
    BY <1>2, Zenon DEF NewLot, RowIs
  <2>3. FALSE \in BOOLEAN /\ NONE \in Piece \cup {NONE}
    OBVIOUS
  <2>4. row \in LotRow /\ row.left = Weight /\ row.depleted = FALSE /\ row.from = NONE
    BY <2>1, <2>2, <2>3, RowWritten
  <2> QED BY <2>1, <2>4, RowAssumption
<1>4. \A l \in Lot : lots[l] = IF l \in Stocked THEN row ELSE NONE
  BY <1>1, <1>2
<1>5. \A l \in Lot : Exists(l) => lots[l] = row
  BY <1>4 DEF Exists
<1>6. ASSUME NEW p \in Proc
      PROVE  Sound(p) /\ TxOK(tx[p]) /\ IsSession(tx[p]) /\ DOMAIN tx[p].lots = {}
  <2>1. PICK x : x = tx[p]
    OBVIOUS
  <2>2. /\ x.op = "none" /\ x.todo = <<>> /\ x.seen = NONE /\ x.stale = {} /\ DOMAIN x.lots = {}
        /\ DOMAIN x.drawn = {} /\ DOMAIN x.adjusted = {} /\ DOMAIN x.bal = {} /\ DOMAIN x.fate = {}
        /\ DOMAIN x.due = {} /\ DOMAIN x.paid = {} /\ IsSession(x)
    <3>1. x = IdleTx
      BY <1>1, <2>1
    <3> QED BY <3>1 DEF IdleTx, IsSession
  <2>3. /\ x.todo \in Seq(Steps) /\ DOMAIN x.todo = {} /\ ToDraw(x.todo) = 0
        /\ \A u : Moves(x.todo, u, 0)
    BY <2>2, DrawsNone DEF Moves, Unmentioned
  <2>4. Holds(p) /\ Booked(p) /\ Fated(p)
    <3>1. Planned(x.todo, x.seen)
      BY <2>3 DEF Planned
    <3>2. Holds(p)
      BY <2>1, <2>2, <3>1 DEF Holds
    <3>3. Booked(p)
      BY <2>1, <2>2 DEF Booked
    <3>4. Fated(p)
      BY <2>1, <2>2, <2>3 DEF Fated
    <3> QED BY <3>2, <3>3, <3>4
  <2>5. (\A k : Pend(x.due, k) = 0 /\ Pend(x.paid, k) = 0) /\ SumFunctionOnSet(Pending(x.drawn), Lot) = 0
    BY <2>2, NothingPends
  <2>6. Owing(p) /\ Weighed(p)
    <3>1. \A u \in Unit : Moves(x.todo, u, Pend(x.due, u) - Pend(x.paid, u))
      BY <2>3, <2>5
    <3>2. Owing(p)
      BY <2>1, <2>2, <2>5, <3>1 DEF Owing
    <3>3. Weighed(p)
      BY <2>1, <2>3, <2>5 DEF Weighed
    <3> QED BY <3>2, <3>3
  <2>7. TxOK(x)
    BY <2>2, <2>3 DEF TxOK
  <2> QED BY <2>1, <2>2, <2>4, <2>6, <2>7 DEF Sound
<1>7. TypeOK
  <2>1. lots \in [Lot -> LotRow \cup {NONE}] /\ \A l \in Lot : Exists(l) => lots[l].left >= 0
    BY <1>1, <1>3, <1>4, <1>5
  <2>2. /\ drawn \in [Lot -> Nat] /\ adjusted \in [Lot -> Int] /\ balance \in [Unit -> Nat \cup {NONE}]
        /\ due \in [Unit -> Nat] /\ paid \in [Unit -> Nat] /\ fate \in [Piece -> Fates] /\ stale \subseteq Lot
        /\ lotLock \in [Lot -> Proc \cup {NONE}] /\ balLock \in [Unit -> Proc \cup {NONE}]
        /\ pieceLock \in [Piece -> Proc \cup {NONE}] /\ auditLock \in Proc \cup {NONE}
    BY <1>1 DEF Fates
  <2> QED BY <1>6, <2>1, <2>2 DEF TypeOK
<1>8. Shaped /\ OwnLots
  BY <1>1, <1>6 DEF Shaped, OwnLots
<1>9. Unborn /\ BalanceReconciles
  BY <1>1 DEF Unborn, BalanceReconciles
<1>10. GoldPaidWasDrawn
  <2>1. SumFunctionOnSet(drawn, Lot) = SumFunctionOnSet(drawn, {})
    <3>1. \A l \in Lot \ {} : drawn[l] = 0
      BY <1>1
    <3>2. \A l \in Lot : drawn[l] \in Int
      BY <1>1
    <3> QED BY <3>1, <3>2, SumSupport, StockedAssumption
  <2>2. SumFunctionOnSet(drawn, {}) = 0
    BY FS_EmptySet, SumStep
  <2> QED BY <1>1, <2>1, <2>2 DEF GoldPaidWasDrawn, Unit
<1>11. BooksKeptUnlessStale
  <2> SUFFICES ASSUME NEW l \in Lot, Exists(l) PROVE InBooks(l)
    BY DEF BooksKeptUnlessStale
  <2>1. lots[l] = row /\ adjusted[l] = 0 /\ drawn[l] = 0
    BY <1>1, <1>5
  <2>2. lots[l].left = Weight + adjusted[l] - drawn[l] /\ lots[l].depleted = FALSE /\ lots[l].left # 0
    BY <1>3, <2>1
  <2> QED BY <2>2 DEF InBooks
<1>12. OneFate
  <2> SUFFICES ASSUME NEW y \in Piece PROVE Cardinality(LotsOf(y)) = 0
    BY <1>1 DEF OneFate, LotsOf
  <2>1. LotsOf(y) = {}
    BY <1>3, <1>5, NoneAssumption DEF LotsOf
  <2> QED BY <2>1, FS_EmptySet
<1> QED BY <1>6, <1>7, <1>8, <1>9, <1>10, <1>11, <1>12 DEF LotsInv

\* A step in which nothing changes.
LEMMA StutterLots == ASSUME LotsInv, UNCHANGED vars PROVE LotsInv'
<1>1. /\ UNCHANGED tables /\ UNCHANGED tx
      /\ lotLock' = lotLock /\ balLock' = balLock /\ pieceLock' = pieceLock /\ auditLock' = auditLock
  BY DEF vars, locks
<1>2. /\ lots' = lots /\ drawn' = drawn /\ adjusted' = adjusted /\ balance' = balance /\ due' = due
      /\ paid' = paid /\ fate' = fate /\ stale' = stale /\ tx' = tx
  BY <1>1, TablesKept
<1>3. TypeOK' /\ Shaped' /\ OwnLots' /\ Unborn'
  BY <1>1, <1>2 DEF LotsInv, TypeOK, Shaped, OwnLots, Unborn, Exists
<1>4. BalanceReconciles' /\ GoldPaidWasDrawn' /\ BooksKeptUnlessStale' /\ OneFate'
  BY <1>2 DEF LotsInv, BalanceReconciles, GoldPaidWasDrawn, BooksKeptUnlessStale, InBooks, OneFate, Exists
<1>5. ASSUME NEW q \in Proc PROVE Sound(q)'
  <2>1. Spared(q)
    <3>1. Holds(q) /\ Owing(q) /\ Fated(q)
      BY DEF LotsInv, Sound
    <3> QED BY <1>1, <1>2, <3>1 DEF Spared, Exists, Holds, Owing, Fated
  <2> QED BY <2>1, OthersSound DEF LotsInv
<1> QED BY <1>3, <1>4, <1>5 DEF LotsInv

\* Every step keeps it.
LEMMA NextLots == ASSUME LotsInv, [Next]_vars PROVE LotsInv'
<1>1. ASSUME NEW p \in Proc, Request(p) PROVE LotsInv'
  BY <1>1, RequestLots
<1>2. ASSUME NEW p \in Proc, Step(p) PROVE LotsInv'
  <2>1. CASE Read(p)
    BY <2>1, ReadLots
  <2>2. CASE Draw(p)
    BY <2>2, DrawLots
  <2>3. CASE Adjust(p)
    BY <2>3, AdjustLots
  <2>4. CASE Create(p)
    BY <2>4, CreateLots
  <2>5. CASE Balance(p)
    BY <2>5, BalanceLots
  <2>6. CASE Insert(p)
    BY <2>6, InsertLots
  <2>7. CASE Decide(p)
    BY <2>7, DecideLots
  <2>8. CASE RecordEvent(p)
    BY <2>8, EventLots
  <2>9. CASE Commit(p)
    BY <2>9, CommitLots
  <2> QED BY <1>2, <2>1, <2>2, <2>3, <2>4, <2>5, <2>6, <2>7, <2>8, <2>9 DEF Step
<1>3. ASSUME NEW p \in Proc, Abort(p) \/ DeadlockAbort(p) PROVE LotsInv'
  BY <1>3, RefuseLots DEF Abort, DeadlockAbort
<1>4. CASE ShopIdle \/ UNCHANGED vars
  BY <1>4, StutterLots DEF ShopIdle
<1> QED BY <1>1, <1>2, <1>3, <1>4 DEF Next

\* The invariant holds in every reachable state.
LEMMA LotsHold == Spec => []LotsInv
<1>1. Init => LotsInv
  BY InitLots
<1>2. LotsInv /\ [Next]_vars => LotsInv'
  BY NextLots
<1> QED BY <1>1, <1>2, PTL DEF Spec

\* What a supplier is owed is what purchases made due less what was paid, every gram
\* paid was drawn from a lot, and nothing is below zero, however requests of any number
\* of handlers race for a lot, a balance or its first row (create_purchase,
\* create_payment, adjust_balance).
THEOREM SuppliersSettledRight == Spec => []SuppliersSettled
<1>1. LotsInv => SuppliersSettled
  BY DEF LotsInv, SuppliersSettled
<1> QED BY <1>1, LotsHold, PTL

\* A lot that no handler debited from an outdated copy weighs what it weighed, as
\* corrected, less what was drawn, and is depleted exactly when nothing is left
\* (consume_from_lot, create_adjustment).
THEOREM BooksKept == Spec => []BooksKeptUnlessStale
<1>1. LotsInv => BooksKeptUnlessStale
  BY DEF LotsInv
<1> QED BY <1>1, LotsHold, PTL

\* A used piece is melted into one lot, or polished, or neither (create_polish and
\* _melt_used_buyback lock its row).
THEOREM FateOnce == Spec => []OneFate
<1>1. LotsInv => OneFate
  BY DEF LotsInv
<1> QED BY <1>1, LotsHold, PTL
=============================================================================
