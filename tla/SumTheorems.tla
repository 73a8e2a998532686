----------------------------- MODULE SumTheorems -----------------------------
(***************************************************************************)
(* Facts about SumFunctionOnSet, the sum of f[x] over a finite set of x,   *)
(* which the models add up stock, money and grams with.  The sum of a set  *)
(* is defined by taking its elements away one by one, in an order CHOOSE   *)
(* fixes; the theorems show that the order does not matter.  Then about    *)
(* SumTo and Total, the sums over rows of numbers and over sequences that  *)
(* add up the entries of the books, and about FlattenSeq.                  *)
(***************************************************************************)
EXTENDS RowSums, SequencesExt, FiniteSetTheorems, WellFoundedInduction, TLAPS

-----------------------------------------------------------------------------
(* Induction on finite sets, stated with a set: the library's theorem takes *)
(* a predicate.                                                             *)

\* A set of sets that holds every subset of S whose strict subsets it holds,
\* holds S.
LEMMA SubsetInduction ==
  ASSUME NEW S, IsFiniteSet(S), NEW G,
         \A T \in SUBSET S : (\A U \in SUBSET T : U # T => U \in G) => T \in G
  PROVE  S \in G
<1>1. FiniteSubsetsOf(S) = SUBSET S
  BY FS_FiniteSubsetsOfFinite
<1>2. IsWellFoundedOn(StrictSubsetOrdering(S), SUBSET S)
  BY <1>1, FS_StrictSubsetOrderingWellFounded
<1> SUFFICES ASSUME (SUBSET S) \ G # {} PROVE FALSE
  OBVIOUS
<1>3. PICK T \in (SUBSET S) \ G : \A U \in (SUBSET S) \ G : ~(<<U, T>> \in StrictSubsetOrdering(S))
  <2> DEFINE R == StrictSubsetOrdering(S)
             B == SUBSET S
             C == B \ G
  <2>1. C \subseteq B /\ C # {} /\ IsWellFoundedOn(R, B)
    BY <1>2
  <2> HIDE DEF R, B, C
  <2>2. \E T \in C : \A U \in C : ~(<<U, T>> \in R)
    BY <2>1, WFMin
  <2> QED BY <2>2 DEF R, B, C
<1>4. ASSUME NEW U \in SUBSET T, U # T PROVE U \in G
  <2>1. <<U, T>> \in StrictSubsetOrdering(S)
    BY <1>4 DEF StrictSubsetOrdering
  <2> QED BY <1>3, <2>1
<1> QED BY <1>3, <1>4

-----------------------------------------------------------------------------
(* The recursion that defines the sum. *)

First(s) == CHOOSE x \in s : TRUE

\* t is the sum of f over every subset of S.
Totals(t, f, S) ==
  t = [s \in SUBSET S |-> IF s = {} THEN 0 ELSE f[First(s)] + t[s \ {First(s)}]]

\* The sum of f over S is the one total of f over S: the definition, restated without its LET.
LEMMA SumDef ==
  ASSUME NEW f, NEW S
  PROVE  SumFunctionOnSet(f, S) = (CHOOSE t : Totals(t, f, S))[S]
BY DEF SumFunctionOnSet, FoldFunctionOnSet, MapThenFoldSet, Totals, First

\* Two recursions agree on what both cover.
LEMMA TotalsAgree ==
  ASSUME NEW f, NEW S, NEW T, NEW t, NEW u, Totals(t, f, S), Totals(u, f, T),
         NEW V, V \subseteq S, V \subseteq T, IsFiniteSet(V)
  PROVE  t[V] = u[V]
<1> DEFINE G == {W \in SUBSET V : t[W] = u[W]}
<1>1. ASSUME NEW W \in SUBSET V, \A U \in SUBSET W : U # W => U \in G
      PROVE  W \in G
  <2>1. t[W] = IF W = {} THEN 0 ELSE f[First(W)] + t[W \ {First(W)}]
    BY DEF Totals
  <2>2. u[W] = IF W = {} THEN 0 ELSE f[First(W)] + u[W \ {First(W)}]
    BY DEF Totals
  <2>3. W # {} => W \ {First(W)} \in SUBSET W /\ W \ {First(W)} # W
    BY DEF First
  <2>4. W # {} => t[W \ {First(W)}] = u[W \ {First(W)}]
    BY <1>1, <2>3
  <2> QED BY <2>1, <2>2, <2>4
<1> HIDE DEF G
<1>2. V \in G
  BY <1>1, SubsetInduction
<1> QED BY <1>2 DEF G

\* Every finite set has one.
LEMMA TotalsExist ==
  ASSUME NEW f, NEW S, IsFiniteSet(S)
  PROVE  \E t : Totals(t, f, S)
<1> DEFINE G == {T \in SUBSET S : \E t : Totals(t, f, T)}
           Tot(T) == CHOOSE t : Totals(t, f, T)
           Rest(s) == s \ {First(s)}
<1>1. ASSUME NEW T \in SUBSET S, \A U \in SUBSET T : U # T => U \in G
      PROVE  T \in G
  <2> DEFINE t == [s \in SUBSET T |-> IF s = {} THEN 0 ELSE f[First(s)] + Tot(Rest(s))[Rest(s)]]
  <2>1. ASSUME NEW s \in SUBSET T, s # {} PROVE t[Rest(s)] = Tot(Rest(s))[Rest(s)]
    <3> DEFINE U == Rest(s)
               V == Rest(U)
    <3>1. First(s) \in s
      BY <2>1 DEF First
    <3>2. U \in SUBSET T /\ U # T
      BY <3>1
    <3>3. Totals(Tot(U), f, U)
      BY <1>1, <3>2
    <3>4. CASE U = {}
      <4>1. t[U] = 0
        BY <3>2, <3>4
      <4>2. Tot(U)[U] = 0
        BY <3>3, <3>4 DEF Totals
      <4> QED BY <4>1, <4>2
    <3>5. CASE U # {}
      <4>1. First(U) \in U
        BY <3>5 DEF First
      <4>2. V \in SUBSET T /\ V # T /\ V \subseteq U
        BY <3>2, <4>1
      <4>3. Totals(Tot(V), f, V)
        BY <1>1, <4>2
      <4>4. IsFiniteSet(V)
        BY <4>2, FS_Subset
      <4>5. Tot(U)[V] = Tot(V)[V]
        BY <3>3, <4>2, <4>3, <4>4, TotalsAgree
      <4>6. Tot(U)[U] = f[First(U)] + Tot(U)[V]
        <5> HIDE DEF Tot
        <5> QED BY <3>3, <3>5 DEF Totals
      <4>7. t[U] = f[First(U)] + Tot(V)[V]
        BY <3>2, <3>5
      <4> QED BY <4>5, <4>6, <4>7
    <3> QED BY <3>4, <3>5
  <2>2. t = [s \in SUBSET T |-> t[s]]
    OBVIOUS
  <2>3. \A s \in SUBSET T : t[s] = IF s = {} THEN 0 ELSE f[First(s)] + t[Rest(s)]
    <3> SUFFICES ASSUME NEW s \in SUBSET T
                 PROVE  t[s] = IF s = {} THEN 0 ELSE f[First(s)] + t[Rest(s)]
      OBVIOUS
    <3>1. t[s] = IF s = {} THEN 0 ELSE f[First(s)] + Tot(Rest(s))[Rest(s)]
      OBVIOUS
    <3> HIDE DEF t, Tot, Rest
    <3> QED BY <2>1, <3>1
  <2>4. Totals(t, f, T)
    <3> HIDE DEF t
    <3> QED BY <2>2, <2>3 DEF Totals
  <2> QED BY <2>4
<1> HIDE DEF G
<1>2. S \in G
  BY <1>1, SubsetInduction
<1> QED BY <1>2 DEF G

-----------------------------------------------------------------------------
(* What the models use. *)

\* The sum of nothing, and of a set by its first element.
LEMMA SumStep ==
  ASSUME NEW f, NEW S, IsFiniteSet(S)
  PROVE  /\ S = {} => SumFunctionOnSet(f, S) = 0
         /\ S # {} => SumFunctionOnSet(f, S) = f[First(S)] + SumFunctionOnSet(f, S \ {First(S)})
<1> DEFINE T == S \ {First(S)}
           t == CHOOSE t : Totals(t, f, S)
           u == CHOOSE u : Totals(u, f, T)
<1>1. IsFiniteSet(T)
  BY FS_Subset
<1>2. Totals(t, f, S) /\ Totals(u, f, T)
  BY <1>1, TotalsExist
<1>3. SumFunctionOnSet(f, S) = t[S] /\ SumFunctionOnSet(f, T) = u[T]
  BY SumDef
<1> HIDE DEF t, u
<1>4. t[T] = u[T]
  BY <1>1, <1>2, TotalsAgree
<1>5. t[S] = IF S = {} THEN 0 ELSE f[First(S)] + t[T]
  BY <1>2 DEF Totals
<1> QED BY <1>3, <1>4, <1>5

\* The sum of integers is one.
THEOREM SumType ==
  ASSUME NEW f, NEW S, IsFiniteSet(S), \A x \in S : f[x] \in Int
  PROVE  SumFunctionOnSet(f, S) \in Int
<1> DEFINE G == {T \in SUBSET S : SumFunctionOnSet(f, T) \in Int}
<1>1. ASSUME NEW T \in SUBSET S, \A U \in SUBSET T : U # T => U \in G
      PROVE  T \in G
  <2>1. IsFiniteSet(T)
    BY FS_Subset
  <2>2. CASE T = {}
    <3>1. SumFunctionOnSet(f, T) = 0
      BY <2>1, <2>2, SumStep
    <3> QED BY <3>1
  <2>3. CASE T # {}
    <3>1. First(T) \in T
      BY <2>3 DEF First
    <3>2. SumFunctionOnSet(f, T \ {First(T)}) \in Int
      BY <1>1, <3>1
    <3>3. SumFunctionOnSet(f, T) = f[First(T)] + SumFunctionOnSet(f, T \ {First(T)})
      BY <2>1, <2>3, SumStep
    <3> QED BY <3>1, <3>2, <3>3
  <2> QED BY <2>2, <2>3
<1> HIDE DEF G
<1>2. S \in G
  BY <1>1, SubsetInduction
<1> QED BY <1>2 DEF G

\* Any element may be taken away first.
THEOREM SumRemove ==
  ASSUME NEW f, NEW S, IsFiniteSet(S), \A x \in S : f[x] \in Int, NEW a \in S
  PROVE  SumFunctionOnSet(f, S) = f[a] + SumFunctionOnSet(f, S \ {a})
<1> DEFINE Sum(T) == SumFunctionOnSet(f, T)
           G == {T \in SUBSET S : \A x \in T : Sum(T) = f[x] + Sum(T \ {x})}
<1>0. ASSUME NEW T \in SUBSET S PROVE IsFiniteSet(T) /\ Sum(T) \in Int
  <2>1. IsFiniteSet(T) /\ \A x \in T : f[x] \in Int
    BY FS_Subset
  <2> QED BY <2>1, SumType
<1>1. ASSUME NEW T \in SUBSET S, \A U \in SUBSET T : U # T => U \in G,
             NEW x \in T
      PROVE  Sum(T) = f[x] + Sum(T \ {x})
  <2> DEFINE y == First(T)
  <2>1. y \in T
    BY DEF First
  <2>2. Sum(T) = f[y] + Sum(T \ {y})
    BY <1>0, SumStep
  <2> HIDE DEF y, Sum
  <2>3. CASE x = y
    BY <2>2, <2>3
  <2>4. CASE x # y
    <3>1. Sum(T \ {y}) = f[x] + Sum((T \ {y}) \ {x})
      BY <1>1, <2>1, <2>4
    <3>2. Sum(T \ {x}) = f[y] + Sum((T \ {x}) \ {y})
      BY <1>1, <2>1, <2>4
    <3>3. (T \ {x}) \ {y} = (T \ {y}) \ {x}
      OBVIOUS
    <3>4. Sum((T \ {x}) \ {y}) \in Int /\ f[x] \in Int /\ f[y] \in Int
      BY <1>0, <2>1
    <3>5. Sum((T \ {x}) \ {y}) = Sum((T \ {y}) \ {x})
      BY <3>3
    <3> QED BY <2>2, <3>1, <3>2, <3>4, <3>5
  <2> QED BY <2>3, <2>4
<1>2. ASSUME NEW T \in SUBSET S, \A U \in SUBSET T : U # T => U \in G
      PROVE  T \in G
  <2>1. \A x \in T : Sum(T) = f[x] + Sum(T \ {x})
    BY <1>1, <1>2
  <2> QED BY <2>1
<1> HIDE DEF G
<1>3. S \in G
  BY <1>2, SubsetInduction
<1> QED BY <1>3 DEF G

\* An element added.
THEOREM SumAdd ==
  ASSUME NEW f, NEW S, IsFiniteSet(S), \A x \in S : f[x] \in Int, NEW a, a \notin S, f[a] \in Int
  PROVE  SumFunctionOnSet(f, S \cup {a}) = f[a] + SumFunctionOnSet(f, S)
<1>1. IsFiniteSet(S \cup {a}) /\ (S \cup {a}) \ {a} = S
  BY FS_AddElement
<1> QED BY <1>1, SumRemove

\* The sum depends on the summands alone.
THEOREM SumSame ==
  ASSUME NEW f, NEW g, NEW S, IsFiniteSet(S), \A x \in S : f[x] = g[x]
  PROVE  SumFunctionOnSet(f, S) = SumFunctionOnSet(g, S)
<1> DEFINE G == {T \in SUBSET S : SumFunctionOnSet(f, T) = SumFunctionOnSet(g, T)}
<1>1. ASSUME NEW T \in SUBSET S, \A U \in SUBSET T : U # T => U \in G
      PROVE  T \in G
  <2>1. IsFiniteSet(T)
    BY FS_Subset
  <2>2. CASE T = {}
    BY <2>1, <2>2, SumStep
  <2>3. CASE T # {}
    <3>1. First(T) \in T
      BY <2>3 DEF First
    <3>2. SumFunctionOnSet(f, T \ {First(T)}) = SumFunctionOnSet(g, T \ {First(T)})
      BY <1>1, <3>1
    <3>3. /\ SumFunctionOnSet(f, T) = f[First(T)] + SumFunctionOnSet(f, T \ {First(T)})
          /\ SumFunctionOnSet(g, T) = g[First(T)] + SumFunctionOnSet(g, T \ {First(T)})
      BY <2>1, <2>3, SumStep
    <3> QED BY <3>1, <3>2, <3>3
  <2> QED BY <2>2, <2>3
<1> HIDE DEF G
<1>2. S \in G
  BY <1>1, SubsetInduction
<1> QED BY <1>2 DEF G

\* One summand changed.
THEOREM SumChange ==
  ASSUME NEW f, NEW g, NEW S, IsFiniteSet(S), NEW a \in S,
         \A x \in S : f[x] \in Int /\ g[x] \in Int,
         \A x \in S : x # a => g[x] = f[x]
  PROVE  SumFunctionOnSet(g, S) = SumFunctionOnSet(f, S) - f[a] + g[a]
<1> DEFINE T == S \ {a}
<1>1. IsFiniteSet(T)
  BY FS_Subset
<1>2. SumFunctionOnSet(f, T) = SumFunctionOnSet(g, T)
  BY <1>1, SumSame
<1>3. SumFunctionOnSet(f, S) = f[a] + SumFunctionOnSet(f, T)
  BY SumRemove
<1>4. SumFunctionOnSet(g, S) = g[a] + SumFunctionOnSet(g, T)
  BY SumRemove
<1>5. SumFunctionOnSet(f, T) \in Int
  BY <1>1, SumType
<1> QED BY <1>2, <1>3, <1>4, <1>5

\* Summands that are zero may be left out.
THEOREM SumSupport ==
  ASSUME NEW f, NEW S, IsFiniteSet(S), \A x \in S : f[x] \in Int,
         NEW D, D \subseteq S, \A x \in S \ D : f[x] = 0
  PROVE  SumFunctionOnSet(f, S) = SumFunctionOnSet(f, D)
<1> DEFINE G == {T \in SUBSET S : SumFunctionOnSet(f, T) = SumFunctionOnSet(f, T \cap D)}
<1>1. ASSUME NEW T \in SUBSET S, \A U \in SUBSET T : U # T => U \in G
      PROVE  T \in G
  <2>1. IsFiniteSet(T) /\ \A x \in T : f[x] \in Int
    BY FS_Subset
  <2>2. CASE T \subseteq D
    <3>1. T \cap D = T
      BY <2>2
    <3> QED BY <3>1
  <2>3. CASE ~(T \subseteq D)
    <3>1. PICK a \in T : a \notin D
      BY <2>3
    <3>2. SumFunctionOnSet(f, T) = f[a] + SumFunctionOnSet(f, T \ {a})
      BY <2>1, SumRemove
    <3>3. SumFunctionOnSet(f, T \ {a}) = SumFunctionOnSet(f, (T \ {a}) \cap D)
      BY <1>1, <3>1
    <3>4. (T \ {a}) \cap D = T \cap D
      BY <3>1
    <3>5. SumFunctionOnSet(f, T \ {a}) \in Int
      <4>1. IsFiniteSet(T \ {a}) /\ \A x \in T \ {a} : f[x] \in Int
        BY <2>1, FS_Subset
      <4> QED BY <4>1, SumType
    <3>6. f[a] = 0
      BY <3>1
    <3>7. SumFunctionOnSet(f, (T \ {a}) \cap D) = SumFunctionOnSet(f, T \cap D)
      BY <3>4
    <3>8. SumFunctionOnSet(f, T) = SumFunctionOnSet(f, T \cap D)
      BY <3>2, <3>3, <3>5, <3>6, <3>7
    <3> QED BY <3>8
  <2> QED BY <2>2, <2>3
<1> HIDE DEF G
<1>2. S \in G
  BY <1>1, SubsetInduction
<1>3. S \cap D = D
  OBVIOUS
<1> QED BY <1>2, <1>3 DEF G

\* Two sums over one set are added summand by summand.
THEOREM SumPlus ==
  ASSUME NEW f, NEW g, NEW h, NEW S, IsFiniteSet(S),
         \A x \in S : f[x] \in Int /\ g[x] \in Int /\ h[x] = f[x] + g[x]
  PROVE  SumFunctionOnSet(h, S) = SumFunctionOnSet(f, S) + SumFunctionOnSet(g, S)
<1> DEFINE Sum(k, T) == SumFunctionOnSet(k, T)
           G == {T \in SUBSET S : Sum(h, T) = Sum(f, T) + Sum(g, T)}
<1>1. ASSUME NEW T \in SUBSET S, \A U \in SUBSET T : U # T => U \in G
      PROVE  T \in G
  <2> DEFINE a == First(T)
             U == T \ {a}
  <2>1. IsFiniteSet(T) /\ IsFiniteSet(U)
    BY FS_Subset
  <2>2. CASE T = {}
    <3>1. Sum(f, T) = 0 /\ Sum(g, T) = 0 /\ Sum(h, T) = 0
      BY <2>1, <2>2, SumStep
    <3> QED BY <3>1
  <2>3. CASE T # {}
    <3>1. a \in T
      BY <2>3 DEF First
    <3>2. Sum(h, U) = Sum(f, U) + Sum(g, U)
      BY <1>1, <3>1
    <3>3. /\ Sum(f, T) = f[a] + Sum(f, U) /\ Sum(g, T) = g[a] + Sum(g, U)
          /\ Sum(h, T) = h[a] + Sum(h, U)
      BY <2>1, <2>3, SumStep
    <3>4. Sum(f, U) \in Int /\ Sum(g, U) \in Int
      BY <2>1, SumType
    <3>5. f[a] \in Int /\ g[a] \in Int /\ h[a] = f[a] + g[a]
      BY <3>1
    <3> HIDE DEF Sum, U, a
    <3>6. Sum(h, T) = Sum(f, T) + Sum(g, T)
      BY <3>2, <3>3, <3>4, <3>5
    <3> QED BY <3>6
  <2> QED BY <2>2, <2>3
<1> HIDE DEF G
<1>2. S \in G
  BY <1>1, SubsetInduction
<1> QED BY <1>2 DEF G

\* A sum of natural numbers is one.
THEOREM SumNat ==
  ASSUME NEW f, NEW S, IsFiniteSet(S), \A x \in S : f[x] \in Nat
  PROVE  SumFunctionOnSet(f, S) \in Nat
<1> DEFINE G == {T \in SUBSET S : SumFunctionOnSet(f, T) \in Nat}
<1>1. ASSUME NEW T \in SUBSET S, \A U \in SUBSET T : U # T => U \in G
      PROVE  T \in G
  <2>1. IsFiniteSet(T)
    BY FS_Subset
  <2>2. CASE T = {}
    <3>1. SumFunctionOnSet(f, T) = 0
      BY <2>1, <2>2, SumStep
    <3> QED BY <3>1
  <2>3. CASE T # {}
    <3>1. First(T) \in T
      BY <2>3 DEF First
    <3>2. SumFunctionOnSet(f, T \ {First(T)}) \in Nat
      BY <1>1, <3>1
    <3>3. SumFunctionOnSet(f, T) = f[First(T)] + SumFunctionOnSet(f, T \ {First(T)})
      BY <2>1, <2>3, SumStep
    <3> QED BY <3>1, <3>2, <3>3
  <2> QED BY <2>2, <2>3
<1> HIDE DEF G
<1>2. S \in G
  BY <1>1, SubsetInduction
<1> QED BY <1>2 DEF G

\* None of them exceeds the sum.
THEOREM SumAtLeast ==
  ASSUME NEW f, NEW S, IsFiniteSet(S), \A x \in S : f[x] \in Nat, NEW a \in S
  PROVE  f[a] <= SumFunctionOnSet(f, S)
<1>1. IsFiniteSet(S \ {a}) /\ \A x \in S \ {a} : f[x] \in Nat
  BY FS_Subset
<1>2. SumFunctionOnSet(f, S \ {a}) \in Nat
  BY <1>1, SumNat
<1>3. SumFunctionOnSet(f, S) = f[a] + SumFunctionOnSet(f, S \ {a})
  BY SumRemove
<1> QED BY <1>2, <1>3
\* The sum over two disjoint sets is the sum of the sums.
THEOREM SumUnion ==
  ASSUME NEW f, NEW S, NEW T, IsFiniteSet(S), IsFiniteSet(T), S \cap T = {},
         \A x \in S \cup T : f[x] \in Int
  PROVE  SumFunctionOnSet(f, S \cup T) = SumFunctionOnSet(f, S) + SumFunctionOnSet(f, T)
<1> DEFINE V == S \cup T
           g == [x \in V |-> IF x \in S THEN f[x] ELSE 0]
           h == [x \in V |-> IF x \in T THEN f[x] ELSE 0]
<1>1. IsFiniteSet(V)
  BY FS_Union
<1>2. \A x \in V : g[x] \in Int /\ h[x] \in Int /\ f[x] = g[x] + h[x]
  OBVIOUS
<1>3. /\ \A x \in S : g[x] = f[x]
      /\ \A x \in T : h[x] = f[x]
      /\ \A x \in V \ S : g[x] = 0
      /\ \A x \in V \ T : h[x] = 0
  OBVIOUS
<1>4. S \subseteq V /\ T \subseteq V
  OBVIOUS
<1> HIDE DEF V, g, h
<1>5. SumFunctionOnSet(f, V) = SumFunctionOnSet(g, V) + SumFunctionOnSet(h, V)
  BY <1>1, <1>2, SumPlus
<1>6. SumFunctionOnSet(g, V) = SumFunctionOnSet(g, S)
  BY <1>1, <1>2, <1>3, <1>4, SumSupport
<1>7. SumFunctionOnSet(h, V) = SumFunctionOnSet(h, T)
  BY <1>1, <1>2, <1>3, <1>4, SumSupport
<1>8. SumFunctionOnSet(g, S) = SumFunctionOnSet(f, S) /\ SumFunctionOnSet(h, T) = SumFunctionOnSet(f, T)
  BY <1>3, SumSame
<1> QED BY <1>5, <1>6, <1>7, <1>8 DEF V

\* Summands may be numbered from another place on.
THEOREM SumShift ==
  ASSUME NEW m \in Nat, NEW n \in Nat, NEW f, NEW g,
         \A k \in 1..n : f[k] \in Int /\ g[m + k] = f[k]
  PROVE  SumFunctionOnSet(g, (m + 1)..(m + n)) = SumFunctionOnSet(f, 1..n)
<1> DEFINE N == 1..n
           Moved(T) == {j \in (m + 1)..(m + n) : j - m \in T}
           G == {T \in SUBSET N : SumFunctionOnSet(g, Moved(T)) = SumFunctionOnSet(f, T)}
<1>1. IsFiniteSet(1..n) /\ IsFiniteSet((m + 1)..(m + n))
  BY FS_Interval
<1>2. ASSUME NEW T \in SUBSET N, \A U \in SUBSET T : U # T => U \in G
      PROVE  T \in G
  <2>1. /\ IsFiniteSet(T) /\ IsFiniteSet(Moved(T))
        /\ \A x \in T : f[x] \in Int
        /\ \A j \in Moved(T) : g[j] \in Int
    <3>1. IsFiniteSet(T) /\ IsFiniteSet(Moved(T))
      BY <1>1, FS_Subset
    <3>2. \A x \in T : f[x] \in Int
      OBVIOUS
    <3>3. ASSUME NEW j \in Moved(T) PROVE g[j] \in Int
      <4>1. j - m \in 1..n /\ m + (j - m) = j
        BY <3>3
      <4> QED BY <4>1
    <3> QED BY <3>1, <3>2, <3>3
  <2>2. CASE T = {}
    <3>1. Moved(T) = {}
      BY <2>2
    <3>2. SumFunctionOnSet(f, T) = 0
      BY <2>1, <2>2, SumStep
    <3>3. SumFunctionOnSet(g, Moved(T)) = 0
      BY <2>1, <3>1, SumStep
    <3> QED BY <3>2, <3>3
  <2>3. CASE T # {}
    <3>1. PICK a : a \in T
      BY <2>3
    <3> DEFINE U == T \ {a}
    <3>2. U \in G
      BY <1>2, <3>1
    <3>3. m + a \in Moved(T) /\ Moved(T) \ {m + a} = Moved(U) /\ g[m + a] = f[a]
      <4>1. a \in 1..n /\ m + a \in (m + 1)..(m + n) /\ (m + a) - m = a
        BY <3>1
      <4>2. \A j \in (m + 1)..(m + n) : j - m = a <=> j = m + a
        BY <4>1
      <4> QED BY <3>1, <4>1, <4>2
    <3>4. SumFunctionOnSet(f, T) = f[a] + SumFunctionOnSet(f, U)
      <4>1. IsFiniteSet(T) /\ a \in T /\ \A x \in T : f[x] \in Int
        BY <2>1, <3>1
      <4> HIDE DEF N, Moved, G
      <4>2. SumFunctionOnSet(f, T) = f[a] + SumFunctionOnSet(f, T \ {a})
        BY ONLY <4>1, SumRemove
      <4> QED BY <4>2
    <3>5. SumFunctionOnSet(g, Moved(T)) = g[m + a] + SumFunctionOnSet(g, Moved(T) \ {m + a})
      <4> HIDE DEF Moved
      <4> QED BY <2>1, <3>3, SumRemove
    <3> QED BY <3>2, <3>3, <3>4, <3>5
  <2> QED BY <2>2, <2>3
<1>3. N \in G
  <2> HIDE DEF G, N
  <2>1. IsFiniteSet(N)
    BY <1>1 DEF N
  <2> QED BY <1>2, <2>1, SubsetInduction
<1>4. Moved(N) = (m + 1)..(m + n)
  OBVIOUS
<1> QED BY <1>3, <1>4

\* Summands may be renamed, one to one.
THEOREM SumRenamed ==
  ASSUME NEW f, NEW g, NEW m, NEW S, IsFiniteSet(S),
         \A x \in S : f[x] \in Int /\ g[m[x]] = f[x],
         \A x, y \in S : m[x] = m[y] => x = y
  PROVE  IsFiniteSet({m[x] : x \in S}) /\ SumFunctionOnSet(g, {m[x] : x \in S}) = SumFunctionOnSet(f, S)
<1> DEFINE Renamed(T) == {m[x] : x \in T}
           G == {T \in SUBSET S : IsFiniteSet(Renamed(T)) /\ SumFunctionOnSet(g, Renamed(T)) = SumFunctionOnSet(f, T)}
<1>1. ASSUME NEW T \in SUBSET S, \A U \in SUBSET T : U # T => U \in G
      PROVE  T \in G
  <2>1. IsFiniteSet(T) /\ \A x \in T : f[x] \in Int
    BY FS_Subset
  <2>2. CASE T = {}
    <3>1. Renamed(T) = {}
      BY <2>2
    <3>2. IsFiniteSet({})
      BY FS_EmptySet
    <3>3. SumFunctionOnSet(f, T) = 0 /\ SumFunctionOnSet(g, Renamed(T)) = 0
      BY <2>1, <2>2, <3>1, <3>2, SumStep
    <3> QED BY <3>1, <3>2, <3>3
  <2>3. CASE T # {}
    <3>1. PICK a : a \in T
      BY <2>3
    <3> DEFINE U == T \ {a}
    <3>2. U \in G
      BY <1>1, <3>1
    <3>3. m[a] \notin Renamed(U) /\ Renamed(T) = Renamed(U) \cup {m[a]} /\ g[m[a]] = f[a]
      BY <3>1
    <3>4. SumFunctionOnSet(f, T) = f[a] + SumFunctionOnSet(f, U)
      BY <2>1, <3>1, SumRemove
    <3>5. \A y \in Renamed(U) : g[y] \in Int
      OBVIOUS
    <3>6. f[a] \in Int
      BY <3>1
    <3> HIDE DEF Renamed
    <3>7. IsFiniteSet(Renamed(T))
      <4>1. IsFiniteSet(Renamed(U))
        BY <3>2
      <4>2. IsFiniteSet(Renamed(U) \cup {m[a]})
        BY <4>1, FS_AddElement
      <4> QED BY <3>3, <4>2
    <3>8. SumFunctionOnSet(g, Renamed(T)) = g[m[a]] + SumFunctionOnSet(g, Renamed(U))
      BY <3>2, <3>3, <3>5, <3>6, SumAdd
    <3> QED BY <3>2, <3>3, <3>4, <3>7, <3>8
  <2> QED BY <2>2, <2>3
<1>2. S \in G
  <2> HIDE DEF G
  <2> QED BY <1>1, SubsetInduction
<1> QED BY <1>2
-----------------------------------------------------------------------------
(* Sums of rows of numbers, and of a number over a sequence.                *)

\* A set of numbers that is not empty has a least one.
LEMMA LeastNumber ==
  ASSUME NEW S, S \subseteq Nat, S # {}
  PROVE  \E m \in S : \A k \in S : m <= k
<1>1. PICK m \in S : \A k \in S : <<k, m>> \notin OpToRel(<, Nat)
  BY NatLessThanWellFounded, WFMin
<1>2. \A k \in S : ~(k < m)
  BY <1>1 DEF OpToRel
<1> QED BY <1>2

\* s is the running sum of the first n of v.
Running(s, v, n) == s = [i \in 0..n |-> IF i = 0 THEN 0 ELSE s[i - 1] + v[i]]

\* The definition, restated without its LET.
LEMMA SumToDef ==
  ASSUME NEW v, NEW n
  PROVE  SumTo(v, n) = (CHOOSE s : Running(s, v, n))[n]
BY DEF SumTo, Running

\* The sum of a row is the sum of its numbers over their positions.
LEMMA RowSum ==
  ASSUME NEW n \in Nat, NEW v, \A i \in 1..n : v[i] \in Int
  PROVE  SumTo(v, n) = SumFunctionOnSet(v, 1..n) /\ SumTo(v, n) \in Int
<1> DEFINE Up(i) == SumFunctionOnSet(v, 1..i)
           r == [i \in 0..n |-> Up(i)]
<1>1. ASSUME NEW i \in 0..n PROVE IsFiniteSet(1..i) /\ Up(i) \in Int
  <2>1. IsFiniteSet(1..i)
    BY FS_Interval
  <2>2. \A k \in 1..i : v[k] \in Int
    OBVIOUS
  <2> QED BY <2>1, <2>2, SumType
<1>2. Up(0) = 0
  <2>1. 1..0 = {}
    OBVIOUS
  <2> QED BY <2>1, FS_EmptySet, SumStep
<1>3. ASSUME NEW i \in 1..n PROVE Up(i) = Up(i - 1) + v[i]
  <2>1. 1..i = (1..(i - 1)) \cup {i} /\ i \notin 1..(i - 1) /\ i - 1 \in 0..n
    OBVIOUS
  <2>2. IsFiniteSet(1..(i - 1)) /\ Up(i - 1) \in Int
    BY <1>1, <2>1
  <2>3. v[i] \in Int /\ \A k \in 1..(i - 1) : v[k] \in Int
    OBVIOUS
  <2>4. SumFunctionOnSet(v, (1..(i - 1)) \cup {i}) = v[i] + SumFunctionOnSet(v, 1..(i - 1))
    BY <2>1, <2>2, <2>3, SumAdd
  <2>5. PICK a, b : a = Up(i - 1) /\ b = v[i] /\ a \in Int /\ b \in Int
    BY <2>2, <2>3
  <2>6. Up(i) = b + a
    BY <2>1, <2>4, <2>5
  <2> QED BY <2>5, <2>6
<1>4. Running(r, v, n)
  <2>1. ASSUME NEW i \in 0..n PROVE r[i] = IF i = 0 THEN 0 ELSE r[i - 1] + v[i]
    <3>1. CASE i = 0
      BY <1>2, <3>1
    <3>2. CASE i # 0
      <4>1. i \in 1..n /\ i - 1 \in 0..n
        BY <3>2
      <4>2. r[i] = Up(i) /\ r[i - 1] = Up(i - 1)
        BY <4>1
      <4> QED BY <1>3, <3>2, <4>1, <4>2
    <3> QED BY <3>1, <3>2
  <2> QED BY <2>1 DEF Running
<1> DEFINE s == CHOOSE u : Running(u, v, n)
<1>5. Running(s, v, n)
  BY <1>4
<1> HIDE DEF r, s
<1>6. \A i \in 0..n : s[i] = IF i = 0 THEN 0 ELSE s[i - 1] + v[i]
  BY <1>5 DEF Running
<1>7. ASSUME NEW j \in 0..n, s[j] # Up(j) PROVE FALSE
  <2> DEFINE B == {i \in 0..n : s[i] # Up(i)}
  <2>0. B \subseteq Nat /\ B # {}
    BY <1>7
  <2>1. PICK m \in B : \A k \in B : m <= k
    <3> HIDE DEF B
    <3> QED BY <2>0, LeastNumber
  <2>2. m # 0
    BY <1>2, <1>6, <2>1
  <2>3. m \in 1..n /\ m - 1 \in 0..n
    BY <2>1, <2>2
  <2>4. s[m - 1] = Up(m - 1)
    BY <2>1, <2>3
  <2> QED BY <1>3, <1>6, <2>1, <2>2, <2>3, <2>4
<1>8. s[n] = Up(n)
  BY <1>7
<1> QED BY <1>1, <1>8, SumToDef DEF s

\* Its numbers are what it depends on.
LEMMA RowSame ==
  ASSUME NEW n \in Nat, NEW v, NEW w, \A i \in 1..n : v[i] \in Int /\ w[i] = v[i]
  PROVE  SumTo(w, n) = SumTo(v, n)
<1>1. IsFiniteSet(1..n)
  BY FS_Interval
<1>2. \A i \in 1..n : w[i] \in Int
  OBVIOUS
<1>3. SumFunctionOnSet(v, 1..n) = SumFunctionOnSet(w, 1..n)
  BY <1>1, SumSame
<1> QED BY <1>2, <1>3, RowSum

\* Nothing adds up to nothing.
LEMMA RowEmpty == ASSUME NEW v PROVE SumTo(v, 0) = 0
<1>1. 1..0 = {}
  OBVIOUS
<1>2. SumFunctionOnSet(v, {}) = 0
  BY FS_EmptySet, SumStep
<1> QED BY <1>1, <1>2, RowSum

\* One more number.
LEMMA RowStep ==
  ASSUME NEW n \in Nat, NEW v, \A i \in 1..(n + 1) : v[i] \in Int
  PROVE  SumTo(v, n + 1) = SumTo(v, n) + v[n + 1]
<1>1. 1..(n + 1) = (1..n) \cup {n + 1} /\ n + 1 \notin 1..n /\ IsFiniteSet(1..n)
  BY FS_Interval
<1>2. v[n + 1] \in Int /\ \A i \in 1..n : v[i] \in Int
  OBVIOUS
<1>3. SumFunctionOnSet(v, (1..n) \cup {n + 1}) = v[n + 1] + SumFunctionOnSet(v, 1..n)
  BY <1>1, <1>2, SumAdd
<1>4. SumTo(v, n) = SumFunctionOnSet(v, 1..n) /\ SumTo(v, n) \in Int
  BY <1>2, RowSum
<1>5. SumTo(v, n + 1) = SumFunctionOnSet(v, 1..(n + 1))
  <2>1. PICK m : m = n + 1 /\ m \in Nat
    OBVIOUS
  <2> QED BY <2>1, RowSum
<1>6. PICK a, b : a = SumTo(v, n) /\ b = v[n + 1] /\ a \in Int /\ b \in Int
  BY <1>2, <1>4
<1>7. SumTo(v, n + 1) = b + a
  BY <1>1, <1>3, <1>4, <1>5, <1>6
<1> QED BY <1>6, <1>7

\* w is the first m of u and then the first n of v.
Joined(w, u, m, v, n) ==
  /\ \A i \in 1..m : u[i] \in Int /\ w[i] = u[i]
  /\ \A i \in 1..n : v[i] \in Int /\ w[m + i] = v[i]

\* Two rows put one after the other.
LEMMA RowConcat ==
  ASSUME NEW m \in Nat, NEW n \in Nat, NEW u, NEW v, NEW w, Joined(w, u, m, v, n)
  PROVE  SumTo(w, m + n) = SumTo(u, m) + SumTo(v, n)
<1> USE DEF Joined
<1>1. 1..(m + n) = (1..m) \cup ((m + 1)..(m + n)) /\ (1..m) \cap ((m + 1)..(m + n)) = {}
  OBVIOUS
<1>2. IsFiniteSet(1..m) /\ IsFiniteSet((m + 1)..(m + n))
  BY FS_Interval
<1>3. ASSUME NEW i \in 1..(m + n) PROVE w[i] \in Int
  <2>1. CASE i <= m
    BY <2>1
  <2>2. CASE i > m
    <3>1. PICK k \in 1..n : i = m + k
      <4>1. i - m \in 1..n /\ i = m + (i - m)
        BY <2>2
      <4> QED BY <4>1
    <3> QED BY <3>1
  <2> QED BY <2>1, <2>2
<1>4. SumFunctionOnSet(w, 1..(m + n)) = SumFunctionOnSet(w, 1..m) + SumFunctionOnSet(w, (m + 1)..(m + n))
  <2>1. PICK S, T : S = 1..m /\ T = (m + 1)..(m + n)
    OBVIOUS
  <2>2. S \cup T = 1..(m + n) /\ S \cap T = {} /\ IsFiniteSet(S) /\ IsFiniteSet(T)
    BY <1>1, <1>2, <2>1
  <2>3. \A x \in S \cup T : w[x] \in Int
    BY <1>3, <2>2
  <2>4. SumFunctionOnSet(w, S \cup T) = SumFunctionOnSet(w, S) + SumFunctionOnSet(w, T)
    BY <2>2, <2>3, SumUnion
  <2> QED BY <2>1, <2>2, <2>4
<1>5. SumFunctionOnSet(w, (m + 1)..(m + n)) = SumFunctionOnSet(v, 1..n)
  BY SumShift
<1>6. SumFunctionOnSet(w, 1..m) = SumFunctionOnSet(u, 1..m)
  BY <1>2, SumSame
<1>7. SumTo(w, m + n) = SumFunctionOnSet(w, 1..(m + n))
  BY <1>3, RowSum
<1>8. SumTo(u, m) = SumFunctionOnSet(u, 1..m) /\ SumTo(v, n) = SumFunctionOnSet(v, 1..n)
  BY RowSum
<1> QED BY <1>4, <1>5, <1>6, <1>7, <1>8

\* Rows added number by number.
LEMMA RowPlus ==
  ASSUME NEW n \in Nat, NEW u, NEW v, NEW w,
         \A i \in 1..n : u[i] \in Int /\ v[i] \in Int /\ w[i] = u[i] + v[i]
  PROVE  SumTo(w, n) = SumTo(u, n) + SumTo(v, n)
<1>1. IsFiniteSet(1..n)
  BY FS_Interval
<1>2. \A i \in 1..n : w[i] \in Int
  OBVIOUS
<1>3. SumFunctionOnSet(w, 1..n) = SumFunctionOnSet(u, 1..n) + SumFunctionOnSet(v, 1..n)
  BY <1>1, SumPlus
<1>4. SumTo(w, n) = SumFunctionOnSet(w, 1..n)
  BY <1>2, RowSum
<1>5. SumTo(u, n) = SumFunctionOnSet(u, 1..n) /\ SumTo(v, n) = SumFunctionOnSet(v, 1..n)
  BY RowSum
<1> QED BY <1>3, <1>4, <1>5

\* No number below zero, no sum below zero.
LEMMA RowNat ==
  ASSUME NEW n \in Nat, NEW v, \A i \in 1..n : v[i] \in Nat
  PROVE  SumTo(v, n) \in Nat
<1>1. IsFiniteSet(1..n)
  BY FS_Interval
<1>2. SumFunctionOnSet(v, 1..n) \in Nat
  BY <1>1, SumNat
<1>3. \A i \in 1..n : v[i] \in Int
  OBVIOUS
<1> QED BY <1>2, <1>3, RowSum

\* A row of zeroes.
LEMMA RowZero ==
  ASSUME NEW n \in Nat, NEW v, \A i \in 1..n : v[i] = 0
  PROVE  SumTo(v, n) = 0
<1>1. PICK a : a = SumTo(v, n)
  OBVIOUS
<1>2. \A i \in 1..n : v[i] \in Int /\ v[i] = v[i] + v[i]
  OBVIOUS
<1>3. SumTo(v, n) = SumTo(v, n) + SumTo(v, n)
  BY <1>2, RowPlus
<1>4. a \in Int
  BY <1>1, <1>2, RowSum
<1>5. a = a + a
  BY <1>1, <1>3
<1>6. a = 0
  BY <1>4, <1>5
<1> QED BY <1>1, <1>6

\* Number by number no greater, in sum no greater.
LEMMA RowAtMost ==
  ASSUME NEW n \in Nat, NEW u, NEW v, \A i \in 1..n : u[i] \in Int /\ v[i] \in Int /\ u[i] <= v[i]
  PROVE  SumTo(u, n) <= SumTo(v, n)
<1> DEFINE d == [i \in 1..n |-> v[i] - u[i]]
<1>1. \A i \in 1..n : d[i] \in Nat /\ d[i] \in Int /\ v[i] = u[i] + d[i]
  OBVIOUS
<1> HIDE DEF d
<1>2. SumTo(v, n) = SumTo(u, n) + SumTo(d, n)
  BY <1>1, RowPlus
<1>3. SumTo(d, n) \in Nat
  BY <1>1, RowNat
<1>4. SumTo(u, n) \in Int
  BY RowSum
<1> QED BY <1>2, <1>3, <1>4

-----------------------------------------------------------------------------
(* Sums over a sequence.                                                    *)

\* f gives every member of S a number; the numbers of a sequence, summed.
Measure(f, S) == \A x \in S : f[x] \in Int
SumOver(f, s) == SumTo([i \in DOMAIN s |-> f[s[i]]], Len(s))

\* A sum over a sequence is a number, and a sequence is numbered from one.
LEMMA OverType ==
  ASSUME NEW S, NEW f, Measure(f, S), NEW s \in Seq(S)
  PROVE  /\ SumOver(f, s) \in Int /\ Len(s) \in Nat /\ DOMAIN s = 1..Len(s)
         /\ \A i \in 1..Len(s) : s[i] \in S /\ f[s[i]] \in Int
<1>1. Len(s) \in Nat /\ DOMAIN s = 1..Len(s) /\ \A i \in 1..Len(s) : s[i] \in S
  OBVIOUS
<1>2. PICK v : v = [i \in DOMAIN s |-> f[s[i]]]
  OBVIOUS
<1>3. \A i \in 1..Len(s) : f[s[i]] \in Int /\ v[i] = f[s[i]]
  BY <1>1, <1>2 DEF Measure
<1>4. SumTo(v, Len(s)) \in Int
  BY <1>1, <1>3, RowSum
<1> QED BY <1>1, <1>2, <1>3, <1>4 DEF SumOver

\* Over nothing a measure comes to nothing.
LEMMA OverEmpty == ASSUME NEW f PROVE SumOver(f, <<>>) = 0
<1>1. Len(<<>>) = 0
  OBVIOUS
<1> QED BY <1>1, RowEmpty DEF SumOver

\* A measure over two sequences in a row is the sum of both.
LEMMA OverConcat ==
  ASSUME NEW S, NEW f, Measure(f, S), NEW s \in Seq(S), NEW t \in Seq(S)
  PROVE  s \o t \in Seq(S) /\ SumOver(f, s \o t) = SumOver(f, s) + SumOver(f, t)
<1>1. PICK m, n, r : m = Len(s) /\ n = Len(t) /\ r = s \o t
  OBVIOUS
<1>2. /\ m \in Nat /\ n \in Nat /\ DOMAIN s = 1..m /\ DOMAIN t = 1..n /\ r \in Seq(S)
      /\ Len(r) = m + n /\ DOMAIN r = 1..(m + n)
  BY <1>1
<1>3. /\ \A i \in 1..m : r[i] = s[i] /\ s[i] \in S
      /\ \A i \in 1..n : r[m + i] = t[i] /\ t[i] \in S
  BY <1>1, <1>2
<1>4. PICK u, v, w : /\ u = [i \in DOMAIN s |-> f[s[i]]] /\ v = [i \in DOMAIN t |-> f[t[i]]]
                     /\ w = [i \in DOMAIN r |-> f[r[i]]]
  OBVIOUS
<1>5. \A i \in 1..m : u[i] \in Int /\ w[i] = u[i]
  <2>1. \A i \in 1..m : i \in 1..(m + n)
    BY <1>2
  <2> QED BY <1>2, <1>3, <1>4, <2>1 DEF Measure
<1>6. \A i \in 1..n : v[i] \in Int /\ w[m + i] = v[i]
  <2>1. \A i \in 1..n : m + i \in 1..(m + n)
    BY <1>2
  <2> QED BY <1>2, <1>3, <1>4, <2>1 DEF Measure
<1>7. SumTo(w, m + n) = SumTo(u, m) + SumTo(v, n)
  <2>1. Joined(w, u, m, v, n)
    BY <1>5, <1>6 DEF Joined
  <2> QED BY <1>2, <2>1, RowConcat
<1> QED BY <1>1, <1>2, <1>4, <1>7 DEF SumOver

\* A measure over one element is what it gives it.
LEMMA OverOne ==
  ASSUME NEW S, NEW f, Measure(f, S), NEW x \in S
  PROVE  <<x>> \in Seq(S) /\ SumOver(f, <<x>>) = f[x] /\ f[x] \in Int
<1>1. PICK v : v = [i \in DOMAIN <<x>> |-> f[<<x>>[i]]]
  OBVIOUS
<1>2. Len(<<x>>) = 1 /\ DOMAIN <<x>> = 1..1 /\ <<x>>[1] = x
  OBVIOUS
<1>3. v[1] = f[x] /\ f[x] \in Int
  BY <1>1, <1>2 DEF Measure
<1>4. \A i \in 1..(0 + 1) : v[i] \in Int
  BY <1>3
<1>5. SumTo(v, 0 + 1) = SumTo(v, 0) + v[0 + 1]
  BY <1>4, RowStep
<1>6. SumTo(v, 0) = 0
  BY RowEmpty
<1>7. SumTo(v, 1) = f[x]
  BY <1>3, <1>5, <1>6
<1> QED BY <1>1, <1>2, <1>3, <1>7 DEF SumOver

\* One element more adds what the measure gives it.
LEMMA OverAppend ==
  ASSUME NEW S, NEW f, Measure(f, S), NEW s \in Seq(S), NEW x \in S
  PROVE  Append(s, x) \in Seq(S) /\ SumOver(f, Append(s, x)) = SumOver(f, s) + f[x]
<1>1. PICK t : t = <<x>>
  OBVIOUS
<1>2. Append(s, x) = s \o t
  BY <1>1
<1>3. t \in Seq(S) /\ SumOver(f, t) = f[x]
  BY <1>1, OverOne
<1>4. s \o t \in Seq(S) /\ SumOver(f, s \o t) = SumOver(f, s) + SumOver(f, t)
  BY <1>3, OverConcat
<1> QED BY <1>2, <1>3, <1>4

\* A measure that is the sum of two comes to the sum of both.
LEMMA OverPlus ==
  ASSUME NEW S, NEW f, NEW g, NEW h, Measure(f, S), Measure(g, S), \A x \in S : h[x] = f[x] + g[x],
         NEW s \in Seq(S)
  PROVE  SumOver(h, s) = SumOver(f, s) + SumOver(g, s)
<1>1. PICK n : n = Len(s) /\ n \in Nat /\ DOMAIN s = 1..n
  OBVIOUS
<1>2. PICK u, v, w : /\ u = [i \in DOMAIN s |-> f[s[i]]] /\ v = [i \in DOMAIN s |-> g[s[i]]]
                     /\ w = [i \in DOMAIN s |-> h[s[i]]]
  OBVIOUS
<1>3. \A i \in 1..n : s[i] \in S
  BY <1>1
<1>4. \A i \in 1..n : u[i] \in Int /\ v[i] \in Int /\ w[i] = u[i] + v[i]
  BY <1>1, <1>2, <1>3 DEF Measure
<1>5. SumTo(w, n) = SumTo(u, n) + SumTo(v, n)
  BY ZenonT(60), <1>1, <1>4, RowPlus
<1> QED BY <1>1, <1>2, <1>5 DEF SumOver

\* Measures that agree on the elements come to the same.
LEMMA OverSame ==
  ASSUME NEW S, NEW f, NEW g, Measure(f, S), NEW s \in Seq(S), \A i \in 1..Len(s) : g[s[i]] = f[s[i]]
  PROVE  SumOver(g, s) = SumOver(f, s)
<1>1. PICK n : n = Len(s) /\ n \in Nat /\ DOMAIN s = 1..n
  OBVIOUS
<1>2. PICK u, w : u = [i \in DOMAIN s |-> f[s[i]]] /\ w = [i \in DOMAIN s |-> g[s[i]]]
  OBVIOUS
<1>3. \A i \in 1..n : s[i] \in S
  BY <1>1
<1>4. \A i \in 1..n : u[i] \in Int /\ w[i] = u[i]
  BY <1>1, <1>2, <1>3 DEF Measure
<1>5. SumTo(w, n) = SumTo(u, n)
  BY <1>1, <1>4, RowSame
<1> QED BY <1>1, <1>2, <1>5 DEF SumOver

\* A measure that is nothing of each element comes to nothing.
LEMMA OverZero ==
  ASSUME NEW S, NEW f, NEW s \in Seq(S), \A i \in 1..Len(s) : f[s[i]] = 0
  PROVE  SumOver(f, s) = 0
<1>1. PICK n : n = Len(s) /\ n \in Nat /\ DOMAIN s = 1..n
  OBVIOUS
<1>2. PICK u : u = [i \in DOMAIN s |-> f[s[i]]]
  OBVIOUS
<1>3. \A i \in 1..n : u[i] = 0
  BY <1>1, <1>2
<1>4. SumTo(u, n) = 0
  BY <1>1, <1>3, RowZero
<1> QED BY <1>1, <1>2, <1>4 DEF SumOver

\* A measure in natural numbers comes to one.
LEMMA OverNat ==
  ASSUME NEW S, NEW f, \A x \in S : f[x] \in Nat, NEW s \in Seq(S)
  PROVE  SumOver(f, s) \in Nat
<1>1. PICK n : n = Len(s) /\ n \in Nat /\ DOMAIN s = 1..n
  OBVIOUS
<1>2. PICK u : u = [i \in DOMAIN s |-> f[s[i]]]
  OBVIOUS
<1>3. \A i \in 1..n : s[i] \in S
  BY <1>1
<1>4. \A i \in 1..n : u[i] \in Nat
  BY <1>1, <1>2, <1>3
<1>5. SumTo(u, n) \in Nat
  BY <1>1, <1>4, RowNat
<1> QED BY <1>1, <1>2, <1>5 DEF SumOver

-----------------------------------------------------------------------------
(* Sequences strung together.                                               *)

\* r is what the first n of ss are together, one after the other.
Strung(r, ss, n) == r = [i \in 1..n |-> IF i = 1 THEN ss[i] ELSE r[i - 1] \o ss[i]]

\* The definition, restated without its LET.
LEMMA FlattenDef ==
  ASSUME NEW ss
  PROVE  FlattenSeq(ss) = IF Len(ss) = 0 THEN ss ELSE (CHOOSE r : Strung(r, ss, Len(ss)))[Len(ss)]
BY DEF FlattenSeq, Strung

\* There are such sequences.
LEMMA StrungExists ==
  ASSUME NEW ss, NEW n \in Nat
  PROVE  \E r : Strung(r, ss, n)
<1> DEFINE B == {m \in Nat : ~\E r : Strung(r, ss, m)}
<1>1. SUFFICES ASSUME B # {} PROVE FALSE
  OBVIOUS
<1>2. PICK m \in B : \A k \in B : m <= k
  <2>1. B \subseteq Nat /\ B # {}
    BY <1>1
  <2> HIDE DEF B
  <2> QED BY <2>1, LeastNumber
<1>3. m # 0
  <2>1. PICK r : r = [i \in 1..0 |-> 0]
    OBVIOUS
  <2>2. Strung(r, ss, 0)
    BY <2>1 DEF Strung
  <2> QED BY <1>2, <2>2
<1>4. PICK k \in Nat : m = k + 1
  <2>1. m - 1 \in Nat /\ m = (m - 1) + 1
    BY <1>2, <1>3
  <2> QED BY <2>1
<1>5. PICK r : Strung(r, ss, k)
  <2>1. ~(m <= k)
    BY <1>4
  <2> QED BY <1>2, <2>1
<1>6. PICK last : last = IF m = 1 THEN ss[m] ELSE r[k] \o ss[m]
  OBVIOUS
<1>7. PICK q : q = [i \in 1..m |-> IF i = m THEN last ELSE r[i]]
  OBVIOUS
<1>8. ASSUME NEW i \in 1..m PROVE q[i] = IF i = 1 THEN ss[i] ELSE q[i - 1] \o ss[i]
  <2>1. CASE i = m
    <3>1. q[i] = last
      BY <1>7, <2>1
    <3>2. CASE m = 1
      BY <1>6, <2>1, <3>1, <3>2
    <3>3. CASE m # 1
      <4>1. i - 1 \in 1..m /\ i - 1 # m /\ i - 1 = k /\ i # 1
        BY <1>4, <2>1, <3>3
      <4>2. q[i - 1] = r[k]
        BY <1>7, <4>1
      <4> QED BY <1>6, <2>1, <3>1, <3>3, <4>1, <4>2
    <3> QED BY <3>2, <3>3
  <2>2. CASE i # m
    <3>1. i \in 1..k /\ q[i] = r[i]
      BY <1>4, <1>7, <2>2
    <3>2. r[i] = IF i = 1 THEN ss[i] ELSE r[i - 1] \o ss[i]
      BY <1>5, <3>1 DEF Strung
    <3>3. CASE i = 1
      BY <3>1, <3>2, <3>3
    <3>4. CASE i # 1
      <4>1. i - 1 \in 1..m /\ i - 1 # m
        BY <3>4
      <4>2. q[i - 1] = r[i - 1]
        BY <1>7, <4>1
      <4> QED BY <3>1, <3>2, <3>4, <4>2
    <3> QED BY <3>3, <3>4
  <2> QED BY <2>1, <2>2
<1>9. q = [i \in 1..m |-> q[i]]
  BY <1>7
<1>10. Strung(q, ss, m)
  BY <1>8, <1>9 DEF Strung
<1> QED BY <1>2, <1>10

\* A sum over sequences strung together is the sum of theirs.
LEMMA OverFlatten ==
  ASSUME NEW S, NEW f, Measure(f, S), NEW ss \in Seq(Seq(S))
  PROVE  /\ FlattenSeq(ss) \in Seq(S)
         /\ SumOver(f, FlattenSeq(ss)) = SumTo([i \in 1..Len(ss) |-> SumOver(f, ss[i])], Len(ss))
<1>1. PICK n, v : n = Len(ss) /\ v = [i \in 1..n |-> SumOver(f, ss[i])]
  OBVIOUS
<1>2. n \in Nat /\ DOMAIN ss = 1..n /\ \A i \in 1..n : ss[i] \in Seq(S)
  BY <1>1
<1>3. ASSUME NEW i \in 1..n PROVE v[i] = SumOver(f, ss[i]) /\ v[i] \in Int
  <2>1. ss[i] \in Seq(S)
    BY <1>2
  <2> QED BY <1>1, <2>1, OverType
<1>4. CASE n = 0
  <2>1. ss = <<>> /\ FlattenSeq(ss) = ss
    BY <1>1, <1>2, <1>4, FlattenDef
  <2>2. SumOver(f, <<>>) = 0 /\ SumTo(v, 0) = 0
    BY OverEmpty, RowEmpty
  <2>3. SumTo([i \in 1..Len(ss) |-> SumOver(f, ss[i])], Len(ss)) = 0
    BY <1>1, <1>4, <2>2
  <2>4. <<>> \in Seq(S)
    OBVIOUS
  <2> QED BY <2>1, <2>2, <2>3, <2>4
<1>5. CASE n # 0
  <2>1. PICK r : r = CHOOSE u : Strung(u, ss, n)
    OBVIOUS
  <2>2. Strung(r, ss, n) /\ FlattenSeq(ss) = r[n]
    <3>1. \E u : Strung(u, ss, n)
      BY <1>2, StrungExists
    <3>2. FlattenSeq(ss) = r[n]
      BY <1>1, <1>5, <2>1, FlattenDef
    <3> QED BY <2>1, <3>1, <3>2
  <2>3. \A i \in 1..n : r[i] = IF i = 1 THEN ss[i] ELSE r[i - 1] \o ss[i]
    BY <2>2 DEF Strung
  <2> DEFINE Good(i) == r[i] \in Seq(S) /\ SumOver(f, r[i]) = SumTo(v, i)
             B == {i \in 1..n : ~Good(i)}
  <2>4. B = {}
    <3>1. SUFFICES ASSUME B # {} PROVE FALSE
      OBVIOUS
    <3>2. PICK m \in B : \A k \in B : m <= k
      <4>1. B \subseteq Nat
        BY <1>2
      <4> HIDE DEF B
      <4> QED BY <3>1, <4>1, LeastNumber
    <3>3. m \in 1..n /\ ~Good(m)
      BY <3>2
    <3>4. PICK k \in Nat : m = k + 1
      <4>1. m - 1 \in Nat /\ m = (m - 1) + 1
        BY <1>2, <3>3
      <4> QED BY <4>1
    <3>5. SumTo(v, m) = SumTo(v, k) + v[m]
      <4>1. \A i \in 1..(k + 1) : v[i] \in Int
        BY <1>2, <1>3, <3>3, <3>4
      <4> QED BY <3>4, <4>1, RowStep
    <3>6. v[m] = SumOver(f, ss[m]) /\ v[m] \in Int /\ ss[m] \in Seq(S)
      BY <1>2, <1>3, <3>3
    <3>7. CASE k = 0
      <4>1. r[m] = ss[m]
        BY <2>3, <3>3, <3>4, <3>7
      <4>2. SumTo(v, k) = 0
        BY <3>7, RowEmpty
      <4>3. SumTo(v, m) = v[m]
        BY <3>5, <3>6, <4>2
      <4> QED BY <3>3, <3>6, <4>1, <4>3
    <3>8. CASE k # 0
      <4>1. k \in 1..n /\ m # 1 /\ m - 1 = k
        BY <1>2, <3>3, <3>4, <3>8
      <4>2. Good(k)
        <5>1. ~(m <= k)
          BY <3>4
        <5> QED BY <3>2, <4>1, <5>1
      <4>3. r[m] = r[k] \o ss[m]
        BY <2>3, <3>3, <4>1
      <4>4. r[k] \o ss[m] \in Seq(S) /\ SumOver(f, r[k] \o ss[m]) = SumOver(f, r[k]) + SumOver(f, ss[m])
        BY <3>6, <4>2, OverConcat
      <4> QED BY <3>3, <3>5, <3>6, <4>2, <4>3, <4>4
    <3> QED BY <3>7, <3>8
  <2>5. n \in 1..n
    BY <1>2, <1>5
  <2>6. Good(n)
    BY <2>4, <2>5
  <2> QED BY <1>1, <2>2, <2>6
<1> QED BY <1>4, <1>5

=============================================================================
