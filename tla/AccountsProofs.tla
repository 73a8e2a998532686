---------------------------- MODULE AccountsProofs ----------------------------
(***************************************************************************)
(* Proofs about Postings, the entries of the documents with their amounts. *)
(*                                                                         *)
(* Postings, for any catalogue, carts, prices, weights, rates, deliveries  *)
(* and amounts: every document of the shop writes an entry that balances,  *)
(* the statements drawn up from the journal agree with one another, and    *)
(* the control accounts of suppliers, customers and vendors are their      *)
(* subledgers, through every rounding to the cent; a sale that is refunded *)
(* or voided is undone in the books, and a refund takes from the cash      *)
(* account what the customer is handed.                                    *)
(***************************************************************************)
EXTENDS Postings, SumTheorems, SequenceTheorems

-----------------------------------------------------------------------------
(* Sums over the lines of the entries of some days.                         *)

\* The lines and the entries the documents make.
LineSet ==
  {l \in [acct : Accounts, base : Int, money : Int, currency : {"USD", "LBP"}, grams : Int, karat : KaratSet \cup {NONE}] :
     /\ l.grams # 0 => l.acct \in Dual /\ l.karat # NONE
     /\ l.acct \in CashKeys \ {"CASH_LBP"} => l.money = l.base}
Sources == ({"ORDER", "ORDER_REFUND", "VOID"} \X Nat)
             \cup {<<s>> : s \in SupplySources \cup AccountSources}
EntrySet == [day : 1..Days, source : Sources, lines : Seq(LineSet)]

\* The sum of f over the lines of the entries of `days`.
OnDays(f, days) == [e \in EntrySet |-> IF e.day \in days THEN SumOver(f, e.lines) ELSE 0]
Replayed(f, days, j) == SumOver(OnDays(f, days), j)

\* A measure of lines makes one of entries.
LEMMA OnDaysMeasure ==
  ASSUME NEW f, Measure(f, LineSet), NEW days
  PROVE  /\ Measure(OnDays(f, days), EntrySet)
         /\ \A e \in EntrySet : SumOver(f, e.lines) \in Int
                                /\ OnDays(f, days)[e] = IF e.day \in days THEN SumOver(f, e.lines) ELSE 0
<1>1. ASSUME NEW e \in EntrySet PROVE SumOver(f, e.lines) \in Int
  <2>1. e.lines \in Seq(LineSet)
    BY DEF EntrySet
  <2> QED BY <2>1, OverType
<1> QED BY <1>1 DEF OnDays, Measure

\* A sum over the journal is a number.
LEMMA ReplayedType ==
  ASSUME NEW f, Measure(f, LineSet), NEW days, NEW j \in Seq(EntrySet)
  PROVE  Replayed(f, days, j) \in Int
BY OnDaysMeasure, OverType DEF Replayed

\* Two sums over the journal are the sum of what they add up.
LEMMA ReplayedPlus ==
  ASSUME NEW f, NEW g, NEW h, Measure(f, LineSet), Measure(g, LineSet),
         \A l \in LineSet : h[l] = f[l] + g[l], NEW days, NEW j \in Seq(EntrySet)
  PROVE  Replayed(h, days, j) = Replayed(f, days, j) + Replayed(g, days, j)
<1>1. Measure(h, LineSet)
  BY DEF Measure
<1>2. PICK a, b, c : a = OnDays(f, days) /\ b = OnDays(g, days) /\ c = OnDays(h, days)
  OBVIOUS
<1>3. Measure(a, EntrySet) /\ Measure(b, EntrySet)
  BY <1>2, OnDaysMeasure
<1>4. ASSUME NEW e \in EntrySet PROVE c[e] = a[e] + b[e]
  <2>1. e.lines \in Seq(LineSet)
    BY DEF EntrySet
  <2>2. SumOver(h, e.lines) = SumOver(f, e.lines) + SumOver(g, e.lines)
    BY <2>1, OverPlus
  <2>3. /\ a[e] = IF e.day \in days THEN SumOver(f, e.lines) ELSE 0
        /\ b[e] = IF e.day \in days THEN SumOver(g, e.lines) ELSE 0
        /\ c[e] = IF e.day \in days THEN SumOver(h, e.lines) ELSE 0
    BY <1>2 DEF OnDays
  <2> QED BY <2>2, <2>3
<1>5. SumOver(c, j) = SumOver(a, j) + SumOver(b, j)
  BY <1>3, <1>4, OverPlus
<1> QED BY <1>2, <1>5 DEF Replayed

\* Days apart are summed apart.
LEMMA ReplayedDays ==
  ASSUME NEW f, Measure(f, LineSet), NEW D, NEW E, D \cap E = {}, NEW j \in Seq(EntrySet)
  PROVE  Replayed(f, D \cup E, j) = Replayed(f, D, j) + Replayed(f, E, j)
<1>1. PICK a, b, c : a = OnDays(f, D) /\ b = OnDays(f, E) /\ c = OnDays(f, D \cup E)
  OBVIOUS
<1>2. Measure(a, EntrySet) /\ Measure(b, EntrySet)
  BY <1>1, OnDaysMeasure
<1>3. ASSUME NEW e \in EntrySet PROVE c[e] = a[e] + b[e]
  <2>1. PICK n : n = SumOver(f, e.lines)
    OBVIOUS
  <2>2. n \in Int
    BY <2>1, OnDaysMeasure
  <2>3. /\ a[e] = IF e.day \in D THEN n ELSE 0
        /\ b[e] = IF e.day \in E THEN n ELSE 0
        /\ c[e] = IF e.day \in D \cup E THEN n ELSE 0
    BY <1>1, <2>1 DEF OnDays
  <2> QED BY <2>2, <2>3
<1>4. SumOver(c, j) = SumOver(a, j) + SumOver(b, j)
  BY <1>2, <1>3, OverPlus
<1> QED BY <1>1, <1>4 DEF Replayed

\* Entries that each come to nothing come to nothing together.
LEMMA ReplayedZero ==
  ASSUME NEW f, NEW days, NEW j \in Seq(EntrySet), \A i \in 1..Len(j) : SumOver(f, j[i].lines) = 0
  PROVE  Replayed(f, days, j) = 0
<1>1. \A i \in 1..Len(j) : j[i] \in EntrySet
  OBVIOUS
<1>2. \A i \in 1..Len(j) : OnDays(f, days)[j[i]] = 0
  BY <1>1 DEF OnDays
<1> QED BY <1>2, OverZero DEF Replayed

\* An entry adds its lines to the sum of its day.
LEMMA ReplayedAppend ==
  ASSUME NEW f, Measure(f, LineSet), NEW days, NEW j \in Seq(EntrySet), NEW e \in EntrySet
  PROVE  Replayed(f, days, Append(j, e))
           = Replayed(f, days, j) + (IF e.day \in days THEN SumOver(f, e.lines) ELSE 0)
<1>1. PICK a : a = OnDays(f, days)
  OBVIOUS
<1>2. Measure(a, EntrySet) /\ a[e] = IF e.day \in days THEN SumOver(f, e.lines) ELSE 0
  BY <1>1, OnDaysMeasure
<1>3. SumOver(a, Append(j, e)) = SumOver(a, j) + a[e]
  BY <1>2, OverAppend
<1> QED BY <1>1, <1>2, <1>3 DEF Replayed

-----------------------------------------------------------------------------
(* The sums the reports read.                                               *)

BaseIn(A) == [l \in LineSet |-> IF l.acct \in A THEN l.base ELSE 0]
MoneyIn(A) == [l \in LineSet |-> IF l.acct \in A THEN l.money ELSE 0]
GramsIn(a, k) == [l \in LineSet |-> IF l.acct = a /\ l.karat = k THEN l.grams ELSE 0]
GramsOf(k) == [l \in LineSet |-> IF l.karat = k THEN l.grams ELSE 0]
CountIn(a) == [l \in LineSet |-> IF l.acct = a THEN 1 ELSE 0]
Bases == [l \in LineSet |-> l.base]

\* Dollars, money, grams and counts of lines are numbers.
LEMMA Measures ==
  /\ \A A : Measure(BaseIn(A), LineSet) /\ Measure(MoneyIn(A), LineSet)
  /\ \A a, k : Measure(GramsIn(a, k), LineSet) /\ Measure(GramsOf(k), LineSet) /\ Measure(CountIn(a), LineSet)
  /\ Measure(Bases, LineSet)
<1>1. \A l \in LineSet : l.base \in Int /\ l.money \in Int /\ l.grams \in Int
  BY DEF LineSet
<1> QED BY <1>1 DEF Measure, BaseIn, MoneyIn, GramsIn, GramsOf, CountIn, Bases

\* A sum over the lines of a document.
LEMMA TotalIs ==
  ASSUME NEW s \in Seq(LineSet)
  PROVE  /\ Total(s, LAMBDA l : l.base) = SumOver(Bases, s)
         /\ \A k : Total(s, LAMBDA l : IF l.karat = k THEN l.grams ELSE 0) = SumOver(GramsOf(k), s)
<1>1. \A i \in DOMAIN s : s[i] \in LineSet
  OBVIOUS
<1>2. [i \in DOMAIN s |-> s[i].base] = [i \in DOMAIN s |-> Bases[s[i]]]
  BY <1>1 DEF Bases
<1>3. ASSUME NEW k
      PROVE  [i \in DOMAIN s |-> IF s[i].karat = k THEN s[i].grams ELSE 0] = [i \in DOMAIN s |-> GramsOf(k)[s[i]]]
  BY <1>1 DEF GramsOf
<1> QED BY <1>2, <1>3 DEF Total, SumOver

\* The sums of the reports, as measures over the journal.
LEMMA NetIs ==
  ASSUME NEW j \in Seq(EntrySet), NEW days
  PROVE  /\ \A A : Net(j, days, A) = Replayed(BaseIn(A), days, j)
         /\ \A A : NetMoney(j, days, A) = Replayed(MoneyIn(A), days, j)
         /\ \A a, k : NetGrams(j, days, a, k) = Replayed(GramsIn(a, k), days, j)
<1>1. ASSUME NEW i \in DOMAIN j PROVE j[i] \in EntrySet /\ \A k \in DOMAIN j[i].lines : j[i].lines[k] \in LineSet
  <2>1. j[i] \in EntrySet
    OBVIOUS
  <2>2. j[i].lines \in Seq(LineSet)
    BY <2>1 DEF EntrySet
  <2> QED BY <2>1, <2>2
<1>2. ASSUME NEW A PROVE Net(j, days, A) = Replayed(BaseIn(A), days, j)
  <2>1. ASSUME NEW i \in DOMAIN j
        PROVE  (IF j[i].day \in days
                THEN SumTo([k \in DOMAIN j[i].lines |->
                              IF j[i].lines[k].acct \in A THEN j[i].lines[k].base ELSE 0], Len(j[i].lines))
                ELSE 0) = OnDays(BaseIn(A), days)[j[i]]
    <3>1. [k \in DOMAIN j[i].lines |-> IF j[i].lines[k].acct \in A THEN j[i].lines[k].base ELSE 0]
            = [k \in DOMAIN j[i].lines |-> BaseIn(A)[j[i].lines[k]]]
      BY <1>1 DEF BaseIn
    <3> QED BY <1>1, <3>1 DEF OnDays, SumOver
  <2> QED BY <2>1 DEF Net, Replay, Total, Replayed, SumOver
<1>3. ASSUME NEW A PROVE NetMoney(j, days, A) = Replayed(MoneyIn(A), days, j)
  <2>1. ASSUME NEW i \in DOMAIN j
        PROVE  (IF j[i].day \in days
                THEN SumTo([k \in DOMAIN j[i].lines |->
                              IF j[i].lines[k].acct \in A THEN j[i].lines[k].money ELSE 0], Len(j[i].lines))
                ELSE 0) = OnDays(MoneyIn(A), days)[j[i]]
    <3>1. [k \in DOMAIN j[i].lines |-> IF j[i].lines[k].acct \in A THEN j[i].lines[k].money ELSE 0]
            = [k \in DOMAIN j[i].lines |-> MoneyIn(A)[j[i].lines[k]]]
      BY <1>1 DEF MoneyIn
    <3> QED BY <1>1, <3>1 DEF OnDays, SumOver
  <2> QED BY <2>1 DEF NetMoney, Replay, Total, Replayed, SumOver
<1>4. ASSUME NEW a, NEW c PROVE NetGrams(j, days, a, c) = Replayed(GramsIn(a, c), days, j)
  <2>1. ASSUME NEW i \in DOMAIN j
        PROVE  (IF j[i].day \in days
                THEN SumTo([k \in DOMAIN j[i].lines |->
                              IF j[i].lines[k].acct = a /\ j[i].lines[k].karat = c THEN j[i].lines[k].grams ELSE 0],
                           Len(j[i].lines))
                ELSE 0) = OnDays(GramsIn(a, c), days)[j[i]]
    <3>1. [k \in DOMAIN j[i].lines |->
             IF j[i].lines[k].acct = a /\ j[i].lines[k].karat = c THEN j[i].lines[k].grams ELSE 0]
            = [k \in DOMAIN j[i].lines |-> GramsIn(a, c)[j[i].lines[k]]]
      BY <1>1 DEF GramsIn
    <3> QED BY <1>1, <3>1 DEF OnDays, SumOver
  <2> QED BY <2>1 DEF NetGrams, Replay, Total, Replayed, SumOver
<1> QED BY <1>2, <1>3, <1>4

-----------------------------------------------------------------------------
(* What the reports of balanced books say of one another.                   *)

\* The sums of the reports are numbers.
LEMMA NetType ==
  ASSUME NEW j \in Seq(EntrySet), NEW days, NEW A
  PROVE  Net(j, days, A) \in Int /\ NetMoney(j, days, A) \in Int
BY NetIs, Measures, ReplayedType

\* Accounts taken together, and days taken together.
LEMMA NetJoin ==
  ASSUME NEW j \in Seq(EntrySet), NEW days, NEW A, NEW B, A \cap B = {}
  PROVE  Net(j, days, A \cup B) = Net(j, days, A) + Net(j, days, B)
<1>1. PICK a, b, c : a = BaseIn(A) /\ b = BaseIn(B) /\ c = BaseIn(A \cup B)
  OBVIOUS
<1>2. \A l \in LineSet : c[l] = a[l] + b[l]
  BY <1>1 DEF BaseIn, LineSet
<1>3. Measure(a, LineSet) /\ Measure(b, LineSet)
  BY <1>1, Measures
<1>4. Replayed(c, days, j) = Replayed(a, days, j) + Replayed(b, days, j)
  BY <1>2, <1>3, ReplayedPlus
<1> QED BY <1>1, <1>4, NetIs

\* What accounts apart hold in the currencies of their lines adds up.
LEMMA MoneyJoin ==
  ASSUME NEW j \in Seq(EntrySet), NEW days, NEW A, NEW B, A \cap B = {}
  PROVE  NetMoney(j, days, A \cup B) = NetMoney(j, days, A) + NetMoney(j, days, B)
<1>1. PICK a, b, c : a = MoneyIn(A) /\ b = MoneyIn(B) /\ c = MoneyIn(A \cup B)
  OBVIOUS
<1>2. \A l \in LineSet : c[l] = a[l] + b[l]
  BY <1>1 DEF MoneyIn, LineSet
<1>3. Measure(a, LineSet) /\ Measure(b, LineSet)
  BY <1>1, Measures
<1>4. Replayed(c, days, j) = Replayed(a, days, j) + Replayed(b, days, j)
  BY <1>2, <1>3, ReplayedPlus
<1> QED BY <1>1, <1>4, NetIs

\* The net of days apart adds up.
LEMMA NetDays ==
  ASSUME NEW j \in Seq(EntrySet), NEW D, NEW E, D \cap E = {}, NEW A
  PROVE  Net(j, D \cup E, A) = Net(j, D, A) + Net(j, E, A)
<1>1. PICK a : a = BaseIn(A)
  OBVIOUS
<1>2. Replayed(a, D \cup E, j) = Replayed(a, D, j) + Replayed(a, E, j)
  BY <1>1, Measures, ReplayedDays
<1> QED BY <1>1, <1>2, NetIs

\* Every entry of the journal went through validate_balanced.
Balanced(j) == j \in Seq(EntrySet) /\ \A i \in 1..Len(j) : Valid(j[i].lines)

\* The trial balance balances.
LEMMA TrialBalance == ASSUME NEW j, Balanced(j), NEW days PROVE TrialBalanced(j, days)
<1>1. j \in Seq(EntrySet)
  BY DEF Balanced
<1>2. ASSUME NEW i \in 1..Len(j)
      PROVE  j[i].lines \in Seq(LineSet) /\ SumOver(Bases, j[i].lines) = 0
             /\ \A k \in DOMAIN Karats : SumOver(GramsOf(Karats[k]), j[i].lines) = 0
  <2>1. j[i].lines \in Seq(LineSet)
    <3>1. j[i] \in EntrySet
      BY <1>1
    <3> QED BY <3>1 DEF EntrySet
  <2>2. Valid(j[i].lines)
    BY DEF Balanced
  <2>3. /\ Total(j[i].lines, LAMBDA l : l.base) = 0
        /\ \A k \in DOMAIN Karats : Total(j[i].lines, LAMBDA l : IF l.karat = Karats[k] THEN l.grams ELSE 0) = 0
    BY <2>2 DEF Valid
  <2> QED BY <2>1, <2>3, TotalIs
<1>3. Net(j, days, Accounts) = 0
  <2>1. BaseIn(Accounts) = Bases
    BY DEF BaseIn, Bases, LineSet
  <2>2. Replayed(Bases, days, j) = 0
    BY <1>1, <1>2, ReplayedZero
  <2> QED BY <1>1, <2>1, <2>2, NetIs
<1>4. ASSUME NEW k \in DOMAIN Karats
      PROVE  Replay(j, days, LAMBDA l : IF l.karat = Karats[k] THEN l.grams ELSE 0) = 0
  <2>2. \A i \in 1..Len(j) : SumOver(GramsOf(Karats[k]), j[i].lines) = 0
    BY <1>2
  <2>3. Replayed(GramsOf(Karats[k]), days, j) = 0
    BY <1>1, <2>2, ReplayedZero
  <2>4. ASSUME NEW i \in DOMAIN j
        PROVE  (IF j[i].day \in days
                THEN SumTo([n \in DOMAIN j[i].lines |->
                              IF j[i].lines[n].karat = Karats[k] THEN j[i].lines[n].grams ELSE 0], Len(j[i].lines))
                ELSE 0) = OnDays(GramsOf(Karats[k]), days)[j[i]]
    <3>1. j[i] \in EntrySet
      BY <1>1
    <3>2. j[i].lines \in Seq(LineSet)
      BY <3>1 DEF EntrySet
    <3>3. [n \in DOMAIN j[i].lines |-> IF j[i].lines[n].karat = Karats[k] THEN j[i].lines[n].grams ELSE 0]
            = [n \in DOMAIN j[i].lines |-> GramsOf(Karats[k])[j[i].lines[n]]]
      BY <3>2 DEF GramsOf
    <3> QED BY <3>1, <3>3 DEF OnDays, SumOver
  <2>5. Replay(j, days, LAMBDA l : IF l.karat = Karats[k] THEN l.grams ELSE 0) = Replayed(GramsOf(Karats[k]), days, j)
    BY <2>4 DEF Replay, Total, Replayed, SumOver
  <2> QED BY <2>3, <2>5
<1> QED BY <1>3, <1>4 DEF TrialBalanced

\* The balance sheet balances: what is not an asset is owed, owned or earned.
LEMMA BalanceSheet == ASSUME NEW j, Balanced(j), NEW days PROVE SheetBalanced(j, days)
<1>1. j \in Seq(EntrySet)
  BY DEF Balanced
<1>2. PICK A, B, C : A = Assets /\ B = Liabilities \cup Equity /\ C = Income \cup Expenses
  OBVIOUS
<1>3. A \cap B = {} /\ (A \cup B) \cap C = {} /\ Accounts = (A \cup B) \cup C
  BY <1>2 DEF Accounts, Assets, CashKeys, Liabilities, Equity, Income, Expenses
<1>4. Net(j, days, (A \cup B) \cup C) = Net(j, days, A \cup B) + Net(j, days, C)
  BY <1>1, <1>3, NetJoin
<1>5. Net(j, days, A \cup B) = Net(j, days, A) + Net(j, days, B)
  BY <1>1, <1>3, NetJoin
<1>6. Net(j, days, Accounts) = 0
  BY TrialBalance DEF TrialBalanced
<1>7. PICK a, b, c : a = Net(j, days, A) /\ b = Net(j, days, B) /\ c = Net(j, days, C)
  OBVIOUS
<1>8. a \in Int /\ b \in Int /\ c \in Int
  BY <1>1, <1>7, NetType
<1>9. (a + b) + c = 0
  BY <1>3, <1>4, <1>5, <1>6, <1>7
<1>10. a = -b + -c
  BY <1>8, <1>9
<1> QED BY <1>2, <1>7, <1>10 DEF SheetBalanced, CurrentEarnings

\* The income statement of any days is what the balance sheet calls earnings.
LEMMA ProfitIsEarnings ==
  ASSUME NEW j \in Seq(EntrySet), NEW days
  PROVE  NetProfit(j, days) = CurrentEarnings(j, days) /\ CurrentEarnings(j, days) \in Int
<1>1. PICK R, G, X, O : /\ R = Income \ OtherKeys /\ G = Expenses \cap CogsKeys
                        /\ X = Expenses \ (CogsKeys \cup OtherKeys) /\ O = OtherKeys
  OBVIOUS
<1>2. /\ R \cap G = {} /\ (R \cup G) \cap X = {} /\ ((R \cup G) \cup X) \cap O = {}
      /\ Income \cup Expenses = ((R \cup G) \cup X) \cup O
  BY <1>1 DEF Income, Expenses, OtherKeys, CogsKeys
<1>3. Net(j, days, R \cup G) = Net(j, days, R) + Net(j, days, G)
  BY <1>2, NetJoin
<1>4. Net(j, days, (R \cup G) \cup X) = Net(j, days, R \cup G) + Net(j, days, X)
  BY <1>2, NetJoin
<1>5. Net(j, days, ((R \cup G) \cup X) \cup O) = Net(j, days, (R \cup G) \cup X) + Net(j, days, O)
  BY <1>2, NetJoin
<1>6. PICK r, g, x, o : /\ r = Net(j, days, R) /\ g = Net(j, days, G) /\ x = Net(j, days, X)
                        /\ o = Net(j, days, O)
  OBVIOUS
<1>7. r \in Int /\ g \in Int /\ x \in Int /\ o \in Int
  BY <1>6, NetType
<1>8. Net(j, days, Income \cup Expenses) = ((r + g) + x) + o
  BY <1>2, <1>3, <1>4, <1>5, <1>6
<1>9. NetProfit(j, days) = ((-r) - g - x) + (-o)
  BY <1>1, <1>6 DEF NetProfit
<1>10. PICK n, e : n = NetProfit(j, days) /\ e = CurrentEarnings(j, days)
  OBVIOUS
<1>11. n = ((-r) - g - x) + (-o) /\ e = -(((r + g) + x) + o)
  BY <1>8, <1>9, <1>10 DEF CurrentEarnings
<1>12. n = e /\ e \in Int
  BY <1>7, <1>11
<1> QED BY <1>10, <1>12

\* Cash is in dollars, whatever it is counted in, unless it is in pounds.
LEMMA CashFlow ==
  ASSUME NEW j \in Seq(EntrySet), NEW before, NEW days, before \cap days = {},
         NetMoney(j, days, {"CASH_LBP"}) = Net(j, days, {"CASH_LBP"})
  PROVE  CashFlowReconciles(j, before, days)
<1>1. PICK P, D : P = {"CASH_LBP"} /\ D = CashKeys \ {"CASH_LBP"}
  OBVIOUS
<1>2. P \cap D = {} /\ P \cup D = CashKeys
  BY <1>1 DEF CashKeys
<1>3. BaseIn(D) = MoneyIn(D)
  BY <1>1 DEF BaseIn, MoneyIn, LineSet
<1>4. NetMoney(j, days, D) = Net(j, days, D)
  BY <1>3, NetIs
<1>5. NetMoney(j, days, P \cup D) = NetMoney(j, days, P) + NetMoney(j, days, D)
  BY <1>2, MoneyJoin
<1>6. Net(j, days, P \cup D) = Net(j, days, P) + Net(j, days, D)
  BY <1>2, NetJoin
<1>7. Net(j, before \cup days, CashKeys) = Net(j, before, CashKeys) + Net(j, days, CashKeys)
  BY NetDays
<1> QED BY <1>1, <1>2, <1>4, <1>5, <1>6, <1>7 DEF CashFlowReconciles

\* Books of entries that balance agree with one another.
LEMMA BooksAgree == ASSUME Balanced(journal), today \in Nat PROVE StatementsAgree
<1>1. PICK j : j = journal
  OBVIOUS
<1>2. j \in Seq(EntrySet) /\ Balanced(j)
  BY <1>1 DEF Balanced
<1>3. TrialBalanced(j, 1..today) /\ SheetBalanced(j, 1..today)
  BY <1>2, TrialBalance, BalanceSheet
<1>4. ASSUME NEW from \in 1..today, NEW before, NEW days, before = 1..(from - 1), days = from..today
      PROVE  /\ NetProfit(j, before) + NetProfit(j, days) = CurrentEarnings(j, 1..today)
             /\ VatDue(j, before) + VatDue(j, days) = VatDue(j, 1..today)
             /\ NetMoney(j, days, {"CASH_LBP"}) # Net(j, days, {"CASH_LBP"}) \/ CashFlowReconciles(j, before, days)
  <2>1. before \cap days = {} /\ before \cup days = 1..today
    BY <1>4
  <2>2. ASSUME NEW A
        PROVE  /\ Net(j, 1..today, A) = Net(j, before, A) + Net(j, days, A)
               /\ Net(j, before, A) \in Int /\ Net(j, days, A) \in Int
    <3>1. Net(j, before \cup days, A) = Net(j, before, A) + Net(j, days, A)
      BY <1>2, <2>1, NetDays
    <3> QED BY <1>2, <2>1, <3>1, NetType
  <2>3. NetProfit(j, before) + NetProfit(j, days) = CurrentEarnings(j, 1..today)
    <3>1. NetProfit(j, before) = CurrentEarnings(j, before) /\ NetProfit(j, days) = CurrentEarnings(j, days)
      BY <1>2, ProfitIsEarnings
    <3>2. PICK a, b : a = Net(j, before, Income \cup Expenses) /\ b = Net(j, days, Income \cup Expenses)
      OBVIOUS
    <3>3. a \in Int /\ b \in Int /\ Net(j, 1..today, Income \cup Expenses) = a + b
      BY <2>2, <3>2
    <3>4. CurrentEarnings(j, before) = -a /\ CurrentEarnings(j, days) = -b
          /\ CurrentEarnings(j, 1..today) = -(a + b)
      BY <3>2, <3>3 DEF CurrentEarnings
    <3> QED BY <3>1, <3>3, <3>4
  <2>4. VatDue(j, before) + VatDue(j, days) = VatDue(j, 1..today)
    <3>1. PICK a, b, c, d : /\ a = Net(j, before, {"VAT_PAYABLE"}) /\ b = Net(j, days, {"VAT_PAYABLE"})
                            /\ c = Net(j, before, {"VAT_RECEIVABLE"}) /\ d = Net(j, days, {"VAT_RECEIVABLE"})
      OBVIOUS
    <3>2. /\ a \in Int /\ b \in Int /\ c \in Int /\ d \in Int
          /\ Net(j, 1..today, {"VAT_PAYABLE"}) = a + b /\ Net(j, 1..today, {"VAT_RECEIVABLE"}) = c + d
      BY <2>2, <3>1
    <3>3. VatDue(j, before) = -a - c /\ VatDue(j, days) = -b - d /\ VatDue(j, 1..today) = -(a + b) - (c + d)
      BY <3>1, <3>2 DEF VatDue
    <3> QED BY <3>2, <3>3
  <2> QED BY <1>2, <2>1, <2>3, <2>4, CashFlow
<1> QED BY <1>1, <1>3, <1>4 DEF StatementsAgree, PoundsMoved

-----------------------------------------------------------------------------
(* Products and roundings.                                                  *)

\* A product of numbers that are not below zero is not below zero.
LEMMA TimesNat == ASSUME NEW a \in Nat, NEW b \in Nat PROVE a * b \in Nat
OBVIOUS

\* A product keeps the order of its factors.
LEMMA TimesAtMost ==
  ASSUME NEW a \in Int, NEW b \in Int, NEW c \in Nat, a <= b
  PROVE  a * c <= b * c
OBVIOUS

\* Division with a rest.
LEMMA DivRest ==
  ASSUME NEW n \in Int, NEW d \in Nat \ {0}
  PROVE  \E q, r \in Int : /\ q = n \div d /\ r = n % d
                           /\ n = d * q + r /\ 0 <= r /\ r < d
OBVIOUS

\* Rounding: to a whole number, no further off than half, never below zero
\* from above, and not at all where there is nothing to round.
LEMMA Rounded ==
  ASSUME NEW n \in Int, NEW d \in Nat \ {0}
  PROVE  \E h \in Int : /\ h = HalfEven(n, d)
                        /\ 2 * (d * h) <= 2 * n + d /\ 2 * n - d <= 2 * (d * h)
<1>1. PICK q, r \in Int : /\ q = n \div d /\ r = n % d /\ n = d * q + r /\ 0 <= r /\ r < d
  BY DivRest
<1>2. HalfEven(n, d) \in {q, q + 1}
      /\ (HalfEven(n, d) = q => 2 * r <= d) /\ (HalfEven(n, d) = q + 1 => 2 * r >= d)
  BY <1>1 DEF HalfEven
<1>3. d * (q + 1) = d * q + d
  BY <1>1
<1>4. PICK m \in Int : m = d * q
  BY <1>1
<1>5. CASE HalfEven(n, d) = q
  BY <1>1, <1>2, <1>4, <1>5
<1>6. CASE HalfEven(n, d) = q + 1
  BY <1>1, <1>2, <1>3, <1>4, <1>6
<1> QED BY <1>2, <1>5, <1>6

\* Rounding does not go below zero.
LEMMA RoundedNat ==
  ASSUME NEW n \in Nat, NEW d \in Nat \ {0}
  PROVE  HalfEven(n, d) \in Nat
<1>1. PICK h \in Int : /\ h = HalfEven(n, d) /\ 2 * n - d <= 2 * (d * h)
  BY Rounded
<1>2. ASSUME h <= -1 PROVE FALSE
  <2>1. h * d <= (-1) * d
    BY <1>2, TimesAtMost
  <2> QED BY <1>1, <2>1
<1> QED BY <1>1, <1>2

\* What is whole, or nothing, is not rounded.
LEMMA RoundedExact ==
  /\ \A n \in Int : HalfEven(n, 1) = n
  /\ \A d \in Nat \ {0} : HalfEven(0, d) = 0
<1>1. \A n \in Int : n \div 1 = n /\ n % 1 = 0
  OBVIOUS
<1>2. \A d \in Nat \ {0} : 0 \div d = 0 /\ 0 % d = 0
  OBVIOUS
<1> QED BY <1>1, <1>2 DEF HalfEven

-----------------------------------------------------------------------------
(* What the lines of a document add up to.                                  *)

\* The lines s are lines of the books, and f adds up to a over them.
AddsUp(f, s, a) == s \in Seq(LineSet) /\ a \in Int /\ SumOver(f, s) = a

\* A line in dollars, of an account without grams.
LEMMA UsdLine ==
  ASSUME NEW acct \in Accounts, NEW amount \in Int
  PROVE  /\ Usd(acct, amount) \in LineSet
         /\ Usd(acct, amount).acct = acct /\ Usd(acct, amount).base = amount
         /\ Usd(acct, amount).grams = 0 /\ Usd(acct, amount).karat = NONE
BY DEF Usd, Line, LineSet

\* A line of metal.
LEMMA MetalLine ==
  ASSUME NEW acct \in Dual, NEW cost \in Int, NEW grams \in Int, NEW k \in KaratSet
  PROVE  /\ Metal(acct, cost, grams, k) \in LineSet
         /\ Metal(acct, cost, grams, k).acct = acct /\ Metal(acct, cost, grams, k).base = cost
         /\ Metal(acct, cost, grams, k).grams = grams /\ Metal(acct, cost, grams, k).karat = k
<1>1. k # NONE
  BY CatalogueAssumption
<1>2. acct \in Accounts /\ acct \notin CashKeys
  BY DEF Dual, Accounts, Assets, Liabilities, Equity, Income, Expenses, CashKeys
<1> QED BY <1>1, <1>2 DEF Metal, Line, LineSet

\* One line adds up to its own measure.
LEMMA AddsOne ==
  ASSUME NEW f, Measure(f, LineSet), NEW l \in LineSet
  PROVE  AddsUp(f, <<l>>, f[l])
BY OverOne DEF AddsUp

\* No line adds up to nothing.
LEMMA AddsNone == ASSUME NEW f PROVE AddsUp(f, <<>>, 0)
BY OverEmpty DEF AddsUp

\* Lines in a row add up to the sum.
LEMMA AddsJoin ==
  ASSUME NEW f, Measure(f, LineSet), NEW s, NEW t, NEW a, NEW b, AddsUp(f, s, a), AddsUp(f, t, b)
  PROVE  AddsUp(f, s \o t, a + b)
BY OverConcat DEF AddsUp

\* Two lines.
LEMMA AddsTwo ==
  ASSUME NEW f, Measure(f, LineSet), NEW l \in LineSet, NEW m \in LineSet
  PROVE  AddsUp(f, <<l, m>>, f[l] + f[m])
<1>1. <<l, m>> = Append(<<l>>, m)
  OBVIOUS
<1>2. <<l>> \in Seq(LineSet) /\ SumOver(f, <<l>>) = f[l] /\ f[l] \in Int
  BY OverOne
<1>3. Append(<<l>>, m) \in Seq(LineSet) /\ SumOver(f, Append(<<l>>, m)) = f[l] + f[m]
  <2>1. PICK s : s = <<l>>
    OBVIOUS
  <2>2. s \in Seq(LineSet) /\ SumOver(f, s) = f[l]
    BY <1>2, <2>1
  <2>3. Append(s, m) \in Seq(LineSet) /\ SumOver(f, Append(s, m)) = SumOver(f, s) + f[m]
    BY <2>2, OverAppend
  <2> QED BY <2>1, <2>2, <2>3
<1>4. f[m] \in Int
  BY DEF Measure
<1>5. PICK t, x : t = <<l, m>> /\ x = f[l] + f[m]
  OBVIOUS
<1>6. x \in Int
  BY <1>2, <1>4, <1>5
<1>7. t \in Seq(LineSet) /\ SumOver(f, t) = x
  BY <1>1, <1>3, <1>5
<1>8. AddsUp(f, t, x)
  BY <1>6, <1>7 DEF AddsUp
<1> QED BY <1>5, <1>8

\* A line that is left out adds nothing.
LEMMA AddsWhen ==
  ASSUME NEW f, Measure(f, LineSet), NEW l \in LineSet, NEW c \in BOOLEAN
  PROVE  AddsUp(f, When(c, l), IF c THEN f[l] ELSE 0)
<1>1. CASE c
  BY <1>1, AddsOne DEF When
<1>2. CASE ~c
  BY <1>2, AddsNone DEF When
<1> QED BY <1>1, <1>2

\* A block of lines for each karat.
LEMMA AddsKarats ==
  ASSUME NEW f, Measure(f, LineSet), NEW ss, DOMAIN ss = DOMAIN Karats, ss \in Seq(Seq(LineSet)),
         NEW a, NEW b, AddsUp(f, ss[1], a), AddsUp(f, ss[2], b)
  PROVE  AddsUp(f, FlattenSeq(ss), a + b)
<1>1. Len(ss) = 2 /\ DOMAIN ss = 1..2
  BY DEF Karats
<1>2. PICK v : v = [i \in 1..Len(ss) |-> SumOver(f, ss[i])]
  OBVIOUS
<1>3. FlattenSeq(ss) \in Seq(LineSet) /\ SumOver(f, FlattenSeq(ss)) = SumTo(v, 2)
  BY <1>1, <1>2, OverFlatten
<1>4. v[1] = a /\ v[2] = b /\ a \in Int /\ b \in Int
  BY <1>1, <1>2 DEF AddsUp
<1>5. SumTo(v, 0 + 1) = SumTo(v, 0) + v[0 + 1]
  <2>1. \A i \in 1..(0 + 1) : v[i] \in Int
    BY <1>4
  <2> QED BY <2>1, RowStep
<1>6. SumTo(v, 1 + 1) = SumTo(v, 1) + v[1 + 1]
  <2>1. \A i \in 1..(1 + 1) : v[i] \in Int
    <3>1. \A i \in 1..(1 + 1) : i = 1 \/ i = 2
      OBVIOUS
    <3> QED BY <1>4, <3>1
  <2> QED BY <2>1, RowStep
<1>7. SumTo(v, 2) = a + b
  BY <1>4, <1>5, <1>6, RowEmpty
<1> QED BY <1>3, <1>4, <1>7 DEF AddsUp

\* What a line in dollars and a line of metal count for in each sum.
LEMMA OfUsd ==
  ASSUME NEW acct \in Accounts, NEW amount \in Int
  PROVE  /\ Bases[Usd(acct, amount)] = amount
         /\ \A k \in KaratSet : GramsOf(k)[Usd(acct, amount)] = 0
         /\ \A A : BaseIn(A)[Usd(acct, amount)] = IF acct \in A THEN amount ELSE 0
         /\ \A a : \A k \in KaratSet : GramsIn(a, k)[Usd(acct, amount)] = 0
         /\ \A a : CountIn(a)[Usd(acct, amount)] = IF acct = a THEN 1 ELSE 0
<1>1. PICK l : l = Usd(acct, amount)
  OBVIOUS
<1>2. l \in LineSet /\ l.acct = acct /\ l.base = amount /\ l.grams = 0
  BY <1>1, UsdLine
<1>3. /\ Bases[l] = amount
      /\ \A k \in KaratSet : GramsOf(k)[l] = 0
  BY <1>2 DEF Bases, GramsOf
<1>4. /\ \A A : BaseIn(A)[l] = IF acct \in A THEN amount ELSE 0
      /\ \A a : \A k \in KaratSet : GramsIn(a, k)[l] = 0
      /\ \A a : CountIn(a)[l] = IF acct = a THEN 1 ELSE 0
  BY <1>2 DEF BaseIn, GramsIn, CountIn
<1> QED BY <1>1, <1>3, <1>4

\* What a line of gold measures.
LEMMA OfMetal ==
  ASSUME NEW acct \in Dual, NEW cost \in Int, NEW grams \in Int, NEW karat \in KaratSet
  PROVE  /\ Bases[Metal(acct, cost, grams, karat)] = cost
         /\ \A k : GramsOf(k)[Metal(acct, cost, grams, karat)] = IF k = karat THEN grams ELSE 0
         /\ \A A : BaseIn(A)[Metal(acct, cost, grams, karat)] = IF acct \in A THEN cost ELSE 0
         /\ \A a, k : GramsIn(a, k)[Metal(acct, cost, grams, karat)] = IF a = acct /\ k = karat THEN grams ELSE 0
         /\ \A a : CountIn(a)[Metal(acct, cost, grams, karat)] = IF acct = a THEN 1 ELSE 0
<1>1. PICK l : l = Metal(acct, cost, grams, karat)
  OBVIOUS
<1>2. l \in LineSet /\ l.acct = acct /\ l.base = cost /\ l.grams = grams /\ l.karat = karat
  BY <1>1, MetalLine
<1>3. /\ Bases[l] = cost
      /\ \A k : GramsOf(k)[l] = IF k = karat THEN grams ELSE 0
  BY <1>2 DEF Bases, GramsOf
<1>4. /\ \A A : BaseIn(A)[l] = IF acct \in A THEN cost ELSE 0
      /\ \A a, k : GramsIn(a, k)[l] = IF a = acct /\ k = karat THEN grams ELSE 0
      /\ \A a : CountIn(a)[l] = IF acct = a THEN 1 ELSE 0
  BY <1>2 DEF BaseIn, GramsIn, CountIn
<1> QED BY <1>1, <1>3, <1>4

\* What a document must add up to to be let in.
LEMMA LetIn ==
  ASSUME NEW s, s # <<>>, AddsUp(Bases, s, 0), \A k \in KaratSet : AddsUp(GramsOf(k), s, 0)
  PROVE  s \in Seq(LineSet) /\ Valid(s)
<1>1. s \in Seq(LineSet) /\ SumOver(Bases, s) = 0 /\ \A k \in KaratSet : SumOver(GramsOf(k), s) = 0
  BY DEF AddsUp, KaratSet
<1>2. \A i \in DOMAIN Karats : Karats[i] \in KaratSet
  BY DEF Karats, KaratSet
<1>3. \A i \in DOMAIN s : s[i] \in LineSet
  BY <1>1
<1>4. \A i \in DOMAIN s : s[i].grams # 0 => s[i].acct \in Dual /\ s[i].karat # NONE
  BY <1>3 DEF LineSet
<1> QED BY <1>1, <1>2, <1>4, TotalIs DEF Valid

\* A document with something before or after it says something.
LEMMA SomethingSaid ==
  ASSUME NEW s \in Seq(LineSet), NEW t \in Seq(LineSet), s # <<>> \/ t # <<>>
  PROVE  s \o t # <<>> /\ s \o t \in Seq(LineSet)
<1>1. Len(s \o t) = Len(s) + Len(t) /\ Len(s) \in Nat /\ Len(t) \in Nat
  OBVIOUS
<1>2. Len(s) > 0 \/ Len(t) > 0
  BY EmptySeq
<1>3. Len(s \o t) > 0
  BY <1>1, <1>2
<1> QED BY <1>3, EmptySeq

-----------------------------------------------------------------------------
(* Deliveries, and what else the suppliers and the stock write.             *)

DeliverySet == [due : Nat, paid : Nat, stone : Nat, gold : ByKarat, drawn : ByKarat, worth : ByKarat]
ScrapSet == [karat : KaratSet, grams : Nat, cost : Nat]

\* The accounts a document of the suppliers or the stock may touch.
LEMMA Chart ==
  /\ {"PRODUCT_INVENTORY", "STONE_INVENTORY", "AP", "CASH", "ADJUSTMENT_EXPENSE", "CASH_LBP", "AR", "VENDOR_AP",
      "SALES_REVENUE", "MAKING_CHARGE_REVENUE", "SALES_DISCOUNTS", "VAT_PAYABLE", "VAT_RECEIVABLE",
      "STONE_COGS", "CREDIT_CARD_CLEARING", "RENT_EXPENSE", "FX_GAIN", "FX_LOSS"} \subseteq Accounts
  /\ {"METAL_INVENTORY", "METAL_AP", "METAL_COGS", "METAL_CLEARING"} \subseteq Dual
  /\ Dual \subseteq Accounts
BY DEF Accounts, Assets, CashKeys, Liabilities, Equity, Income, Expenses, Dual

\* What a delivery of gold adds, karat by karat.
GoldOf(p, k) == p.gold[k] - p.drawn[k]
WorthOf(p, k) == HalfEven(p.worth[k] * GoldOf(p, k), p.gold[k])
GoldLines(p) ==
  [i \in DOMAIN Karats |->
     IF GoldOf(p, Karats[i]) <= 0 THEN <<>>
     ELSE <<Metal("METAL_INVENTORY", WorthOf(p, Karats[i]), GoldOf(p, Karats[i]), Karats[i]),
            Metal("METAL_AP", -WorthOf(p, Karats[i]), -GoldOf(p, Karats[i]), Karats[i])>>]
StoneOf(p) == IF p.stone > p.due THEN 0 ELSE p.stone

\* The lines of a delivery, written as one row.
LEMMA DeliveryParts ==
  ASSUME NEW p
  PROVE  DeliveryLines(p) =
           (((When(p.due - StoneOf(p) > 0, Usd("PRODUCT_INVENTORY", p.due - StoneOf(p)))
             \o When(p.due > 0 /\ StoneOf(p) > 0, Usd("STONE_INVENTORY", StoneOf(p))))
             \o When(p.due - p.paid > 0, Usd("AP", p.paid - p.due)))
             \o When(p.paid > 0, Usd("CASH", -p.paid)))
             \o FlattenSeq(GoldLines(p))
BY DEF DeliveryLines, GoldLines, GoldOf, WorthOf, StoneOf

\* The lines of the grams of one karat of a delivery.
LEMMA GoldAdds ==
  ASSUME NEW p \in DeliverySet, \A k \in KaratSet : p.drawn[k] <= p.gold[k],
         NEW f, Measure(f, LineSet), NEW k \in KaratSet
  PROVE  /\ GoldOf(p, k) \in Nat
         /\ GoldOf(p, k) > 0 => /\ WorthOf(p, k) \in Int
              /\ AddsUp(f, <<Metal("METAL_INVENTORY", WorthOf(p, k), GoldOf(p, k), k),
                           Metal("METAL_AP", -WorthOf(p, k), -GoldOf(p, k), k)>>,
                      f[Metal("METAL_INVENTORY", WorthOf(p, k), GoldOf(p, k), k)]
                      + f[Metal("METAL_AP", -WorthOf(p, k), -GoldOf(p, k), k)])
<1>1. PICK g, w : g = GoldOf(p, k) /\ w = WorthOf(p, k)
  OBVIOUS
<1>2. p.gold[k] \in Nat /\ p.drawn[k] \in Nat /\ p.worth[k] \in Nat /\ p.drawn[k] <= p.gold[k]
  BY DEF DeliverySet, ByKarat
<1>3. g = p.gold[k] - p.drawn[k] /\ g \in Nat
  BY <1>1, <1>2 DEF GoldOf
<1>4. ASSUME g > 0 PROVE w \in Int
  <2>1. p.gold[k] \in Nat \ {0}
    BY <1>2, <1>3, <1>4
  <2>2. p.worth[k] * g \in Nat
    BY <1>2, <1>3, TimesNat
  <2>3. HalfEven(p.worth[k] * g, p.gold[k]) \in Nat
    BY <2>1, <2>2, RoundedNat
  <2> QED BY <1>1, <2>3 DEF WorthOf
<1>5. ASSUME g > 0
      PROVE  AddsUp(f, <<Metal("METAL_INVENTORY", w, g, k), Metal("METAL_AP", -w, -g, k)>>,
                  f[Metal("METAL_INVENTORY", w, g, k)] + f[Metal("METAL_AP", -w, -g, k)])
  <2>1. -w \in Int /\ -g \in Int /\ w \in Int /\ g \in Int
    BY <1>3, <1>4, <1>5
  <2>2. Metal("METAL_INVENTORY", w, g, k) \in LineSet /\ Metal("METAL_AP", -w, -g, k) \in LineSet
    BY <2>1, MetalLine, Chart
  <2> QED BY <2>2, AddsTwo
<1> QED BY <1>1, <1>3, <1>4, <1>5

IfGold(f, p, k) ==
  IF GoldOf(p, k) > 0
  THEN f[Metal("METAL_INVENTORY", WorthOf(p, k), GoldOf(p, k), k)]
       + f[Metal("METAL_AP", -WorthOf(p, k), -GoldOf(p, k), k)]
  ELSE 0
DeliverySum(f, p) ==
  ((((IF p.due - StoneOf(p) > 0 THEN f[Usd("PRODUCT_INVENTORY", p.due - StoneOf(p))] ELSE 0)
     + (IF p.due > 0 /\ StoneOf(p) > 0 THEN f[Usd("STONE_INVENTORY", StoneOf(p))] ELSE 0))
    + (IF p.due - p.paid > 0 THEN f[Usd("AP", p.paid - p.due)] ELSE 0))
   + (IF p.paid > 0 THEN f[Usd("CASH", -p.paid)] ELSE 0))
  + (IfGold(f, p, "K18") + IfGold(f, p, "K21"))

\* What the lines of a delivery add up to, for any measure.
LEMMA DeliveryAdds ==
  ASSUME NEW p \in DeliverySet, p.paid <= p.due, \A k \in KaratSet : p.drawn[k] <= p.gold[k],
         NEW f, Measure(f, LineSet)
  PROVE  AddsUp(f, DeliveryLines(p), DeliverySum(f, p))
<1>1. /\ p.due \in Nat /\ p.paid \in Nat /\ p.stone \in Nat
      /\ StoneOf(p) \in Nat /\ StoneOf(p) <= p.due
  BY DEF DeliverySet, StoneOf
<1>2. /\ Usd("PRODUCT_INVENTORY", p.due - StoneOf(p)) \in LineSet /\ Usd("STONE_INVENTORY", StoneOf(p)) \in LineSet
      /\ Usd("AP", p.paid - p.due) \in LineSet /\ Usd("CASH", -p.paid) \in LineSet
  <2>1. p.due - StoneOf(p) \in Int /\ StoneOf(p) \in Int /\ p.paid - p.due \in Int /\ -p.paid \in Int
    BY <1>1
  <2> QED BY <2>1, UsdLine, Chart
<1>10. AddsUp(f, When(p.due - StoneOf(p) > 0, Usd("PRODUCT_INVENTORY", p.due - StoneOf(p))), IF p.due - StoneOf(p) > 0 THEN f[Usd("PRODUCT_INVENTORY", p.due - StoneOf(p))] ELSE 0)
  <2>1. PICK l, c : l = Usd("PRODUCT_INVENTORY", p.due - StoneOf(p)) /\ c = (p.due - StoneOf(p) > 0)
    OBVIOUS
  <2>2. l \in LineSet /\ c \in BOOLEAN
    BY <1>1, <1>2, <2>1
  <2>3. AddsUp(f, When(c, l), IF c THEN f[l] ELSE 0)
    BY <2>2, AddsWhen
  <2> QED BY <2>1, <2>3
<1>11. AddsUp(f, When(p.due > 0 /\ StoneOf(p) > 0, Usd("STONE_INVENTORY", StoneOf(p))), IF p.due > 0 /\ StoneOf(p) > 0 THEN f[Usd("STONE_INVENTORY", StoneOf(p))] ELSE 0)
  <2>1. PICK l, c : l = Usd("STONE_INVENTORY", StoneOf(p)) /\ c = (p.due > 0 /\ StoneOf(p) > 0)
    OBVIOUS
  <2>2. l \in LineSet /\ c \in BOOLEAN
    BY <1>1, <1>2, <2>1
  <2>3. AddsUp(f, When(c, l), IF c THEN f[l] ELSE 0)
    BY <2>2, AddsWhen
  <2> QED BY <2>1, <2>3
<1>12. AddsUp(f, When(p.due - p.paid > 0, Usd("AP", p.paid - p.due)), IF p.due - p.paid > 0 THEN f[Usd("AP", p.paid - p.due)] ELSE 0)
  <2>1. PICK l, c : l = Usd("AP", p.paid - p.due) /\ c = (p.due - p.paid > 0)
    OBVIOUS
  <2>2. l \in LineSet /\ c \in BOOLEAN
    BY <1>1, <1>2, <2>1
  <2>3. AddsUp(f, When(c, l), IF c THEN f[l] ELSE 0)
    BY <2>2, AddsWhen
  <2> QED BY <2>1, <2>3
<1>13. AddsUp(f, When(p.paid > 0, Usd("CASH", -p.paid)), IF p.paid > 0 THEN f[Usd("CASH", -p.paid)] ELSE 0)
  <2>1. PICK l, c : l = Usd("CASH", -p.paid) /\ c = (p.paid > 0)
    OBVIOUS
  <2>2. l \in LineSet /\ c \in BOOLEAN
    BY <1>1, <1>2, <2>1
  <2>3. AddsUp(f, When(c, l), IF c THEN f[l] ELSE 0)
    BY <2>2, AddsWhen
  <2> QED BY <2>1, <2>3
<1>4. ASSUME NEW i \in DOMAIN Karats PROVE AddsUp(f, GoldLines(p)[i], IfGold(f, p, Karats[i]))
  <2>1. PICK k \in KaratSet : k = Karats[i]
    BY DEF Karats, KaratSet
  <2>4. GoldOf(p, k) \in Nat
    BY GoldAdds
  <2>2. CASE GoldOf(p, k) > 0
    <3>1. ~(GoldOf(p, k) <= 0)
      BY <2>2, <2>4
    <3>2. GoldLines(p)[i] = <<Metal("METAL_INVENTORY", WorthOf(p, k), GoldOf(p, k), k),
                              Metal("METAL_AP", -WorthOf(p, k), -GoldOf(p, k), k)>>
      BY <2>1, <3>1 DEF GoldLines
    <3> QED BY <2>1, <2>2, <3>2, GoldAdds DEF IfGold
  <2>3. CASE ~(GoldOf(p, k) > 0)
    <3>1. GoldOf(p, k) <= 0
      BY <2>3, <2>4
    <3>2. GoldLines(p)[i] = <<>>
      BY <2>1, <3>1 DEF GoldLines
    <3> QED BY <2>1, <2>3, <3>2, AddsNone DEF IfGold
  <2> QED BY <2>2, <2>3
<1>5. AddsUp(f, FlattenSeq(GoldLines(p)), IfGold(f, p, "K18") + IfGold(f, p, "K21"))
  <2>1. PICK ss : ss = GoldLines(p)
    OBVIOUS
  <2>2. DOMAIN ss = DOMAIN Karats /\ DOMAIN Karats = 1..2 /\ Karats[1] = "K18" /\ Karats[2] = "K21"
    BY <2>1 DEF GoldLines, Karats
  <2>3. AddsUp(f, ss[1], IfGold(f, p, "K18")) /\ AddsUp(f, ss[2], IfGold(f, p, "K21"))
    BY <1>4, <2>1, <2>2
  <2>4. \A i \in 1..2 : ss[i] \in Seq(LineSet)
    BY <1>4, <2>1, <2>2 DEF AddsUp
  <2>5. ss = [i \in 1..2 |-> ss[i]]
    BY <2>1, <2>2 DEF GoldLines
  <2>6. ss \in Seq(Seq(LineSet))
    BY <2>4, <2>5
  <2> QED BY <2>1, <2>2, <2>3, <2>6, AddsKarats
<1> QED BY ZenonT(60), <1>5, <1>10, <1>11, <1>12, <1>13, AddsJoin, DeliveryParts DEF DeliverySum

\* f is nothing to the accounts of T.
Elsewhere(f, T) == \A l \in LineSet : l.acct \in T => f[l] = 0

\* The sums of the accounts outside T see nothing of those in T.
LEMMA ElsewhereIs ==
  ASSUME NEW T
  PROVE  /\ \A A : A \cap T = {} => Elsewhere(BaseIn(A), T)
         /\ \A a, k : a \notin T => Elsewhere(GramsIn(a, k), T)
         /\ \A a : a \notin T => Elsewhere(CountIn(a), T)
BY DEF Elsewhere, BaseIn, GramsIn, CountIn

\* A line in dollars is nothing to the other accounts.
LEMMA UsdElsewhere ==
  ASSUME NEW f, NEW T, Elsewhere(f, T), NEW acct \in T, acct \in Accounts, NEW amount \in Int
  PROVE  f[Usd(acct, amount)] = 0
BY UsdLine DEF Elsewhere

\* A line of gold is nothing to the other accounts.
LEMMA MetalElsewhere ==
  ASSUME NEW f, NEW T, Elsewhere(f, T), NEW acct \in T, acct \in Dual, NEW cost \in Int, NEW grams \in Int,
         NEW k \in KaratSet
  PROVE  f[Metal(acct, cost, grams, k)] = 0
BY MetalLine DEF Elsewhere

DeliveryAccounts == {"PRODUCT_INVENTORY", "STONE_INVENTORY", "AP", "CASH", "METAL_INVENTORY", "METAL_AP"}

\* The amounts of a delivery are numbers, none of what it is made of below zero.
LEMMA DeliveryTypes ==
  ASSUME NEW p \in DeliverySet, p.paid <= p.due, \A k \in KaratSet : p.drawn[k] <= p.gold[k]
  PROVE  /\ p.due \in Nat /\ p.paid \in Nat /\ StoneOf(p) \in Nat /\ StoneOf(p) <= p.due
         /\ p.due - StoneOf(p) \in Int /\ p.paid - p.due \in Int /\ -p.paid \in Int /\ StoneOf(p) \in Int
         /\ \A k \in KaratSet : GoldOf(p, k) \in Nat
         /\ \A k \in KaratSet : GoldOf(p, k) > 0 =>
              WorthOf(p, k) \in Int /\ -WorthOf(p, k) \in Int /\ GoldOf(p, k) \in Int /\ -GoldOf(p, k) \in Int
<1>1. /\ p.due \in Nat /\ p.paid \in Nat /\ StoneOf(p) \in Nat /\ StoneOf(p) <= p.due
  BY DEF DeliverySet, StoneOf
<1>2. Measure(Bases, LineSet)
  BY Measures
<1>3. \A k \in KaratSet : GoldOf(p, k) \in Nat /\ (GoldOf(p, k) > 0 => WorthOf(p, k) \in Int)
  BY <1>2, GoldAdds
<1> QED BY <1>1, <1>3

\* Of the suppliers' accounts a delivery changes what is owed, and nothing
\* else of what it does not name.
LEMMA DeliverySums ==
  ASSUME NEW p \in DeliverySet, p.paid <= p.due, \A k \in KaratSet : p.drawn[k] <= p.gold[k]
  PROVE  /\ DeliverySum(Bases, p) = 0
         /\ \A k \in KaratSet : DeliverySum(GramsOf(k), p) = 0
         /\ DeliverySum(BaseIn({"AP"}), p) = p.paid - p.due
         /\ \A k \in KaratSet : DeliverySum(GramsIn("METAL_AP", k), p) = p.drawn[k] - p.gold[k]
<1>1. PICK a, b, c, d : a = p.due - StoneOf(p) /\ b = StoneOf(p) /\ c = p.paid - p.due /\ d = -p.paid
  OBVIOUS
<1>2. /\ p.due \in Nat /\ p.paid \in Nat /\ b \in Nat /\ b <= p.due
      /\ a \in Int /\ c \in Int /\ d \in Int
  BY <1>1, DeliveryTypes
<1>3. ASSUME NEW f
      PROVE  DeliverySum(f, p) = (((IF a > 0 THEN f[Usd("PRODUCT_INVENTORY", a)] ELSE 0)
                                   + (IF p.due > 0 /\ b > 0 THEN f[Usd("STONE_INVENTORY", b)] ELSE 0)
                                   + (IF p.due - p.paid > 0 THEN f[Usd("AP", c)] ELSE 0))
                                  + (IF p.paid > 0 THEN f[Usd("CASH", d)] ELSE 0))
                                 + (IfGold(f, p, "K18") + IfGold(f, p, "K21"))
  BY <1>1 DEF DeliverySum
<1>4. ASSUME NEW f,
             \A acct \in {"PRODUCT_INVENTORY", "STONE_INVENTORY", "AP", "CASH"} : \A n \in Int : f[Usd(acct, n)] = 0
      PROVE  DeliverySum(f, p) = (0 + 0) + (IfGold(f, p, "K18") + IfGold(f, p, "K21"))
  BY <1>2, <1>3, <1>4
<1>5. ASSUME NEW k \in KaratSet
      PROVE  /\ IfGold(Bases, p, k) = 0 /\ IfGold(BaseIn({"AP"}), p, k) = 0
             /\ \A m \in KaratSet : IfGold(GramsOf(m), p, k) = 0
             /\ \A m \in KaratSet : IfGold(GramsIn("METAL_AP", m), p, k) = IF m = k THEN -GoldOf(p, k) ELSE 0
  <2>1. PICK g, w : g = GoldOf(p, k) /\ w = WorthOf(p, k)
    OBVIOUS
  <2>2. g \in Nat /\ (g > 0 => w \in Int /\ -w \in Int /\ g \in Int /\ -g \in Int)
    BY <2>1, DeliveryTypes
  <2>3. CASE g > 0
    <3>1. PICK l, m : l = Metal("METAL_INVENTORY", w, g, k) /\ m = Metal("METAL_AP", -w, -g, k)
      OBVIOUS
    <3>2. /\ Bases[l] = w /\ BaseIn({"AP"})[l] = 0
          /\ \A n \in KaratSet : GramsOf(n)[l] = (IF n = k THEN g ELSE 0) /\ GramsIn("METAL_AP", n)[l] = 0
      BY <2>2, <2>3, <3>1, OfMetal, Chart
    <3>3. /\ Bases[m] = -w /\ BaseIn({"AP"})[m] = 0
          /\ \A n \in KaratSet : GramsOf(n)[m] = (IF n = k THEN -g ELSE 0)
                                 /\ GramsIn("METAL_AP", n)[m] = (IF n = k THEN -g ELSE 0)
      BY <2>2, <2>3, <3>1, OfMetal, Chart
    <3>4. \A f : IfGold(f, p, k) = f[l] + f[m]
      BY <2>1, <2>3, <3>1 DEF IfGold
    <3>5. IfGold(Bases, p, k) = w + -w /\ IfGold(BaseIn({"AP"}), p, k) = 0 + 0
      BY <3>2, <3>3, <3>4
    <3>6. ASSUME NEW n \in KaratSet
          PROVE  IfGold(GramsOf(n), p, k) = 0 /\ IfGold(GramsIn("METAL_AP", n), p, k) = IF n = k THEN -g ELSE 0
      <4>1. IfGold(GramsOf(n), p, k) = (IF n = k THEN g ELSE 0) + (IF n = k THEN -g ELSE 0)
        BY <3>2, <3>3, <3>4
      <4>2. IfGold(GramsIn("METAL_AP", n), p, k) = 0 + (IF n = k THEN -g ELSE 0)
        BY <3>2, <3>3, <3>4
      <4> QED BY <2>2, <4>1, <4>2
    <3>7. w + -w = 0
      BY <2>2, <2>3
    <3> QED BY <2>1, <3>5, <3>6, <3>7
  <2>4. CASE ~(g > 0)
    <3>1. \A f : IfGold(f, p, k) = 0
      BY <2>1, <2>4 DEF IfGold
    <3> QED BY <2>1, <2>2, <2>4, <3>1
  <2> QED BY <2>3, <2>4
<1>6. DeliverySum(Bases, p) = 0
  <2>1. /\ Bases[Usd("PRODUCT_INVENTORY", a)] = a /\ Bases[Usd("STONE_INVENTORY", b)] = b
        /\ Bases[Usd("AP", c)] = c /\ Bases[Usd("CASH", d)] = d
    BY <1>2, OfUsd, Chart
  <2>2. IfGold(Bases, p, "K18") = 0 /\ IfGold(Bases, p, "K21") = 0
    BY <1>5 DEF KaratSet
  <2>3. DeliverySum(Bases, p) = (((IF a > 0 THEN a ELSE 0) + (IF p.due > 0 /\ b > 0 THEN b ELSE 0)
                                  + (IF p.due - p.paid > 0 THEN c ELSE 0)) + (IF p.paid > 0 THEN d ELSE 0)) + (0 + 0)
    BY <1>3, <2>1, <2>2
  <2> QED BY <1>1, <1>2, <2>3
<1>7. DeliverySum(BaseIn({"AP"}), p) = p.paid - p.due
  <2>1. PICK f : f = BaseIn({"AP"})
    OBVIOUS
  <2>2. f[Usd("PRODUCT_INVENTORY", a)] = 0 /\ f[Usd("STONE_INVENTORY", b)] = 0 /\ f[Usd("AP", c)] = c /\ f[Usd("CASH", d)] = 0
    BY <1>2, <2>1, OfUsd, Chart
  <2>3. IfGold(f, p, "K18") = 0 /\ IfGold(f, p, "K21") = 0
    BY <1>5, <2>1 DEF KaratSet
  <2>4. DeliverySum(f, p) = ((0 + 0 + (IF p.due - p.paid > 0 THEN c ELSE 0)) + 0) + (0 + 0)
    BY <1>3, <2>2, <2>3
  <2> QED BY <1>1, <1>2, <2>1, <2>4
<1>8. ASSUME NEW k \in KaratSet
      PROVE  DeliverySum(GramsOf(k), p) = 0 /\ DeliverySum(GramsIn("METAL_AP", k), p) = p.drawn[k] - p.gold[k]
  <2>1. PICK f, h : f = GramsOf(k) /\ h = GramsIn("METAL_AP", k)
    OBVIOUS
  <2>2. \A acct \in {"PRODUCT_INVENTORY", "STONE_INVENTORY", "AP", "CASH"} :
          \A n \in Int : f[Usd(acct, n)] = 0 /\ h[Usd(acct, n)] = 0
    BY <2>1, OfUsd, Chart
  <2>3. DeliverySum(f, p) = (0 + 0) + (IfGold(f, p, "K18") + IfGold(f, p, "K21"))
    BY <1>4, <2>2
  <2>4. DeliverySum(h, p) = (0 + 0) + (IfGold(h, p, "K18") + IfGold(h, p, "K21"))
    BY <1>4, <2>2
  <2>5. "K18" \in KaratSet /\ "K21" \in KaratSet /\ (k = "K18" \/ k = "K21")
    BY DEF KaratSet
  <2>6. IfGold(f, p, "K18") = 0 /\ IfGold(f, p, "K21") = 0
    BY <1>5, <2>1, <2>5
  <2>7. /\ IfGold(h, p, "K18") = IF k = "K18" THEN -GoldOf(p, "K18") ELSE 0
        /\ IfGold(h, p, "K21") = IF k = "K21" THEN -GoldOf(p, "K21") ELSE 0
    BY <1>5, <2>1, <2>5
  <2>8. GoldOf(p, k) = p.gold[k] - p.drawn[k] /\ p.gold[k] \in Nat /\ p.drawn[k] \in Nat
    BY DEF GoldOf, DeliverySet, ByKarat
  <2> QED BY <2>1, <2>3, <2>4, <2>5, <2>6, <2>7, <2>8
<1> QED BY <1>6, <1>7, <1>8

\* A delivery is nothing to the accounts it does not touch.
LEMMA DeliveryElsewhere ==
  ASSUME NEW p \in DeliverySet, p.paid <= p.due, \A k \in KaratSet : p.drawn[k] <= p.gold[k],
         NEW f, Elsewhere(f, DeliveryAccounts)
  PROVE  DeliverySum(f, p) = 0
<1>1. ASSUME NEW acct \in {"PRODUCT_INVENTORY", "STONE_INVENTORY", "AP", "CASH"}, NEW n \in Int
      PROVE  f[Usd(acct, n)] = 0
  BY UsdElsewhere, Chart DEF DeliveryAccounts
<1>2. ASSUME NEW k \in KaratSet PROVE IfGold(f, p, k) = 0
  <2>1. ASSUME GoldOf(p, k) > 0
        PROVE  f[Metal("METAL_INVENTORY", WorthOf(p, k), GoldOf(p, k), k)] = 0
               /\ f[Metal("METAL_AP", -WorthOf(p, k), -GoldOf(p, k), k)] = 0
    <3>1. PICK g, w, h, x : g = GoldOf(p, k) /\ w = WorthOf(p, k) /\ h = -g /\ x = -w
      OBVIOUS
    <3>2. g \in Int /\ w \in Int /\ h \in Int /\ x \in Int
      BY <2>1, <3>1, DeliveryTypes
    <3>3. f[Metal("METAL_INVENTORY", w, g, k)] = 0 /\ f[Metal("METAL_AP", x, h, k)] = 0
      BY <3>2, MetalElsewhere, Chart DEF DeliveryAccounts
    <3> QED BY <3>1, <3>3
  <2> QED BY <2>1 DEF IfGold
<1>3. IfGold(f, p, "K18") = 0 /\ IfGold(f, p, "K21") = 0
  BY <1>2 DEF KaratSet
<1>4. /\ f[Usd("PRODUCT_INVENTORY", p.due - StoneOf(p))] = 0 /\ f[Usd("STONE_INVENTORY", StoneOf(p))] = 0
      /\ f[Usd("AP", p.paid - p.due)] = 0 /\ f[Usd("CASH", -p.paid)] = 0
  BY <1>1, DeliveryTypes
<1> QED BY <1>3, <1>4 DEF DeliverySum

\* Three lines.
LEMMA AddsThree ==
  ASSUME NEW f, Measure(f, LineSet), NEW l \in LineSet, NEW m \in LineSet, NEW n \in LineSet
  PROVE  AddsUp(f, <<l, m, n>>, f[l] + f[m] + f[n])
<1>1. <<l, m, n>> = Append(<<l, m>>, n)
  OBVIOUS
<1>2. PICK s, x : s = <<l, m>> /\ x = f[l] + f[m]
  OBVIOUS
<1>3. s \in Seq(LineSet) /\ SumOver(f, s) = x /\ x \in Int
  BY <1>2, AddsTwo DEF AddsUp
<1>4. PICK t, y : t = Append(s, n) /\ y = x + f[n]
  OBVIOUS
<1>5. t \in Seq(LineSet) /\ SumOver(f, t) = y
  BY <1>3, <1>4, OverAppend
<1>6. y \in Int
  BY <1>3, <1>4 DEF Measure
<1>7. AddsUp(f, t, y)
  BY <1>5, <1>6 DEF AddsUp
<1> QED BY <1>1, <1>2, <1>4, <1>7

\* Four lines.
LEMMA AddsFour ==
  ASSUME NEW f, Measure(f, LineSet), NEW l \in LineSet, NEW m \in LineSet, NEW n \in LineSet, NEW o \in LineSet
  PROVE  AddsUp(f, <<l, m, n, o>>, f[l] + f[m] + f[n] + f[o])
<1>1. <<l, m, n, o>> = Append(<<l, m, n>>, o)
  OBVIOUS
<1>2. PICK s, x : s = <<l, m, n>> /\ x = f[l] + f[m] + f[n]
  OBVIOUS
<1>3. s \in Seq(LineSet) /\ SumOver(f, s) = x /\ x \in Int
  BY <1>2, AddsThree DEF AddsUp
<1>4. PICK t, y : t = Append(s, o) /\ y = x + f[o]
  OBVIOUS
<1>5. t \in Seq(LineSet) /\ SumOver(f, t) = y
  BY <1>3, <1>4, OverAppend
<1>6. y \in Int
  BY <1>3, <1>4 DEF Measure
<1>7. AddsUp(f, t, y)
  BY <1>5, <1>6 DEF AddsUp
<1> QED BY <1>1, <1>2, <1>4, <1>7

\* A document of two, three or four lines that balances is let in.
LEMMA TwoLetIn ==
  ASSUME NEW l \in LineSet, NEW m \in LineSet, Bases[l] + Bases[m] = 0,
         \A k \in KaratSet : GramsOf(k)[l] + GramsOf(k)[m] = 0
  PROVE  <<l, m>> \in Seq(LineSet) /\ Valid(<<l, m>>)
<1>1. PICK s : s = <<l, m>>
  OBVIOUS
<1>2. AddsUp(Bases, s, 0) /\ \A k \in KaratSet : AddsUp(GramsOf(k), s, 0)
  BY <1>1, AddsTwo, Measures
<1>3. s # <<>>
  BY <1>1
<1> QED BY <1>1, <1>2, <1>3, LetIn

\* Three lines that come to no dollars and no grams are let in.
LEMMA ThreeLetIn ==
  ASSUME NEW l \in LineSet, NEW m \in LineSet, NEW n \in LineSet, Bases[l] + Bases[m] + Bases[n] = 0,
         \A k \in KaratSet : GramsOf(k)[l] + GramsOf(k)[m] + GramsOf(k)[n] = 0
  PROVE  <<l, m, n>> \in Seq(LineSet) /\ Valid(<<l, m, n>>)
<1>1. PICK s : s = <<l, m, n>>
  OBVIOUS
<1>2. AddsUp(Bases, s, 0) /\ \A k \in KaratSet : AddsUp(GramsOf(k), s, 0)
  BY <1>1, AddsThree, Measures
<1>3. s # <<>>
  BY <1>1
<1> QED BY <1>1, <1>2, <1>3, LetIn

\* Four lines that come to no dollars and no grams are let in.
LEMMA FourLetIn ==
  ASSUME NEW l \in LineSet, NEW m \in LineSet, NEW n \in LineSet, NEW o \in LineSet,
         Bases[l] + Bases[m] + Bases[n] + Bases[o] = 0,
         \A k \in KaratSet : GramsOf(k)[l] + GramsOf(k)[m] + GramsOf(k)[n] + GramsOf(k)[o] = 0
  PROVE  <<l, m, n, o>> \in Seq(LineSet) /\ Valid(<<l, m, n, o>>)
<1>1. PICK s : s = <<l, m, n, o>>
  OBVIOUS
<1>2. AddsUp(Bases, s, 0) /\ \A k \in KaratSet : AddsUp(GramsOf(k), s, 0)
  BY <1>1, AddsFour, Measures
<1>3. s # <<>>
  BY <1>1
<1> QED BY <1>1, <1>2, <1>3, LetIn

\* A delivery that says anything is let in.
LEMMA DeliveryLetIn ==
  ASSUME NEW p \in DeliverySet, p.paid <= p.due, \A k \in KaratSet : p.drawn[k] <= p.gold[k],
         DeliveryLines(p) # <<>>
  PROVE  DeliveryLines(p) \in Seq(LineSet) /\ Valid(DeliveryLines(p))
<1>1. PICK s : s = DeliveryLines(p)
  OBVIOUS
<1>2. AddsUp(Bases, s, 0) /\ \A k \in KaratSet : AddsUp(GramsOf(k), s, 0)
  BY <1>1, DeliveryAdds, DeliverySums, Measures
<1> QED BY <1>1, <1>2, LetIn

\* The lines s leave the account a alone.
Untouched(s, a) ==
  /\ AddsUp(BaseIn({a}), s, 0) /\ AddsUp(CountIn(a), s, 0)
  /\ \A k \in KaratSet : AddsUp(GramsIn(a, k), s, 0)
AllQuiet(s) == Untouched(s, "AP") /\ Untouched(s, "METAL_AP") /\ Untouched(s, "AR") /\ Untouched(s, "VENDOR_AP")

\* Lines of the accounts of T leave the others alone.
LEMMA QuietIs ==
  ASSUME NEW s, NEW T, \A f : Measure(f, LineSet) /\ Elsewhere(f, T) => AddsUp(f, s, 0), NEW a, a \notin T
  PROVE  Untouched(s, a)
<1>1. {a} \cap T = {}
  OBVIOUS
<1>2. Elsewhere(BaseIn({a}), T) /\ Elsewhere(CountIn(a), T)
  BY <1>1, ElsewhereIs
<1>3. \A k : Elsewhere(GramsIn(a, k), T)
  BY ElsewhereIs
<1> QED BY <1>2, <1>3, Measures DEF Untouched

\* Two lines leave the accounts they do not name alone.
LEMMA TwoQuiet ==
  ASSUME NEW l \in LineSet, NEW m \in LineSet, NEW a, a \notin {l.acct, m.acct}
  PROVE  Untouched(<<l, m>>, a)
<1>1. PICK T : T = {l.acct, m.acct}
  OBVIOUS
<1>2. ASSUME NEW f, Measure(f, LineSet), Elsewhere(f, T) PROVE AddsUp(f, <<l, m>>, 0)
  <2>1. f[l] = 0 /\ f[m] = 0
    BY <1>1, <1>2 DEF Elsewhere
  <2>2. AddsUp(f, <<l, m>>, f[l] + f[m])
    BY <1>2, AddsTwo
  <2> QED BY <2>1, <2>2
<1> QED BY <1>1, <1>2, QuietIs

\* Three lines leave the accounts they do not name alone.
LEMMA ThreeQuiet ==
  ASSUME NEW l \in LineSet, NEW m \in LineSet, NEW n \in LineSet, NEW a, a \notin {l.acct, m.acct, n.acct}
  PROVE  Untouched(<<l, m, n>>, a)
<1>1. PICK T : T = {l.acct, m.acct, n.acct}
  OBVIOUS
<1>2. ASSUME NEW f, Measure(f, LineSet), Elsewhere(f, T) PROVE AddsUp(f, <<l, m, n>>, 0)
  <2>1. f[l] = 0 /\ f[m] = 0 /\ f[n] = 0
    BY <1>1, <1>2 DEF Elsewhere
  <2>2. AddsUp(f, <<l, m, n>>, f[l] + f[m] + f[n])
    BY <1>2, AddsThree
  <2> QED BY <2>1, <2>2
<1> QED BY <1>1, <1>2, QuietIs

\* Four lines leave the accounts they do not name alone.
LEMMA FourQuiet ==
  ASSUME NEW l \in LineSet, NEW m \in LineSet, NEW n \in LineSet, NEW o \in LineSet,
         NEW a, a \notin {l.acct, m.acct, n.acct, o.acct}
  PROVE  Untouched(<<l, m, n, o>>, a)
<1>1. PICK T : T = {l.acct, m.acct, n.acct, o.acct}
  OBVIOUS
<1>2. ASSUME NEW f, Measure(f, LineSet), Elsewhere(f, T) PROVE AddsUp(f, <<l, m, n, o>>, 0)
  <2>1. f[l] = 0 /\ f[m] = 0 /\ f[n] = 0 /\ f[o] = 0
    BY <1>1, <1>2 DEF Elsewhere
  <2>2. AddsUp(f, <<l, m, n, o>>, f[l] + f[m] + f[n] + f[o])
    BY <1>2, AddsFour
  <2> QED BY <2>1, <2>2
<1> QED BY <1>1, <1>2, QuietIs

\* Gold that is bought, melted or written off: the entry balances, and no
\* one's balance moves.
LEMMA BuyBackBooks ==
  ASSUME NEW s \in ScrapSet
  PROVE  BuyBackLines(s) \in Seq(LineSet) /\ Valid(BuyBackLines(s)) /\ AllQuiet(BuyBackLines(s))
<1>1. PICK c, g, k, x, h : c = s.cost /\ g = s.grams /\ k = s.karat /\ x = -c /\ h = -g
  OBVIOUS
<1>2. c \in Int /\ g \in Int /\ k \in KaratSet /\ x \in Int /\ h \in Int /\ c + x = 0 /\ g + h = 0
  BY <1>1 DEF ScrapSet
<1>3. PICK l, m, n : /\ l = Metal("METAL_INVENTORY", c, g, k) /\ m = Usd("CASH", x)
                     /\ n = Metal("METAL_CLEARING", 0, h, k)
  OBVIOUS
<1>4. /\ l \in LineSet /\ m \in LineSet /\ n \in LineSet
      /\ l.acct = "METAL_INVENTORY" /\ m.acct = "CASH" /\ n.acct = "METAL_CLEARING"
  BY <1>2, <1>3, Chart, MetalLine, UsdLine
<1>5. Bases[l] = c /\ Bases[m] = x /\ Bases[n] = 0
  BY <1>2, <1>3, Chart, OfMetal, OfUsd
<1>6. ASSUME NEW j \in KaratSet
      PROVE  GramsOf(j)[l] = (IF j = k THEN g ELSE 0) /\ GramsOf(j)[m] = 0 /\ GramsOf(j)[n] = IF j = k THEN h ELSE 0
  BY <1>2, <1>3, Chart, OfMetal, OfUsd
<1>7. <<l, m, n>> \in Seq(LineSet) /\ Valid(<<l, m, n>>)
  <2>1. Bases[l] + Bases[m] + Bases[n] = 0
    BY <1>2, <1>5
  <2>2. \A j \in KaratSet : GramsOf(j)[l] + GramsOf(j)[m] + GramsOf(j)[n] = 0
    BY <1>2, <1>6
  <2> QED BY <1>4, <2>1, <2>2, ThreeLetIn
<1>8. AllQuiet(<<l, m, n>>)
  BY <1>4, ThreeQuiet DEF AllQuiet
<1>9. BuyBackLines(s) = <<l, m, n>>
  BY <1>1, <1>3 DEF BuyBackLines
<1> QED BY <1>7, <1>8, <1>9

\* A write-off is let in and touches no subledger.
LEMMA WriteOffBooks ==
  ASSUME NEW s \in ScrapSet
  PROVE  WriteOffLines(s) \in Seq(LineSet) /\ Valid(WriteOffLines(s)) /\ AllQuiet(WriteOffLines(s))
<1>1. PICK c, g, k, x, h : c = s.cost /\ g = s.grams /\ k = s.karat /\ x = -c /\ h = -g
  OBVIOUS
<1>2. c \in Int /\ g \in Int /\ k \in KaratSet /\ x \in Int /\ h \in Int /\ c + x = 0 /\ h + g = 0
  BY <1>1 DEF ScrapSet
<1>3. PICK l, m, n : /\ l = Usd("ADJUSTMENT_EXPENSE", c) /\ m = Metal("METAL_INVENTORY", x, h, k)
                     /\ n = Metal("METAL_CLEARING", 0, g, k)
  OBVIOUS
<1>4. /\ l \in LineSet /\ m \in LineSet /\ n \in LineSet
      /\ l.acct = "ADJUSTMENT_EXPENSE" /\ m.acct = "METAL_INVENTORY" /\ n.acct = "METAL_CLEARING"
  BY <1>2, <1>3, Chart, MetalLine, UsdLine
<1>5. Bases[l] = c /\ Bases[m] = x /\ Bases[n] = 0
  BY <1>2, <1>3, Chart, OfMetal, OfUsd
<1>6. ASSUME NEW j \in KaratSet
      PROVE  GramsOf(j)[l] = 0 /\ GramsOf(j)[m] = (IF j = k THEN h ELSE 0) /\ GramsOf(j)[n] = IF j = k THEN g ELSE 0
  BY <1>2, <1>3, Chart, OfMetal, OfUsd
<1>7. <<l, m, n>> \in Seq(LineSet) /\ Valid(<<l, m, n>>)
  <2>1. Bases[l] + Bases[m] + Bases[n] = 0
    BY <1>2, <1>5
  <2>2. \A j \in KaratSet : GramsOf(j)[l] + GramsOf(j)[m] + GramsOf(j)[n] = 0
    BY <1>2, <1>6
  <2> QED BY <1>4, <2>1, <2>2, ThreeLetIn
<1>8. AllQuiet(<<l, m, n>>)
  BY <1>4, ThreeQuiet DEF AllQuiet
<1>9. WriteOffLines(s) = <<l, m, n>>
  BY <1>1, <1>3 DEF WriteOffLines
<1> QED BY <1>7, <1>8, <1>9

\* A melt is let in and touches no subledger.
LEMMA MeltBooks ==
  ASSUME NEW s \in ScrapSet, NEW t \in ScrapSet, NEW c \in Int, MeltLines(s, t, c) # <<>>
  PROVE  /\ MeltLines(s, t, c) \in Seq(LineSet) /\ Valid(MeltLines(s, t, c))
         /\ AllQuiet(MeltLines(s, t, c))
<1>1. PICK g, k, h, x, y, z : g = s.grams /\ k = s.karat /\ h = t.grams /\ z = -c /\ x = -g /\ y = -h
  OBVIOUS
<1>0. PICK i : i = t.karat
  OBVIOUS
<1>2. /\ g \in Int /\ k \in KaratSet /\ h \in Int /\ i \in KaratSet /\ x \in Int /\ y \in Int /\ z \in Int
      /\ z + c = 0 /\ x + g = 0 /\ h + y = 0
  BY <1>1, <1>0 DEF ScrapSet
<1>3. PICK l, m, n, o : /\ l = Metal("METAL_INVENTORY", z, x, k) /\ m = Metal("METAL_CLEARING", 0, g, k)
                        /\ n = Metal("METAL_INVENTORY", c, h, i) /\ o = Metal("METAL_CLEARING", 0, y, i)
  OBVIOUS
<1>4. /\ l \in LineSet /\ m \in LineSet /\ n \in LineSet /\ o \in LineSet
      /\ l.acct = "METAL_INVENTORY" /\ m.acct = "METAL_CLEARING" /\ n.acct = "METAL_INVENTORY" /\ o.acct = "METAL_CLEARING"
  BY <1>2, <1>3, Chart, MetalLine
<1>5. Bases[l] = z /\ Bases[m] = 0 /\ Bases[n] = c /\ Bases[o] = 0
  BY <1>2, <1>3, Chart, OfMetal
<1>6. ASSUME NEW j \in KaratSet
      PROVE  /\ GramsOf(j)[l] = (IF j = k THEN x ELSE 0) /\ GramsOf(j)[m] = (IF j = k THEN g ELSE 0)
             /\ GramsOf(j)[n] = (IF j = i THEN h ELSE 0) /\ GramsOf(j)[o] = (IF j = i THEN y ELSE 0)
  BY <1>2, <1>3, Chart, OfMetal
<1>7. <<l, m, n, o>> \in Seq(LineSet) /\ Valid(<<l, m, n, o>>)
  <2>1. Bases[l] + Bases[m] + Bases[n] + Bases[o] = 0
    BY <1>2, <1>5
  <2>2. \A j \in KaratSet : GramsOf(j)[l] + GramsOf(j)[m] + GramsOf(j)[n] + GramsOf(j)[o] = 0
    BY <1>2, <1>6
  <2> QED BY <1>4, <2>1, <2>2, FourLetIn
<1>8. AllQuiet(<<l, m, n, o>>)
  BY <1>4, FourQuiet DEF AllQuiet
<1>9. MeltLines(s, t, c) = <<l, m, n, o>>
  BY <1>1, <1>0, <1>3 DEF MeltLines
<1> QED BY <1>7, <1>8, <1>9

\* A supplier is paid in cash or in gold.
CashPaid(amount) == <<Usd("AP", amount), Usd("CASH", -amount)>>
GoldPaid(unit, amount) ==
  <<Metal("METAL_AP", 0, amount, unit), Metal("METAL_INVENTORY", 0, -amount, unit)>>

\* A payment in cash is let in and takes what was paid off what the supplier is owed.
LEMMA CashPaidBooks ==
  ASSUME NEW amount \in Int
  PROVE  /\ CashPaid(amount) \in Seq(LineSet) /\ Valid(CashPaid(amount))
         /\ Untouched(CashPaid(amount), "METAL_AP") /\ Untouched(CashPaid(amount), "AR")
         /\ Untouched(CashPaid(amount), "VENDOR_AP") /\ AddsUp(BaseIn({"AP"}), CashPaid(amount), amount)
<1>1. PICK x : x = -amount /\ x \in Int /\ amount + x = 0
  OBVIOUS
<1>2. PICK l, m : l = Usd("AP", amount) /\ m = Usd("CASH", x)
  OBVIOUS
<1>3. l \in LineSet /\ m \in LineSet /\ l.acct = "AP" /\ m.acct = "CASH"
  BY <1>1, <1>2, Chart, UsdLine
<1>4. /\ Bases[l] = amount /\ Bases[m] = x /\ BaseIn({"AP"})[l] = amount /\ BaseIn({"AP"})[m] = 0
      /\ \A k \in KaratSet : GramsOf(k)[l] = 0 /\ GramsOf(k)[m] = 0
  BY <1>1, <1>2, Chart, OfUsd
<1>5. <<l, m>> \in Seq(LineSet) /\ Valid(<<l, m>>)
  BY <1>1, <1>3, <1>4, TwoLetIn
<1>6. AddsUp(BaseIn({"AP"}), <<l, m>>, amount)
  <2>1. AddsUp(BaseIn({"AP"}), <<l, m>>, BaseIn({"AP"})[l] + BaseIn({"AP"})[m])
    BY <1>3, Measures, AddsTwo
  <2> QED BY <1>4, <2>1
<1>7. Untouched(<<l, m>>, "METAL_AP") /\ Untouched(<<l, m>>, "AR") /\ Untouched(<<l, m>>, "VENDOR_AP")
  BY <1>3, TwoQuiet
<1> QED BY <1>1, <1>2, <1>5, <1>6, <1>7 DEF CashPaid

\* A payment in gold is let in and takes its grams off those owed, of its karat.
LEMMA GoldPaidBooks ==
  ASSUME NEW unit \in KaratSet, NEW amount \in Int
  PROVE  /\ GoldPaid(unit, amount) \in Seq(LineSet) /\ Valid(GoldPaid(unit, amount))
         /\ Untouched(GoldPaid(unit, amount), "AP") /\ Untouched(GoldPaid(unit, amount), "AR")
         /\ Untouched(GoldPaid(unit, amount), "VENDOR_AP")
         /\ \A k \in KaratSet : AddsUp(GramsIn("METAL_AP", k), GoldPaid(unit, amount), IF k = unit THEN amount ELSE 0)
<1>1. PICK x : x = -amount /\ x \in Int /\ amount + x = 0
  OBVIOUS
<1>2. PICK l, m : l = Metal("METAL_AP", 0, amount, unit) /\ m = Metal("METAL_INVENTORY", 0, x, unit)
  OBVIOUS
<1>3. l \in LineSet /\ m \in LineSet /\ l.acct = "METAL_AP" /\ m.acct = "METAL_INVENTORY"
  BY <1>1, <1>2, Chart, MetalLine
<1>4. /\ Bases[l] = 0 /\ Bases[m] = 0
      /\ \A k \in KaratSet : /\ GramsOf(k)[l] = (IF k = unit THEN amount ELSE 0) /\ GramsOf(k)[m] = (IF k = unit THEN x ELSE 0)
                             /\ GramsIn("METAL_AP", k)[l] = (IF k = unit THEN amount ELSE 0)
                             /\ GramsIn("METAL_AP", k)[m] = 0
  BY <1>1, <1>2, Chart, OfMetal
<1>5. <<l, m>> \in Seq(LineSet) /\ Valid(<<l, m>>)
  BY <1>1, <1>3, <1>4, TwoLetIn
<1>6. ASSUME NEW k \in KaratSet PROVE AddsUp(GramsIn("METAL_AP", k), <<l, m>>, IF k = unit THEN amount ELSE 0)
  <2>1. AddsUp(GramsIn("METAL_AP", k), <<l, m>>, GramsIn("METAL_AP", k)[l] + GramsIn("METAL_AP", k)[m])
    BY <1>3, Measures, AddsTwo
  <2>2. GramsIn("METAL_AP", k)[l] + GramsIn("METAL_AP", k)[m] = IF k = unit THEN amount ELSE 0
    BY <1>4
  <2> QED BY <2>1, <2>2
<1>7. Untouched(<<l, m>>, "AP") /\ Untouched(<<l, m>>, "AR") /\ Untouched(<<l, m>>, "VENDOR_AP")
  BY <1>3, TwoQuiet
<1> QED BY <1>1, <1>2, <1>5, <1>6, <1>7 DEF GoldPaid

\* A delivery adds what was not paid at once, in dollars and in grams of each karat.
LEMMA DeliveryBooks ==
  ASSUME NEW p \in DeliverySet, p.paid <= p.due, \A k \in KaratSet : p.drawn[k] <= p.gold[k]
  PROVE  /\ Untouched(DeliveryLines(p), "AR") /\ Untouched(DeliveryLines(p), "VENDOR_AP")
         /\ AddsUp(BaseIn({"AP"}), DeliveryLines(p), p.paid - p.due)
         /\ \A k \in KaratSet : AddsUp(GramsIn("METAL_AP", k), DeliveryLines(p), p.drawn[k] - p.gold[k])
<1>1. ASSUME NEW f, Measure(f, LineSet), Elsewhere(f, DeliveryAccounts) PROVE AddsUp(f, DeliveryLines(p), 0)
  BY <1>1, DeliveryAdds, DeliveryElsewhere
<1>2. Untouched(DeliveryLines(p), "AR") /\ Untouched(DeliveryLines(p), "VENDOR_AP")
  <2>1. "AR" \notin DeliveryAccounts /\ "VENDOR_AP" \notin DeliveryAccounts
    BY DEF DeliveryAccounts
  <2> QED BY <1>1, <2>1, QuietIs
<1>3. AddsUp(BaseIn({"AP"}), DeliveryLines(p), DeliverySum(BaseIn({"AP"}), p))
  BY Measures, DeliveryAdds
<1>4. \A k \in KaratSet : AddsUp(GramsIn("METAL_AP", k), DeliveryLines(p), DeliverySum(GramsIn("METAL_AP", k), p))
  BY Measures, DeliveryAdds
<1> QED BY <1>2, <1>3, <1>4, DeliverySums

-----------------------------------------------------------------------------
(* Sales and what undoes them.                                              *)

ItemSet == {it \in [unit : DOMAIN Catalogue, qty : Nat, refunded : Nat] : it.refunded <= it.qty}
OrderSet == [pay : {"CASH", "CARD", "CREDIT"}, status : {"COMPLETED", "PARTIALLY_REFUNDED", "REFUNDED", "VOIDED"},
             vatPercent : Nat, percent : Nat, items : Seq(ItemSet), subtotal : Nat, vat : Nat, discount : Nat,
             total : Int, handed : Int, retaxed : BOOLEAN]

\* What is sold has whole prices and weights.
LEMMA UnitTypes ==
  ASSUME NEW it, it.unit \in DOMAIN Catalogue
  PROVE  /\ Unit(it).karat \in KaratSet /\ Unit(it).grams \in Nat /\ Unit(it).price \in Nat
         /\ Unit(it).making \in Nat /\ Unit(it).stone \in Nat /\ Unit(it).cost \in Nat
         /\ Unit(it).per \in Nat \ {0}
BY CatalogueAssumption DEF Unit

\* The cost of what is sold is not below zero.
LEMMA CostNat ==
  ASSUME NEW it, it.unit \in DOMAIN Catalogue, NEW qty \in Nat
  PROVE  Cost(it, qty) \in Nat
<1>1. PICK c, d : c = Unit(it).cost /\ d = Unit(it).per
  OBVIOUS
<1>2. c \in Nat /\ d \in Nat \ {0}
  BY <1>1, UnitTypes
<1>3. HalfEven(c * qty, d) \in Nat
  BY <1>2, TimesNat, RoundedNat
<1> QED BY <1>1, <1>3 DEF Cost

\* A percentage of an amount is not below zero.
LEMMA PercentNat == ASSUME NEW amount \in Nat, NEW rate \in Nat PROVE Percent(amount, rate) \in Nat
<1>1. amount * rate \in Nat
  BY TimesNat
<1> QED BY <1>1, RoundedNat DEF Percent

\* The sums over the items of an order.
LEMMA ItemTotals ==
  ASSUME NEW items \in Seq(ItemSet)
  PROVE  /\ Total(items, LAMBDA it : Unit(it).making * it.qty) \in Nat
         /\ Total(items, LAMBDA it : Unit(it).stone * it.qty) \in Nat
         /\ Remaining(items) \in Nat
<1>1. PICK n : n = Len(items) /\ n \in Nat /\ DOMAIN items = 1..n
  OBVIOUS
<1>2. ASSUME NEW i \in 1..n
      PROVE  /\ Unit(items[i]).making * items[i].qty \in Nat /\ Unit(items[i]).stone * items[i].qty \in Nat
             /\ Unit(items[i]).price * (items[i].qty - items[i].refunded) \in Nat
  <2>1. items[i] \in ItemSet
    BY <1>1
  <2>2. PICK q, r : q = items[i].qty /\ r = items[i].qty - items[i].refunded
    OBVIOUS
  <2>3. q \in Nat /\ r \in Nat /\ items[i].unit \in DOMAIN Catalogue
    BY <2>1, <2>2 DEF ItemSet
  <2>4. PICK m, s, p : m = Unit(items[i]).making /\ s = Unit(items[i]).stone /\ p = Unit(items[i]).price
    OBVIOUS
  <2>5. m \in Nat /\ s \in Nat /\ p \in Nat
    BY <2>3, <2>4, UnitTypes
  <2>6. m * q \in Nat /\ s * q \in Nat /\ p * r \in Nat
    BY <2>3, <2>5, TimesNat
  <2> QED BY <2>2, <2>4, <2>6
<1>3. Total(items, LAMBDA it : Unit(it).making * it.qty) \in Nat
  <2>1. PICK v : v = [i \in DOMAIN items |-> Unit(items[i]).making * items[i].qty]
    OBVIOUS
  <2>2. SumTo(v, n) \in Nat
    BY <1>1, <1>2, <2>1, RowNat
  <2> QED BY <1>1, <2>1, <2>2 DEF Total
<1>4. Total(items, LAMBDA it : Unit(it).stone * it.qty) \in Nat
  <2>1. PICK v : v = [i \in DOMAIN items |-> Unit(items[i]).stone * items[i].qty]
    OBVIOUS
  <2>2. SumTo(v, n) \in Nat
    BY <1>1, <1>2, <2>1, RowNat
  <2> QED BY <1>1, <2>1, <2>2 DEF Total
<1>5. Remaining(items) \in Nat
  <2>1. PICK v : v = [i \in DOMAIN items |-> Unit(items[i]).price * (items[i].qty - items[i].refunded)]
    OBVIOUS
  <2>2. SumTo(v, n) \in Nat
    BY <1>1, <1>2, <2>1, RowNat
  <2> QED BY <1>1, <2>1, <2>2 DEF Total, Remaining
<1> QED BY <1>3, <1>4, <1>5

\* The metal of an order, karat by karat.
LEMMA MetalTotals ==
  ASSUME NEW items \in Seq(ItemSet), NEW k \in KaratSet
  PROVE  /\ Total(items, LAMBDA it : IF Unit(it).karat = k THEN Cost(it, it.qty) ELSE 0) \in Nat
         /\ Total(items, LAMBDA it : IF Unit(it).karat = k THEN Unit(it).grams * it.qty ELSE 0) \in Nat
<1>1. PICK n : n = Len(items) /\ n \in Nat /\ DOMAIN items = 1..n
  OBVIOUS
<1>2. ASSUME NEW i \in 1..n
      PROVE  Cost(items[i], items[i].qty) \in Nat /\ Unit(items[i]).grams * items[i].qty \in Nat
  <2>1. items[i] \in ItemSet
    BY <1>1
  <2>2. PICK q, g : q = items[i].qty /\ g = Unit(items[i]).grams
    OBVIOUS
  <2>3. q \in Nat /\ items[i].unit \in DOMAIN Catalogue
    BY <2>1, <2>2 DEF ItemSet
  <2>4. g \in Nat /\ Cost(items[i], q) \in Nat
    BY <2>2, <2>3, UnitTypes, CostNat
  <2>5. g * q \in Nat
    BY <2>3, <2>4, TimesNat
  <2> QED BY <2>2, <2>4, <2>5
<1>3. Total(items, LAMBDA it : IF Unit(it).karat = k THEN Cost(it, it.qty) ELSE 0) \in Nat
  <2>1. PICK v : v = [i \in DOMAIN items |-> IF Unit(items[i]).karat = k THEN Cost(items[i], items[i].qty) ELSE 0]
    OBVIOUS
  <2>2. SumTo(v, n) \in Nat
    BY <1>1, <1>2, <2>1, RowNat
  <2> QED BY <1>1, <2>1, <2>2 DEF Total
<1>4. Total(items, LAMBDA it : IF Unit(it).karat = k THEN Unit(it).grams * it.qty ELSE 0) \in Nat
  <2>1. PICK v : v = [i \in DOMAIN items |-> IF Unit(items[i]).karat = k THEN Unit(items[i]).grams * items[i].qty ELSE 0]
    OBVIOUS
  <2>2. SumTo(v, n) \in Nat
    BY <1>1, <1>2, <2>1, RowNat
  <2> QED BY <1>1, <2>1, <2>2 DEF Total
<1> QED BY <1>3, <1>4

SaleAccounts == {"SALES_REVENUE", "MAKING_CHARGE_REVENUE", "VAT_PAYABLE", "SALES_DISCOUNTS", "STONE_COGS",
                 "STONE_INVENTORY", "METAL_COGS", "METAL_INVENTORY"}

\* The metal sold costs what leaves the stock.
LEMMA SoldAdds ==
  ASSUME NEW items \in Seq(ItemSet), NEW k \in KaratSet
  PROVE  /\ AddsUp(Bases, SoldMetal(items, k), 0)
         /\ \A j \in KaratSet : AddsUp(GramsOf(j), SoldMetal(items, k), 0)
         /\ \A f : Measure(f, LineSet) /\ Elsewhere(f, SaleAccounts) => AddsUp(f, SoldMetal(items, k), 0)
<1>1. PICK c, g :
        /\ c = Total(items, LAMBDA it : IF Unit(it).karat = k THEN Cost(it, it.qty) ELSE 0)
        /\ g = Total(items, LAMBDA it : IF Unit(it).karat = k THEN Unit(it).grams * it.qty ELSE 0)
  OBVIOUS
<1>2. c \in Nat /\ g \in Nat
  BY <1>1, MetalTotals
<1>9. PICK x, h : x = -c /\ h = -g
  OBVIOUS
<1>3. c \in Int /\ g \in Int /\ x \in Int /\ h \in Int /\ c + x = 0 /\ g + h = 0
  BY <1>2, <1>9
<1>4. PICK l, m : l = Metal("METAL_COGS", c, g, k) /\ m = Metal("METAL_INVENTORY", x, h, k)
  OBVIOUS
<1>5. l \in LineSet /\ m \in LineSet /\ l.acct = "METAL_COGS" /\ m.acct = "METAL_INVENTORY"
  BY <1>3, <1>4, Chart, MetalLine
<1>6. /\ Bases[l] = c /\ Bases[m] = x
      /\ \A j \in KaratSet : GramsOf(j)[l] = (IF j = k THEN g ELSE 0) /\ GramsOf(j)[m] = (IF j = k THEN h ELSE 0)
  BY <1>3, <1>4, Chart, OfMetal
<1>7. /\ AddsUp(Bases, <<l, m>>, 0) /\ \A j \in KaratSet : AddsUp(GramsOf(j), <<l, m>>, 0)
      /\ \A f : Measure(f, LineSet) /\ Elsewhere(f, SaleAccounts) => AddsUp(f, <<l, m>>, 0)
  <2>1. AddsUp(Bases, <<l, m>>, Bases[l] + Bases[m])
    BY <1>5, AddsTwo, Measures
  <2>2. \A j \in KaratSet : AddsUp(GramsOf(j), <<l, m>>, GramsOf(j)[l] + GramsOf(j)[m])
    BY <1>5, AddsTwo, Measures
  <2>3. Bases[l] + Bases[m] = 0 /\ \A j \in KaratSet : GramsOf(j)[l] + GramsOf(j)[m] = 0
    BY <1>3, <1>6
  <2>4. ASSUME NEW f, Measure(f, LineSet), Elsewhere(f, SaleAccounts) PROVE AddsUp(f, <<l, m>>, 0)
    <3>1. f[l] = 0 /\ f[m] = 0
      BY <1>5, <2>4 DEF Elsewhere, SaleAccounts
    <3>2. AddsUp(f, <<l, m>>, f[l] + f[m])
      BY <1>5, <2>4, AddsTwo
    <3> QED BY <3>1, <3>2
  <2>5. AddsUp(Bases, <<l, m>>, 0)
    BY <2>1, <2>3
  <2>6. \A j \in KaratSet : AddsUp(GramsOf(j), <<l, m>>, 0)
    BY <2>2, <2>3
  <2> QED BY <2>4, <2>5, <2>6
<1>8. SoldMetal(items, k) = <<l, m>> \/ SoldMetal(items, k) = <<>>
  BY <1>1, <1>4, <1>9 DEF SoldMetal
<1> QED BY <1>7, <1>8, AddsNone

\* The lines s come to `base` dollars and no gold, and are all of accounts of T.
Counted(s, base, T) ==
  /\ AddsUp(Bases, s, base)
  /\ \A k \in KaratSet : AddsUp(GramsOf(k), s, 0)
  /\ \A f : Measure(f, LineSet) /\ Elsewhere(f, T) => AddsUp(f, s, 0)

\* Lines of T in a row are lines of T.
LEMMA CountedJoin ==
  ASSUME NEW s, NEW t, NEW a, NEW b, NEW T, Counted(s, a, T), Counted(t, b, T)
  PROVE  Counted(s \o t, a + b, T)
<1>1. AddsUp(Bases, s \o t, a + b)
  BY Measures, AddsJoin DEF Counted
<1>2. ASSUME NEW f, Measure(f, LineSet), AddsUp(f, s, 0), AddsUp(f, t, 0) PROVE AddsUp(f, s \o t, 0)
  <2>1. AddsUp(f, s \o t, 0 + 0)
    BY <1>2, AddsJoin
  <2>2. 0 + 0 = 0
    OBVIOUS
  <2> QED BY <2>1, <2>2
<1> QED BY <1>1, <1>2, Measures DEF Counted

\* A line in dollars that may be left out.
LEMMA CountedUsd ==
  ASSUME NEW acct \in Accounts, NEW amount \in Int, NEW T, acct \in T, NEW c \in BOOLEAN
  PROVE  Counted(When(c, Usd(acct, amount)), IF c THEN amount ELSE 0, T)
<1>1. PICK l : l = Usd(acct, amount)
  OBVIOUS
<1>2. l \in LineSet /\ Bases[l] = amount /\ \A k \in KaratSet : GramsOf(k)[l] = 0
  BY <1>1, UsdLine, OfUsd
<1>3. ASSUME NEW f, Measure(f, LineSet) PROVE AddsUp(f, When(c, l), IF c THEN f[l] ELSE 0)
  BY <1>2, <1>3, AddsWhen
<1>4. ASSUME NEW f, Elsewhere(f, T) PROVE f[l] = 0
  BY <1>1, <1>4, UsdElsewhere
<1>5. AddsUp(Bases, When(c, l), IF c THEN amount ELSE 0)
  <2>1. AddsUp(Bases, When(c, l), IF c THEN Bases[l] ELSE 0)
    BY <1>3, Measures
  <2> QED BY <1>2, <2>1
<1>6. ASSUME NEW f, Measure(f, LineSet), f[l] = 0 PROVE AddsUp(f, When(c, l), 0)
  <2>1. AddsUp(f, When(c, l), IF c THEN f[l] ELSE 0)
    BY <1>3, <1>6
  <2> QED BY <1>6, <2>1
<1>7. \A k \in KaratSet : AddsUp(GramsOf(k), When(c, l), 0)
  BY <1>2, <1>6, Measures
<1> QED BY <1>1, <1>4, <1>5, <1>6, <1>7 DEF Counted

\* The lines of each karat, one karat after the other.
LEMMA CountedKarats ==
  ASSUME NEW ss, DOMAIN ss = DOMAIN Karats, ss = [i \in DOMAIN Karats |-> ss[i]], NEW T,
         \A i \in DOMAIN Karats : Counted(ss[i], 0, T)
  PROVE  Counted(FlattenSeq(ss), 0, T)
<1>1. DOMAIN Karats = 1..2
  BY DEF Karats
<1>2. ASSUME NEW i \in 1..2 PROVE AddsUp(Bases, ss[i], 0)
  BY <1>1 DEF Counted
<1>3. ss \in Seq(Seq(LineSet))
  <2>1. \A i \in 1..2 : ss[i] \in Seq(LineSet)
    BY <1>2 DEF AddsUp
  <2> QED BY <1>1, <2>1
<1>4. ASSUME NEW f, Measure(f, LineSet), \A i \in 1..2 : AddsUp(f, ss[i], 0) PROVE AddsUp(f, FlattenSeq(ss), 0)
  <2>1. AddsUp(f, ss[1], 0) /\ AddsUp(f, ss[2], 0)
    BY <1>4
  <2>2. AddsUp(f, FlattenSeq(ss), 0 + 0)
    BY <1>1, <1>3, <1>4, <2>1, AddsKarats
  <2>3. 0 + 0 = 0
    OBVIOUS
  <2> QED BY <2>2, <2>3
<1>5. AddsUp(Bases, FlattenSeq(ss), 0)
  BY <1>2, <1>4, Measures
<1>6. ASSUME NEW k \in KaratSet PROVE AddsUp(GramsOf(k), FlattenSeq(ss), 0)
  <2>1. \A i \in 1..2 : AddsUp(GramsOf(k), ss[i], 0)
    BY <1>1 DEF Counted
  <2> QED BY <1>4, <2>1, Measures
<1>7. ASSUME NEW f, Measure(f, LineSet), Elsewhere(f, T) PROVE AddsUp(f, FlattenSeq(ss), 0)
  <2>1. \A i \in 1..2 : AddsUp(f, ss[i], 0)
    BY <1>1, <1>7 DEF Counted
  <2> QED BY <1>4, <1>7, <2>1
<1> QED BY <1>5, <1>6, <1>7 DEF Counted

\* The stones of a sale move between two accounts.
LEMMA StonesCounted == ASSUME NEW x \in Int PROVE Counted(Stones(x), 0, SaleAccounts)
<1>1. PICK y : y = -x
  OBVIOUS
<1>2. y \in Int /\ x + y = 0
  BY <1>1
<1>3. /\ Counted(When(x # 0, Usd("STONE_COGS", x)), IF x # 0 THEN x ELSE 0, SaleAccounts)
      /\ Counted(When(x # 0, Usd("STONE_INVENTORY", y)), IF x # 0 THEN y ELSE 0, SaleAccounts)
  <2>1. PICK c : c = (x # 0) /\ c \in BOOLEAN
    OBVIOUS
  <2>2. "STONE_COGS" \in SaleAccounts /\ "STONE_INVENTORY" \in SaleAccounts
    BY DEF SaleAccounts
  <2>3. /\ Counted(When(c, Usd("STONE_COGS", x)), IF c THEN x ELSE 0, SaleAccounts)
        /\ Counted(When(c, Usd("STONE_INVENTORY", y)), IF c THEN y ELSE 0, SaleAccounts)
    BY <1>2, <2>1, <2>2, Chart, CountedUsd
  <2> QED BY <2>1, <2>3
<1>4. Counted(When(x # 0, Usd("STONE_COGS", x)) \o When(x # 0, Usd("STONE_INVENTORY", y)),
              (IF x # 0 THEN x ELSE 0) + (IF x # 0 THEN y ELSE 0), SaleAccounts)
  BY <1>3, CountedJoin
<1>5. (IF x # 0 THEN x ELSE 0) + (IF x # 0 THEN y ELSE 0) = 0
  BY <1>2
<1> QED BY <1>1, <1>4, <1>5 DEF Stones

\* The head of a sale: the money, and what was sold before it was made.
LEMMA TillAccount ==
  ASSUME NEW pay \in {"CASH", "CARD", "CREDIT"}
  PROVE  /\ Till(pay) \in Accounts /\ Till(pay) \notin SaleAccounts \cup {"AP", "METAL_AP", "VENDOR_AP"}
         /\ (Till(pay) = "AR") <=> (pay = "CREDIT")
BY Chart DEF Till, SaleAccounts

\* The lines of a sale, as parts that are counted one by one.
LEMMA SaleParts ==
  ASSUME NEW o
  PROVE  \E making, stone, ss :
    /\ making = Total(o.items, LAMBDA it : Unit(it).making * it.qty)
    /\ stone = Total(o.items, LAMBDA it : Unit(it).stone * it.qty)
    /\ ss = [i \in DOMAIN Karats |-> SoldMetal(o.items, Karats[i])]
    /\ SaleLines(o) =
         ((((<<Usd(Till(o.pay), o.total), Usd("SALES_REVENUE", making - o.subtotal)>>
             \o When(making > 0, Usd("MAKING_CHARGE_REVENUE", -making)))
            \o When(o.vat > 0, Usd("VAT_PAYABLE", -o.vat)))
           \o When(o.discount > 0, Usd("SALES_DISCOUNTS", o.discount)))
          \o FlattenSeq(ss))
         \o Stones(stone)
BY DEF SaleLines, Allowed

\* A sale balances and is let in.  It is all the sale's own accounts and the
\* account the customer pays into.
LEMMA SaleBooks ==
  ASSUME NEW o \in OrderSet, o.total = o.subtotal + o.vat - o.discount
  PROVE  /\ SaleLines(o) \in Seq(LineSet) /\ Valid(SaleLines(o))
         /\ \A f : Measure(f, LineSet) /\ Elsewhere(f, SaleAccounts)
                     => AddsUp(f, SaleLines(o), f[Usd(Till(o.pay), o.total)])
<1>1. PICK making, stone, ss :
    /\ making = Total(o.items, LAMBDA it : Unit(it).making * it.qty)
    /\ stone = Total(o.items, LAMBDA it : Unit(it).stone * it.qty)
    /\ ss = [i \in DOMAIN Karats |-> SoldMetal(o.items, Karats[i])]
    /\ SaleLines(o) =
         ((((<<Usd(Till(o.pay), o.total), Usd("SALES_REVENUE", making - o.subtotal)>>
             \o When(making > 0, Usd("MAKING_CHARGE_REVENUE", -making)))
            \o When(o.vat > 0, Usd("VAT_PAYABLE", -o.vat)))
           \o When(o.discount > 0, Usd("SALES_DISCOUNTS", o.discount)))
          \o FlattenSeq(ss))
         \o Stones(stone)
  BY SaleParts
<1>2. /\ o.items \in Seq(ItemSet) /\ o.pay \in {"CASH", "CARD", "CREDIT"}
      /\ o.total \in Int /\ o.subtotal \in Nat /\ o.vat \in Nat /\ o.discount \in Nat
  BY DEF OrderSet
<1>3. making \in Nat /\ stone \in Nat
  BY <1>1, <1>2, ItemTotals
<1>4. PICK r, n, v : r = making - o.subtotal /\ n = -making /\ v = -o.vat
  OBVIOUS
<1>5. r \in Int /\ n \in Int /\ v \in Int
  BY <1>2, <1>3, <1>4
<1>6. PICK l, m : l = Usd(Till(o.pay), o.total) /\ m = Usd("SALES_REVENUE", r)
  OBVIOUS
<1>7. /\ l \in LineSet /\ m \in LineSet /\ Bases[l] = o.total /\ Bases[m] = r
      /\ \A k \in KaratSet : GramsOf(k)[l] = 0 /\ GramsOf(k)[m] = 0
  <2>1. Till(o.pay) \in Accounts /\ "SALES_REVENUE" \in Accounts
    BY <1>2, TillAccount, Chart
  <2>2. l \in LineSet /\ Bases[l] = o.total /\ \A k \in KaratSet : GramsOf(k)[l] = 0
    BY <1>2, <1>6, <2>1, UsdLine, OfUsd
  <2>3. m \in LineSet /\ Bases[m] = r /\ \A k \in KaratSet : GramsOf(k)[m] = 0
    BY <1>5, <1>6, <2>1, UsdLine, OfUsd
  <2> QED BY <2>2, <2>3
<1>8. ASSUME NEW f, Elsewhere(f, SaleAccounts) PROVE f[m] = 0
  <2>1. "SALES_REVENUE" \in SaleAccounts
    BY DEF SaleAccounts
  <2> QED BY <1>5, <1>6, <1>8, <2>1, Chart, UsdElsewhere
<1>9. PICK A, B, C, D, E :
        /\ A = When(making > 0, Usd("MAKING_CHARGE_REVENUE", n)) /\ B = When(o.vat > 0, Usd("VAT_PAYABLE", v))
        /\ C = When(o.discount > 0, Usd("SALES_DISCOUNTS", o.discount)) /\ D = FlattenSeq(ss) /\ E = Stones(stone)
  OBVIOUS
<1>10. SaleLines(o) = ((((<<l, m>> \o A) \o B) \o C) \o D) \o E
  BY <1>1, <1>4, <1>6, <1>9
<1>11. PICK a, b, c : /\ a = (IF making > 0 THEN n ELSE 0) /\ b = (IF o.vat > 0 THEN v ELSE 0)
                      /\ c = (IF o.discount > 0 THEN o.discount ELSE 0)
  OBVIOUS
<1>12. Counted(A, a, SaleAccounts)
  <2>3. PICK g : g = (making > 0)
    OBVIOUS
  <2>1. g = (making > 0) /\ g \in BOOLEAN
    BY <1>3, <2>3
  <2> QED BY <1>5, <1>9, <1>11, <2>1, Chart, CountedUsd DEF SaleAccounts
<1>13. Counted(B, b, SaleAccounts)
  <2>3. PICK g : g = (o.vat > 0)
    OBVIOUS
  <2>1. g = (o.vat > 0) /\ g \in BOOLEAN
    BY <1>2, <2>3
  <2> QED BY <1>5, <1>9, <1>11, <2>1, Chart, CountedUsd DEF SaleAccounts
<1>14. Counted(C, c, SaleAccounts)
  <2>3. PICK g : g = (o.discount > 0)
    OBVIOUS
  <2>1. g = (o.discount > 0) /\ g \in BOOLEAN
    BY <1>2, <2>3
  <2>2. PICK d : d = o.discount /\ d \in Int
    BY <1>2
  <2> QED BY <1>9, <1>11, <2>1, <2>2, Chart, CountedUsd DEF SaleAccounts
<1>15. Counted(D, 0, SaleAccounts)
  <2>1. ASSUME NEW i \in DOMAIN Karats PROVE Counted(ss[i], 0, SaleAccounts)
    <3>1. Karats[i] \in KaratSet
      BY DEF Karats, KaratSet
    <3>2. ss[i] = SoldMetal(o.items, Karats[i])
      BY <1>1
    <3> QED BY <1>2, <3>1, <3>2, SoldAdds DEF Counted
  <2>2. DOMAIN ss = DOMAIN Karats /\ ss = [i \in DOMAIN Karats |-> ss[i]]
    BY <1>1
  <2> QED BY <1>9, <2>1, <2>2, CountedKarats
<1>16. Counted(E, 0, SaleAccounts)
  <2>1. stone \in Int
    BY <1>3
  <2> QED BY <1>9, <2>1, StonesCounted
<1>17. ASSUME NEW f, Measure(f, LineSet), NEW x, NEW y, NEW z,
              AddsUp(f, A, x), AddsUp(f, B, y), AddsUp(f, C, z), AddsUp(f, D, 0), AddsUp(f, E, 0)
       PROVE  AddsUp(f, SaleLines(o), ((((f[l] + f[m]) + x) + y) + z) + 0 + 0)
  <2>1. AddsUp(f, <<l, m>>, f[l] + f[m])
    BY <1>7, <1>17, AddsTwo
  <2>2. AddsUp(f, <<l, m>> \o A, (f[l] + f[m]) + x)
    BY <1>17, <2>1, AddsJoin
  <2>3. AddsUp(f, (<<l, m>> \o A) \o B, ((f[l] + f[m]) + x) + y)
    BY <1>17, <2>2, AddsJoin
  <2>4. AddsUp(f, ((<<l, m>> \o A) \o B) \o C, (((f[l] + f[m]) + x) + y) + z)
    BY <1>17, <2>3, AddsJoin
  <2>5. AddsUp(f, (((<<l, m>> \o A) \o B) \o C) \o D, ((((f[l] + f[m]) + x) + y) + z) + 0)
    BY <1>17, <2>4, AddsJoin
  <2>6. AddsUp(f, ((((<<l, m>> \o A) \o B) \o C) \o D) \o E, ((((f[l] + f[m]) + x) + y) + z) + 0 + 0)
    BY <1>17, <2>5, AddsJoin
  <2> QED BY <1>10, <2>6
<1>18. AddsUp(Bases, SaleLines(o), 0)
  <2>1. AddsUp(Bases, SaleLines(o), ((((o.total + r) + a) + b) + c) + 0 + 0)
    BY <1>7, <1>12, <1>13, <1>14, <1>15, <1>16, <1>17, Measures DEF Counted
  <2>2. ((((o.total + r) + a) + b) + c) + 0 + 0 = 0
    <3>1. PICK t, s, w, d : t = o.total /\ s = o.subtotal /\ w = o.vat /\ d = o.discount
      OBVIOUS
    <3>2. t \in Int /\ s \in Nat /\ w \in Nat /\ d \in Nat /\ t = s + w - d
      BY <1>2, <3>1
    <3>3. a = n /\ b = v /\ c = d /\ r = making - s /\ n = -making /\ v = -w
      BY <1>3, <1>4, <1>11, <3>1, <3>2
    <3>4. ((((t + r) + a) + b) + c) + 0 + 0 = 0
      BY <1>3, <3>2, <3>3
    <3> QED BY <3>1, <3>4
  <2> QED BY <2>1, <2>2
<1>19. ASSUME NEW k \in KaratSet PROVE AddsUp(GramsOf(k), SaleLines(o), 0)
  <2>1. AddsUp(GramsOf(k), SaleLines(o), ((((0 + 0) + 0) + 0) + 0) + 0 + 0)
    BY <1>7, <1>12, <1>13, <1>14, <1>15, <1>16, <1>17, Measures DEF Counted
  <2>2. ((((0 + 0) + 0) + 0) + 0) + 0 + 0 = 0
    OBVIOUS
  <2> QED BY <2>1, <2>2
<1>20. ASSUME NEW f, Measure(f, LineSet), Elsewhere(f, SaleAccounts) PROVE AddsUp(f, SaleLines(o), f[l])
  <2>1. AddsUp(f, SaleLines(o), ((((f[l] + 0) + 0) + 0) + 0) + 0 + 0)
    BY <1>8, <1>12, <1>13, <1>14, <1>15, <1>16, <1>17, <1>20 DEF Counted
  <2>2. f[l] \in Int
    BY <1>7, <1>20 DEF Measure
  <2>3. ((((f[l] + 0) + 0) + 0) + 0) + 0 + 0 = f[l]
    BY <2>2
  <2> QED BY <2>1, <2>3
<1>21. SaleLines(o) # <<>>
  <2>1. /\ A \in Seq(LineSet) /\ B \in Seq(LineSet) /\ C \in Seq(LineSet) /\ D \in Seq(LineSet) /\ E \in Seq(LineSet)
        /\ <<l, m>> \in Seq(LineSet) /\ <<l, m>> # <<>>
    BY <1>7, <1>12, <1>13, <1>14, <1>15, <1>16 DEF Counted, AddsUp
  <2> QED BY <1>10, <2>1, SomethingSaid
<1> QED BY <1>6, <1>18, <1>19, <1>20, <1>21, LetIn

\* Lines of T are lines of any accounts that hold T.
LEMMA CountedWider ==
  ASSUME NEW s, NEW a, NEW T, NEW U, T \subseteq U, Counted(s, a, T)
  PROVE  Counted(s, a, U)
BY DEF Counted, Elsewhere

\* Two lines of T.
LEMMA CountedTwo ==
  ASSUME NEW l \in LineSet, NEW m \in LineSet, NEW T, l.acct \in T, m.acct \in T,
         NEW a, a = Bases[l] + Bases[m], \A k \in KaratSet : GramsOf(k)[l] + GramsOf(k)[m] = 0
  PROVE  Counted(<<l, m>>, a, T)
<1>1. \A f : Measure(f, LineSet) => AddsUp(f, <<l, m>>, f[l] + f[m])
  BY AddsTwo
<1>2. ASSUME NEW f, Measure(f, LineSet), Elsewhere(f, T) PROVE AddsUp(f, <<l, m>>, 0)
  <2>1. f[l] = 0 /\ f[m] = 0
    BY <1>2 DEF Elsewhere
  <2>2. AddsUp(f, <<l, m>>, f[l] + f[m])
    BY <1>1, <1>2
  <2> QED BY <2>1, <2>2
<1>3. ASSUME NEW k \in KaratSet PROVE AddsUp(GramsOf(k), <<l, m>>, 0)
  <2>1. AddsUp(GramsOf(k), <<l, m>>, GramsOf(k)[l] + GramsOf(k)[m])
    BY <1>1, Measures
  <2> QED BY <2>1
<1>4. AddsUp(Bases, <<l, m>>, a)
  BY <1>1, Measures
<1> QED BY <1>2, <1>3, <1>4 DEF Counted

\* Three lines of T.
LEMMA CountedThree ==
  ASSUME NEW l \in LineSet, NEW m \in LineSet, NEW n \in LineSet, NEW T, l.acct \in T, m.acct \in T, n.acct \in T,
         NEW a, a = Bases[l] + Bases[m] + Bases[n],
         \A k \in KaratSet : GramsOf(k)[l] + GramsOf(k)[m] + GramsOf(k)[n] = 0
  PROVE  Counted(<<l, m, n>>, a, T)
<1>1. \A f : Measure(f, LineSet) => AddsUp(f, <<l, m, n>>, f[l] + f[m] + f[n])
  BY AddsThree
<1>2. ASSUME NEW f, Measure(f, LineSet), Elsewhere(f, T) PROVE AddsUp(f, <<l, m, n>>, 0)
  <2>1. f[l] = 0 /\ f[m] = 0 /\ f[n] = 0
    BY <1>2 DEF Elsewhere
  <2>2. AddsUp(f, <<l, m, n>>, f[l] + f[m] + f[n])
    BY <1>1, <1>2
  <2> QED BY <2>1, <2>2
<1>3. ASSUME NEW k \in KaratSet PROVE AddsUp(GramsOf(k), <<l, m, n>>, 0)
  <2>1. AddsUp(GramsOf(k), <<l, m, n>>, GramsOf(k)[l] + GramsOf(k)[m] + GramsOf(k)[n])
    BY <1>1, Measures
  <2> QED BY <2>1
<1>4. AddsUp(Bases, <<l, m, n>>, a)
  BY <1>1, Measures
<1> QED BY <1>2, <1>3, <1>4 DEF Counted

\* A document all of whose lines are counted, and come to nothing, is let in.
LEMMA CountedLetIn ==
  ASSUME NEW s, s # <<>>, NEW T, Counted(s, 0, T)
  PROVE  s \in Seq(LineSet) /\ Valid(s) /\ \A a : a \notin T => Untouched(s, a)
BY LetIn, QuietIs DEF Counted

RefundAccounts == SaleAccounts \cup {"CASH"}

\* The parts of a refund's entry.
RefundShape(o, i, qty, rate, it, value, tax, making, slice, cost, grams, stone) ==
  /\ it = o.items[i] /\ value = Unit(it).price * qty /\ tax = Percent(value, rate)
  /\ making = Unit(it).making * qty /\ slice = Slice(o, value) /\ cost = Cost(it, qty)
  /\ grams = Unit(it).grams * qty /\ stone = -(Unit(it).stone * qty)
  /\ RefundLines(o, i, qty, rate) =
       (((<<Usd("SALES_REVENUE", value - making), Usd("VAT_PAYABLE", tax)>>
          \o When(making > 0, Usd("MAKING_CHARGE_REVENUE", making)))
         \o <<Usd("CASH", slice - value - tax), Metal("METAL_INVENTORY", cost, grams, Unit(it).karat),
              Metal("METAL_COGS", -cost, -grams, Unit(it).karat)>>)
        \o When(slice > 0, Usd("SALES_DISCOUNTS", -slice)))
       \o Stones(stone)

\* The lines of a refund, by what they are made of.
LEMMA RefundParts ==
  ASSUME NEW o, NEW i, NEW qty, NEW rate
  PROVE  \E it, value, tax, making, slice, cost, grams, stone :
           RefundShape(o, i, qty, rate, it, value, tax, making, slice, cost, grams, stone)
BY DEF RefundLines, RefundShape

\* A refund balances and is let in, whatever the tax and the discount come to.
LEMMA RefundBooks ==
  ASSUME NEW o \in OrderSet, NEW i \in DOMAIN o.items, NEW qty \in Nat, NEW rate \in Nat
  PROVE  /\ RefundLines(o, i, qty, rate) \in Seq(LineSet) /\ Valid(RefundLines(o, i, qty, rate))
         /\ \A a : a \notin RefundAccounts => Untouched(RefundLines(o, i, qty, rate), a)
<1>1. PICK it, value, tax, making, slice, cost, grams, stone :
        RefundShape(o, i, qty, rate, it, value, tax, making, slice, cost, grams, stone)
  BY RefundParts
<1> USE DEF RefundShape
<1>2. it.unit \in DOMAIN Catalogue /\ o.subtotal \in Nat /\ o.discount \in Nat
  <2>1. o.items \in Seq(ItemSet) /\ o.subtotal \in Nat /\ o.discount \in Nat
    BY DEF OrderSet
  <2>2. o.items[i] \in ItemSet
    BY <2>1
  <2> QED BY <1>1, <2>1, <2>2 DEF ItemSet
<1>3. PICK k : k = Unit(it).karat /\ k \in KaratSet
  BY <1>2, UnitTypes
<1>4. value \in Nat /\ making \in Nat /\ grams \in Nat /\ cost \in Nat /\ stone \in Int
  <2>1. PICK p, q, g, s : p = Unit(it).price /\ q = Unit(it).making /\ g = Unit(it).grams /\ s = Unit(it).stone
    OBVIOUS
  <2>2. p \in Nat /\ q \in Nat /\ g \in Nat /\ s \in Nat
    BY <1>2, <2>1, UnitTypes
  <2>3. p * qty \in Nat /\ q * qty \in Nat /\ g * qty \in Nat /\ s * qty \in Nat
    BY <2>2, TimesNat
  <2>4. -(s * qty) \in Int
    BY <2>3
  <2> QED BY <1>1, <1>2, <2>1, <2>3, <2>4, CostNat
<1>5. tax \in Nat /\ slice \in Nat
  <2>1. tax \in Nat
    BY <1>1, <1>4, PercentNat
  <2>2. ASSUME o.subtotal > 0 PROVE HalfEven(o.discount * value, o.subtotal) \in Nat
    <3>1. PICK d, s : d = o.discount /\ s = o.subtotal
      OBVIOUS
    <3>2. d \in Nat /\ s \in Nat \ {0}
      BY <1>2, <2>2, <3>1
    <3>3. d * value \in Nat
      BY <1>4, <3>2, TimesNat
    <3> QED BY <3>1, <3>2, <3>3, RoundedNat
  <2> QED BY <1>1, <2>1, <2>2 DEF Slice
<1>6. PICK r, x, c, g, d : r = value - making /\ x = slice - value - tax /\ c = -cost /\ g = -grams /\ d = -slice
  OBVIOUS
<1>7. r \in Int /\ x \in Int /\ c \in Int /\ g \in Int /\ d \in Int /\ cost + c = 0 /\ grams + g = 0
  BY <1>4, <1>5, <1>6
<1>8. PICK H, A, M, C, E :
        /\ H = <<Usd("SALES_REVENUE", r), Usd("VAT_PAYABLE", tax)>>
        /\ A = When(making > 0, Usd("MAKING_CHARGE_REVENUE", making))
        /\ M = <<Usd("CASH", x), Metal("METAL_INVENTORY", cost, grams, k), Metal("METAL_COGS", c, g, k)>>
        /\ C = When(slice > 0, Usd("SALES_DISCOUNTS", d)) /\ E = Stones(stone)
  OBVIOUS
<1>9. RefundLines(o, i, qty, rate) = (((H \o A) \o M) \o C) \o E
  BY <1>1, <1>3, <1>6, <1>8
<1>10. Counted(H, r + tax, RefundAccounts) /\ H # <<>>
  <2>1. PICK l, m : l = Usd("SALES_REVENUE", r) /\ m = Usd("VAT_PAYABLE", tax)
    OBVIOUS
  <2>2. /\ l \in LineSet /\ m \in LineSet /\ l.acct = "SALES_REVENUE" /\ m.acct = "VAT_PAYABLE"
        /\ Bases[l] = r /\ Bases[m] = tax /\ \A j \in KaratSet : GramsOf(j)[l] = 0 /\ GramsOf(j)[m] = 0
    <3>1. tax \in Int
      BY <1>5
    <3> QED BY <1>7, <2>1, <3>1, Chart, UsdLine, OfUsd
  <2>3. l.acct \in RefundAccounts /\ m.acct \in RefundAccounts
    BY <2>2 DEF RefundAccounts, SaleAccounts
  <2>4. PICK a : a = r + tax /\ a = Bases[l] + Bases[m]
    BY <2>2
  <2>5. \A j \in KaratSet : GramsOf(j)[l] + GramsOf(j)[m] = 0
    BY <2>2
  <2>6. Counted(<<l, m>>, a, RefundAccounts)
    BY <2>2, <2>3, <2>4, <2>5, CountedTwo
  <2> QED BY <1>8, <2>1, <2>4, <2>6
<1>11. Counted(A, making, RefundAccounts)
  <2>1. PICK b : b = (making > 0)
    OBVIOUS
  <2>2. b \in BOOLEAN /\ making \in Int /\ (IF b THEN making ELSE 0) = making
    <3>1. b \in BOOLEAN /\ making \in Int
      BY <1>4, <2>1
    <3>2. CASE b
      BY <3>1, <3>2
    <3>3. CASE ~b
      <4>1. ~(making > 0)
        BY ONLY <2>1, <3>3, Zenon
      <4>2. making = 0
        BY <1>4, <4>1
      <4> QED BY <3>1, <3>3, <4>2
    <3> QED BY <3>1, <3>2, <3>3
  <2>3. "MAKING_CHARGE_REVENUE" \in RefundAccounts
    BY DEF RefundAccounts, SaleAccounts
  <2>4. Counted(When(b, Usd("MAKING_CHARGE_REVENUE", making)), IF b THEN making ELSE 0, RefundAccounts)
    BY <2>2, <2>3, Chart, CountedUsd
  <2> QED BY <1>8, <2>1, <2>2, <2>4
<1>12. Counted(M, x, RefundAccounts)
  <2>1. PICK l, m, n : /\ l = Usd("CASH", x) /\ m = Metal("METAL_INVENTORY", cost, grams, k)
                       /\ n = Metal("METAL_COGS", c, g, k)
    OBVIOUS
  <2>2. l \in LineSet /\ l.acct = "CASH" /\ Bases[l] = x /\ \A j \in KaratSet : GramsOf(j)[l] = 0
    BY <1>7, <2>1, Chart, UsdLine, OfUsd
  <2>3. /\ m \in LineSet /\ n \in LineSet /\ m.acct = "METAL_INVENTORY" /\ n.acct = "METAL_COGS"
        /\ Bases[m] = cost /\ Bases[n] = c
        /\ \A j \in KaratSet : GramsOf(j)[m] = (IF j = k THEN grams ELSE 0) /\ GramsOf(j)[n] = IF j = k THEN g ELSE 0
    <3>1. cost \in Int /\ grams \in Int
      BY <1>4
    <3> QED BY <1>3, <1>7, <2>1, <3>1, Chart, MetalLine, OfMetal
  <2>4. l.acct \in RefundAccounts /\ m.acct \in RefundAccounts /\ n.acct \in RefundAccounts
    BY <2>2, <2>3 DEF RefundAccounts, SaleAccounts
  <2>5. x = Bases[l] + Bases[m] + Bases[n]
    <3>1. x + cost + c = x
      BY <1>4, <1>7
    <3> QED BY <2>2, <2>3, <3>1
  <2>6. \A j \in KaratSet : GramsOf(j)[l] + GramsOf(j)[m] + GramsOf(j)[n] = 0
    BY <1>4, <1>7, <2>2, <2>3
  <2>7. Counted(<<l, m, n>>, x, RefundAccounts)
    BY <2>2, <2>3, <2>4, <2>5, <2>6, CountedThree
  <2> QED BY <1>8, <2>1, <2>7
<1>13. Counted(C, d, RefundAccounts)
  <2>1. PICK b : b = (slice > 0)
    OBVIOUS
  <2>2. b \in BOOLEAN /\ (IF b THEN d ELSE 0) = d
    <3>1. b \in BOOLEAN
      BY <1>5, <2>1
    <3>2. CASE b
      BY <3>2
    <3>3. CASE ~b
      <4>1. ~(slice > 0)
        BY ONLY <2>1, <3>3, Zenon
      <4>2. d = 0
        BY <1>5, <1>6, <4>1
      <4> QED BY <3>1, <3>3, <4>2
    <3> QED BY <3>1, <3>2, <3>3
  <2>3. "SALES_DISCOUNTS" \in RefundAccounts
    BY DEF RefundAccounts, SaleAccounts
  <2>4. Counted(When(b, Usd("SALES_DISCOUNTS", d)), IF b THEN d ELSE 0, RefundAccounts)
    BY <1>7, <2>2, <2>3, Chart, CountedUsd
  <2> QED BY <1>8, <2>1, <2>2, <2>4
<1>14. Counted(E, 0, RefundAccounts)
  <2>1. SaleAccounts \subseteq RefundAccounts
    BY DEF RefundAccounts
  <2> QED BY <1>4, <1>8, <2>1, StonesCounted, CountedWider
<1>15. Counted((((H \o A) \o M) \o C) \o E, ((((r + tax) + making) + x) + d) + 0, RefundAccounts)
  BY <1>10, <1>11, <1>12, <1>13, <1>14, CountedJoin
<1>16. ((((r + tax) + making) + x) + d) + 0 = 0
  BY <1>4, <1>5, <1>6
<1>17. RefundLines(o, i, qty, rate) # <<>>
  <2>1. /\ H \in Seq(LineSet) /\ A \in Seq(LineSet) /\ M \in Seq(LineSet) /\ C \in Seq(LineSet) /\ E \in Seq(LineSet)
    BY <1>10, <1>11, <1>12, <1>13, <1>14 DEF Counted, AddsUp
  <2> QED BY <1>9, <1>10, <2>1, SomethingSaid
<1> QED BY <1>9, <1>15, <1>16, <1>17, CountedLetIn

\* A line of a reversal.
Opposite(l) == [l EXCEPT !.base = -@, !.money = -@, !.grams = -@]

\* A line of a reversal undoes the line it is of.
LEMMA OppositeLine ==
  ASSUME NEW l \in LineSet
  PROVE  /\ Opposite(l) \in LineSet
         /\ Bases[Opposite(l)] + Bases[l] = 0
         /\ \A k : GramsOf(k)[Opposite(l)] + GramsOf(k)[l] = 0
         /\ \A A : BaseIn(A)[Opposite(l)] + BaseIn(A)[l] = 0
         /\ \A a, k : GramsIn(a, k)[Opposite(l)] + GramsIn(a, k)[l] = 0
         /\ \A a : CountIn(a)[Opposite(l)] = CountIn(a)[l]
<1>1. PICK m, b, y, g : m = Opposite(l) /\ b = -l.base /\ y = -l.money /\ g = -l.grams
  OBVIOUS
<1>2. /\ l.acct \in Accounts /\ l.currency \in {"USD", "LBP"} /\ l.karat \in KaratSet \cup {NONE}
      /\ l.base \in Int /\ l.money \in Int /\ l.grams \in Int
      /\ l = [acct |-> l.acct, base |-> l.base, money |-> l.money, currency |-> l.currency,
              grams |-> l.grams, karat |-> l.karat]
  BY DEF LineSet
<1>3. m = [acct |-> l.acct, base |-> b, money |-> y, currency |-> l.currency, grams |-> g, karat |-> l.karat]
  BY <1>1, <1>2 DEF Opposite
<1>4. b \in Int /\ y \in Int /\ g \in Int /\ b + l.base = 0 /\ g + l.grams = 0 /\ y + l.money = 0
  BY <1>1, <1>2
<1>5. m \in LineSet
  <2>1. (l.grams # 0 => l.acct \in Dual /\ l.karat # NONE) /\ (l.acct \in CashKeys \ {"CASH_LBP"} => l.money = l.base)
    BY DEF LineSet
  <2>2. g # 0 => l.grams # 0
    BY ONLY <1>2, <1>4
  <2>3. l.money = l.base => y = b
    BY ONLY <1>2, <1>4
  <2> QED BY <1>2, <1>3, <1>4, <2>1, <2>2, <2>3 DEF LineSet
<1>6. /\ m.acct = l.acct /\ m.karat = l.karat /\ m.base + l.base = 0 /\ m.grams + l.grams = 0
  BY <1>3, <1>4
<1>7. Bases[m] + Bases[l] = 0 /\ \A k : GramsOf(k)[m] + GramsOf(k)[l] = 0
  BY ONLY <1>5, <1>6, l \in LineSet DEF Bases, GramsOf
<1>8. /\ \A A : BaseIn(A)[m] + BaseIn(A)[l] = 0
      /\ \A a, k : GramsIn(a, k)[m] + GramsIn(a, k)[l] = 0
      /\ \A a : CountIn(a)[m] = CountIn(a)[l]
  BY ONLY <1>5, <1>6, l \in LineSet DEF BaseIn, GramsIn, CountIn
<1> QED BY <1>1, <1>5, <1>7, <1>8

\* A reversal has a line for each line of the entry.
LEMMA NegatedIs ==
  ASSUME NEW s \in Seq(LineSet)
  PROVE  /\ Negated(s) \in Seq(LineSet) /\ Len(Negated(s)) = Len(s)
         /\ \A i \in 1..Len(s) : s[i] \in LineSet /\ Negated(s)[i] = Opposite(s[i])
<1>1. Negated(s) = [i \in 1..Len(s) |-> Opposite(s[i])] /\ Len(s) \in Nat
  BY DEF Negated, Opposite
<1>2. \A i \in 1..Len(s) : s[i] \in LineSet /\ Opposite(s[i]) \in LineSet
  BY OppositeLine
<1> QED BY <1>1, <1>2

\* A sum over the reversal of an entry.
LEMMA NegatedAdds ==
  ASSUME NEW s \in Seq(LineSet), NEW f, Measure(f, LineSet), \A l \in LineSet : f[Opposite(l)] + f[l] = 0
  PROVE  SumOver(f, Negated(s)) + SumOver(f, s) = 0
<1>1. PICK n, t : n = Len(s) /\ t = Negated(s)
  OBVIOUS
<1>2. /\ n \in Nat /\ DOMAIN s = 1..n /\ t \in Seq(LineSet) /\ Len(t) = n /\ DOMAIN t = 1..n
      /\ \A i \in 1..n : s[i] \in LineSet /\ t[i] = Opposite(s[i])
  BY <1>1, NegatedIs
<1>3. PICK u, v, z : /\ u = [i \in DOMAIN s |-> f[s[i]]] /\ v = [i \in DOMAIN t |-> f[t[i]]]
                     /\ z = [i \in 1..n |-> 0]
  OBVIOUS
<1>4. \A i \in 1..n : u[i] \in Int /\ v[i] \in Int /\ z[i] = u[i] + v[i]
  <2>1. \A i \in 1..n : /\ u[i] = f[s[i]] /\ v[i] = f[Opposite(s[i])] /\ s[i] \in LineSet
                         /\ Opposite(s[i]) \in LineSet /\ z[i] = 0
    BY <1>2, <1>3, OppositeLine
  <2>2. \A i \in 1..n : u[i] \in Int /\ v[i] \in Int /\ v[i] + u[i] = 0
    BY <2>1 DEF Measure
  <2> QED BY <2>1, <2>2
<1>5. SumTo(z, n) = SumTo(u, n) + SumTo(v, n)
  BY <1>2, <1>4, RowPlus
<1>6. SumTo(z, n) = 0
  BY <1>2, <1>3, RowZero
<1>7. SumTo(u, n) \in Int /\ SumTo(v, n) \in Int
  BY <1>2, <1>4, RowSum
<1>8. SumTo(v, n) + SumTo(u, n) = 0
  BY <1>5, <1>6, <1>7
<1> QED BY <1>1, <1>2, <1>3, <1>8 DEF SumOver

\* A reversal is let in, and leaves alone what its entry left alone.
LEMMA NegatedBooks ==
  ASSUME NEW s \in Seq(LineSet), Valid(s)
  PROVE  /\ Negated(s) \in Seq(LineSet) /\ Valid(Negated(s))
         /\ \A a : Untouched(s, a) => Untouched(Negated(s), a)
<1>1. PICK t : t = Negated(s)
  OBVIOUS
<1>2. t \in Seq(LineSet) /\ Len(t) = Len(s) /\ \A i \in 1..Len(s) : s[i] \in LineSet /\ t[i] = Opposite(s[i])
  BY <1>1, NegatedIs
<1>3. s # <<>> /\ SumOver(Bases, s) = 0 /\ \A i \in DOMAIN Karats : SumOver(GramsOf(Karats[i]), s) = 0
  BY TotalIs DEF Valid
<1>4. ASSUME NEW k \in KaratSet PROVE SumOver(GramsOf(k), s) = 0
  <2>1. PICK i \in DOMAIN Karats : Karats[i] = k
    <3>1. Karats[1] = "K18" /\ Karats[2] = "K21" /\ DOMAIN Karats = 1..2
      BY DEF Karats
    <3> QED BY <3>1 DEF KaratSet
  <2> QED BY <1>3, <2>1
<1>5. ASSUME NEW f, Measure(f, LineSet), \A l \in LineSet : f[Opposite(l)] + f[l] = 0, SumOver(f, s) = 0
      PROVE  AddsUp(f, t, 0)
  <2>1. SumOver(f, t) + SumOver(f, s) = 0
    BY <1>1, <1>5, NegatedAdds
  <2>3. SumOver(f, t) \in Int
    BY <1>2, <1>5, OverType
  <2>2. SumOver(f, t) = 0
    BY <1>5, <2>1, <2>3
  <2> QED BY <1>2, <2>2 DEF AddsUp
<1>6. AddsUp(Bases, t, 0)
  BY <1>3, <1>5, Measures, OppositeLine
<1>7. \A k \in KaratSet : AddsUp(GramsOf(k), t, 0)
  BY <1>4, <1>5, Measures, OppositeLine
<1>8. t # <<>>
  <2>1. Len(s) # 0
    BY <1>3, EmptySeq
  <2> QED BY <1>2, <2>1
<1>9. ASSUME NEW a, Untouched(s, a) PROVE Untouched(t, a)
  <2>1. AddsUp(BaseIn({a}), t, 0)
    <3>1. SumOver(BaseIn({a}), s) = 0
      BY <1>9 DEF Untouched, AddsUp
    <3> QED BY <1>5, <3>1, Measures, OppositeLine
  <2>2. ASSUME NEW k \in KaratSet PROVE AddsUp(GramsIn(a, k), t, 0)
    <3>1. SumOver(GramsIn(a, k), s) = 0
      BY <1>9 DEF Untouched, AddsUp
    <3> QED BY <1>5, <3>1, Measures, OppositeLine
  <2>3. AddsUp(CountIn(a), t, 0)
    <3>1. PICK f : f = CountIn(a)
      OBVIOUS
    <3>2. /\ DOMAIN s = 1..Len(s) /\ DOMAIN t = 1..Len(s) /\ Len(s) \in Nat
          /\ \A i \in 1..Len(s) : f[t[i]] = f[s[i]]
      BY <1>2, <3>1, OppositeLine
    <3>3. [i \in DOMAIN s |-> f[s[i]]] = [i \in DOMAIN t |-> f[t[i]]]
      BY <3>2
    <3>4. SumOver(f, t) = SumOver(f, s)
      BY <1>2, <3>3 DEF SumOver
    <3>5. SumOver(f, s) = 0
      BY <1>9, <3>1 DEF Untouched, AddsUp
    <3> QED BY <1>2, <3>1, <3>4, <3>5 DEF AddsUp
  <2> QED BY <2>1, <2>2, <2>3 DEF Untouched
<1> QED BY <1>1, <1>6, <1>7, <1>8, <1>9, LetIn

\* The totals of an order as it is made, and as it is after a refund.
LEMMA NewOrderType ==
  ASSUME NEW cart \in Carts, NEW pay \in Tills, NEW percent \in Discounts, NEW rate \in VatRates, NEW o,
         o = NewOrder(cart, pay, percent, rate)
  PROVE  o \in OrderSet /\ o.total = o.subtotal + o.vat - o.discount /\ o.pay = pay /\ o.status = "COMPLETED"
<1>1. PICK n : n = Len(cart) /\ n \in Nat /\ DOMAIN cart = 1..n
  BY SaleAssumption
<1>2. ASSUME NEW i \in 1..n
      PROVE  cart[i].unit \in DOMAIN Catalogue /\ cart[i].qty \in Nat /\ Unit(cart[i]).price * cart[i].qty \in Nat
  <2>1. cart \in Seq([unit : DOMAIN Catalogue, qty : Nat])
    BY SaleAssumption
  <2>7. PICK S : S = [unit : DOMAIN Catalogue, qty : Nat]
    OBVIOUS
  <2>8. cart \in Seq(S)
    BY <2>1, <2>7
  <2>9. cart[i] \in S
    BY <1>1, <2>8
  <2>2. cart[i] \in [unit : DOMAIN Catalogue, qty : Nat]
    BY <2>7, <2>9
  <2>3. PICK p, q : p = Unit(cart[i]).price /\ q = cart[i].qty
    OBVIOUS
  <2>4. cart[i].unit \in DOMAIN Catalogue /\ q \in Nat
    BY <2>2, <2>3
  <2>5. p \in Nat
    BY <2>3, <2>4, UnitTypes
  <2>6. p * q \in Nat
    BY <2>4, <2>5, TimesNat
  <2> QED BY <2>3, <2>4, <2>6
<1>3. PICK subtotal, items :
        /\ subtotal = Total(cart, LAMBDA it : Unit(it).price * it.qty)
        /\ items = [i \in DOMAIN cart |-> [unit |-> cart[i].unit, qty |-> cart[i].qty, refunded |-> 0]]
  OBVIOUS
<1>4. subtotal \in Nat
  <2>1. PICK v : v = [i \in DOMAIN cart |-> Unit(cart[i]).price * cart[i].qty]
    OBVIOUS
  <2>2. SumTo(v, n) \in Nat
    BY <1>1, <1>2, <2>1, RowNat
  <2> QED BY <1>1, <1>3, <2>1, <2>2 DEF Total
<1>5. items \in Seq(ItemSet)
  <2>1. \A i \in 1..n : [unit |-> cart[i].unit, qty |-> cart[i].qty, refunded |-> 0] \in ItemSet
    BY <1>2 DEF ItemSet
  <2>2. DOMAIN items = 1..n /\ items = [i \in 1..n |-> items[i]]
    BY <1>1, <1>3
  <2>3. \A i \in 1..n : items[i] \in ItemSet
    BY <1>1, <1>3, <2>1
  <2> QED BY ONLY <1>1, <2>2, <2>3
<1>6. rate \in Nat /\ percent \in Nat /\ pay \in {"CASH", "CARD", "CREDIT"}
  <2>1. rate \in 0..100 /\ percent \in 0..100
    BY RateAssumption
  <2>2. pay \in {"CASH", "CARD", "CREDIT"}
    BY SaleAssumption
  <2> QED BY <2>1, <2>2
<1>7. PICK tax, discount : tax = Percent(subtotal, rate) /\ discount = Percent(subtotal, percent)
  OBVIOUS
<1>8. tax \in Nat /\ discount \in Nat
  BY <1>4, <1>6, <1>7, PercentNat
<1>9. o = [pay |-> pay, status |-> "COMPLETED", vatPercent |-> rate, percent |-> percent,
           items |-> items, subtotal |-> subtotal, vat |-> tax, discount |-> discount,
           total |-> subtotal + tax - discount, handed |-> 0, retaxed |-> FALSE]
  BY <1>3, <1>7 DEF NewOrder
<1>10. subtotal + tax - discount \in Int
  BY <1>4, <1>8
<1> QED BY <1>4, <1>5, <1>6, <1>8, <1>9, <1>10 DEF OrderSet

\* An order of which something was refunded is an order, and no longer complete.
LEMMA RefundedType ==
  ASSUME NEW o \in OrderSet, NEW i \in DOMAIN o.items,
         NEW qty \in 1..(o.items[i].qty - o.items[i].refunded), NEW rate \in VatRates
  PROVE  /\ Refunded(o, i, qty, rate) \in OrderSet /\ Refunded(o, i, qty, rate).pay = o.pay
         /\ i \in DOMAIN Refunded(o, i, qty, rate).items /\ Refunded(o, i, qty, rate).status # "COMPLETED"
<1>1. PICK items : items = [o.items EXCEPT ![i].refunded = @ + qty]
  OBVIOUS
<1>2. /\ o.items \in Seq(ItemSet) /\ o.vatPercent \in Nat /\ o.percent \in Nat /\ o.total \in Int /\ o.handed \in Int
      /\ o.pay \in {"CASH", "CARD", "CREDIT"} /\ o.retaxed \in BOOLEAN
  BY DEF OrderSet
<1>3. items \in Seq(ItemSet) /\ i \in DOMAIN items
  <2>1. o.items[i] \in ItemSet
    BY <1>2
  <2>2. PICK it : it = [o.items[i] EXCEPT !.refunded = @ + qty]
    OBVIOUS
  <2>3. it \in ItemSet
    <3>1. o.items[i].qty \in Nat /\ o.items[i].refunded \in Nat /\ o.items[i].unit \in DOMAIN Catalogue
      BY <2>1 DEF ItemSet
    <3>2. PICK q, r : q = o.items[i].qty /\ r = o.items[i].refunded
      OBVIOUS
    <3>3. r + qty \in Nat /\ r + qty <= q
      BY <3>1, <3>2
    <3> QED BY <2>1, <2>2, <3>1, <3>2, <3>3 DEF ItemSet
  <2>4. items = [o.items EXCEPT ![i] = it]
    BY <1>1, <2>2
  <2> QED BY <1>2, <2>3, <2>4
<1>4. PICK s : s = Remaining(items) /\ s \in Nat
  BY <1>3, ItemTotals
<1>5. PICK t, d : t = Percent(s, o.vatPercent) /\ d = Percent(s, o.percent)
  OBVIOUS
<1>6. t \in Nat /\ d \in Nat
  BY <1>2, <1>4, <1>5, PercentNat
<1>7. PICK n, h, b, st :
        /\ n = s + t - d /\ h = o.handed + o.total - n /\ b = (o.retaxed \/ rate # o.vatPercent)
        /\ st = IF \A j \in DOMAIN items : items[j].refunded >= items[j].qty THEN "REFUNDED" ELSE "PARTIALLY_REFUNDED"
  OBVIOUS
<1>8. n \in Int /\ h \in Int /\ b \in BOOLEAN /\ st \in {"REFUNDED", "PARTIALLY_REFUNDED"}
  BY <1>2, <1>4, <1>6, <1>7
<1>9. Refunded(o, i, qty, rate) =
        [o EXCEPT !.items = items, !.subtotal = s, !.vat = t, !.discount = d, !.total = n,
                  !.handed = h, !.retaxed = b, !.status = st]
  <2>1. Refunded(o, i, qty, rate) =
        [o EXCEPT !.items = items, !.subtotal = s, !.vat = t, !.discount = d, !.total = n,
                  !.handed = o.handed + o.total - n, !.retaxed = (o.retaxed \/ rate # o.vatPercent), !.status = st]
    BY <1>1, <1>4, <1>5, <1>7 DEF Refunded
  <2> QED BY <1>7, <2>1
<1> QED BY ZenonT(60), <1>3, <1>4, <1>6, <1>8, <1>9 DEF OrderSet

-----------------------------------------------------------------------------
(* Invoices, bills and settlements.                                         *)

RateSet == FxRates \cup {1}
CurrencySet == {"USD", "LBP"}

\* A rate, and the units a cent of it is worth.
LEMMA RateUnits ==
  ASSUME NEW rate \in RateSet
  PROVE  /\ rate \in Nat \ {0} /\ FxUnit \in Nat \ {0}
         /\ \E u \in Nat : u = FxUnit \div rate /\ rate * u = FxUnit
<1>1. rate \in Nat \ {0} /\ FxUnit \in Nat \ {0} /\ FxUnit % rate = 0
  <2>1. FxUnit \in Nat \ {0}
    BY FxAssumption
  <2>2. CASE rate = 1
    BY <2>1, <2>2
  <2>3. CASE rate # 1
    BY <2>3, FxAssumption DEF RateSet
  <2> QED BY <2>1, <2>2, <2>3
<1>2. PICK q, r \in Int : q = FxUnit \div rate /\ r = FxUnit % rate /\ FxUnit = rate * q + r /\ 0 <= r /\ r < rate
  BY <1>1, DivRest
<1>3. FxUnit = rate * q
  BY <1>1, <1>2
<1>4. q \in Nat
  <2>1. SUFFICES ASSUME q <= -1 PROVE FALSE
    BY <1>2
  <2>2. q * rate <= (-1) * rate
    BY <1>1, <1>2, <2>1, TimesAtMost
  <2> QED BY <1>1, <1>2, <1>3, <2>2
<1> QED BY <1>1, <1>2, <1>3, <1>4

\* An amount in dollars is no further than half a cent from what it is worth.
LEMMA BaseClose ==
  ASSUME NEW amount \in Int, NEW rate \in RateSet
  PROVE  \E h, u \in Int : /\ h = Base(amount, rate) /\ u = FxUnit \div rate
                           /\ 2 * (FxUnit * h) <= 2 * (amount * u) + FxUnit
                           /\ 2 * (amount * u) - FxUnit <= 2 * (FxUnit * h)
<1>1. rate \in Nat \ {0} /\ FxUnit \in Nat \ {0}
  BY RateUnits
<1>2. PICK u \in Nat : u = FxUnit \div rate /\ rate * u = FxUnit
  BY RateUnits
<1>3. PICK h \in Int : /\ h = HalfEven(amount, rate)
                       /\ 2 * (rate * h) <= 2 * amount + rate /\ 2 * amount - rate <= 2 * (rate * h)
  BY <1>1, Rounded
<1>4. PICK a, b, c : a = 2 * amount + rate /\ b = 2 * (rate * h) /\ c = 2 * amount - rate
  OBVIOUS
<1>5. a \in Int /\ b \in Int /\ c \in Int /\ b <= a /\ c <= b
  BY <1>1, <1>3, <1>4
<1>6. b * u <= a * u /\ c * u <= b * u
  BY <1>2, <1>5, TimesAtMost
<1>7. PICK x, y : x = amount * u /\ y = FxUnit * h
  OBVIOUS
<1>8. x \in Int /\ y \in Int
  BY <1>1, <1>2, <1>3, <1>7
<1>9. a * u = 2 * x + FxUnit /\ c * u = 2 * x - FxUnit
  <2>1. a * u = 2 * (amount * u) + rate * u /\ c * u = 2 * (amount * u) - rate * u
    BY <1>1, <1>2, <1>4
  <2> QED BY <1>2, <1>7, <2>1
<1>10. b * u = 2 * y
  <2>1. b * u = 2 * ((rate * u) * h)
    BY <1>1, <1>2, <1>3, <1>4
  <2> QED BY <1>2, <1>7, <2>1
<1>11. 2 * y <= 2 * x + FxUnit /\ 2 * x - FxUnit <= 2 * y
  BY <1>6, <1>9, <1>10
<1>12. h = Base(amount, rate) /\ u \in Int
  BY <1>2, <1>3 DEF Base
<1> QED BY <1>2, <1>7, <1>11, <1>12

\* Dollars are not rounded.
LEMMA BaseExact == \A amount \in Int : Base(amount, 1) = amount
BY RoundedExact DEF Base
\* Nothing is worth nothing at any rate.
LEMMA BaseNothing == ASSUME NEW rate \in RateSet PROVE Base(0, rate) = 0
BY RateUnits, RoundedExact DEF Base

\* A line in dollars or pounds.
LEMMA ForeignLine ==
  ASSUME NEW acct \in Accounts, NEW sign \in {1, -1}, NEW amount \in Int, NEW currency \in CurrencySet,
         NEW rate \in RateSet, acct \in CashKeys \ {"CASH_LBP"} => rate = 1
  PROVE  /\ Foreign(acct, sign, amount, currency, rate) \in LineSet
         /\ Foreign(acct, sign, amount, currency, rate).acct = acct
         /\ Foreign(acct, sign, amount, currency, rate).base = sign * Base(amount, rate)
         /\ Foreign(acct, sign, amount, currency, rate).grams = 0
<1>1. PICK b : b = Base(amount, rate) /\ b \in Int
  BY BaseClose
<1>2. PICK m, n : m = sign * amount /\ n = sign * b
  OBVIOUS
<1>3. m \in Int /\ n \in Int
  BY <1>1, <1>2
<1>4. Foreign(acct, sign, amount, currency, rate) =
        [acct |-> acct, base |-> n, money |-> m, currency |-> currency, grams |-> 0, karat |-> NONE]
  BY <1>1, <1>2 DEF Foreign, Line
<1>5. acct \in CashKeys \ {"CASH_LBP"} => m = n
  BY <1>1, <1>2, BaseExact
<1>6. [acct |-> acct, base |-> n, money |-> m, currency |-> currency, grams |-> 0, karat |-> NONE] \in LineSet
  BY <1>3, <1>5 DEF LineSet, CurrencySet
<1> QED BY <1>1, <1>2, <1>4, <1>6

\* What a line without grams counts for.
LEMMA OfPlain ==
  ASSUME NEW l \in LineSet, l.grams = 0
  PROVE  /\ Bases[l] = l.base
         /\ \A k \in KaratSet : GramsOf(k)[l] = 0
         /\ \A A : BaseIn(A)[l] = IF l.acct \in A THEN l.base ELSE 0
         /\ \A a : \A k \in KaratSet : GramsIn(a, k)[l] = 0
         /\ \A a : CountIn(a)[l] = IF l.acct = a THEN 1 ELSE 0
<1>1. Bases[l] = l.base /\ \A k \in KaratSet : GramsOf(k)[l] = 0
  BY DEF Bases, GramsOf
<1>2. /\ \A A : BaseIn(A)[l] = IF l.acct \in A THEN l.base ELSE 0
      /\ \A a : \A k \in KaratSet : GramsIn(a, k)[l] = 0
      /\ \A a : CountIn(a)[l] = IF l.acct = a THEN 1 ELSE 0
  BY DEF BaseIn, GramsIn, CountIn
<1> QED BY <1>1, <1>2

\* A line without grams.
LEMMA PlainLine ==
  ASSUME NEW l \in LineSet, l.grams = 0, NEW T, l.acct \in T, NEW c \in BOOLEAN
  PROVE  Counted(<<l>>, l.base, T) /\ Counted(When(c, l), IF c THEN l.base ELSE 0, T)
<1>1. Bases[l] = l.base /\ \A k \in KaratSet : GramsOf(k)[l] = 0
  BY OfPlain
<1>2. ASSUME NEW f, Measure(f, LineSet) PROVE AddsUp(f, <<l>>, f[l]) /\ AddsUp(f, <<>>, 0)
  BY <1>2, AddsOne, AddsNone
<1>3. \A f : Elsewhere(f, T) => f[l] = 0
  BY DEF Elsewhere
<1>4. Counted(<<l>>, l.base, T)
  <2>1. AddsUp(Bases, <<l>>, l.base)
    BY <1>1, <1>2, Measures
  <2>2. \A k \in KaratSet : AddsUp(GramsOf(k), <<l>>, 0)
    <3>1. ASSUME NEW k \in KaratSet PROVE AddsUp(GramsOf(k), <<l>>, 0)
      <4>1. AddsUp(GramsOf(k), <<l>>, GramsOf(k)[l])
        BY <1>2, Measures
      <4> QED BY <1>1, <4>1
    <3> QED BY <3>1
  <2>3. ASSUME NEW f, Measure(f, LineSet), Elsewhere(f, T) PROVE AddsUp(f, <<l>>, 0)
    <3>1. AddsUp(f, <<l>>, f[l])
      BY <1>2, <2>3
    <3> QED BY <1>3, <2>3, <3>1
  <2> QED BY <2>1, <2>2, <2>3 DEF Counted
<1>5. Counted(<<>>, 0, T)
  BY <1>2, Measures, AddsNone DEF Counted
<1>6. CASE c
  BY <1>4, <1>6 DEF When
<1>7. CASE ~c
  BY <1>4, <1>5, <1>7 DEF When
<1> QED BY <1>6, <1>7

\* POST /ar/invoices.
InvoiceLines(currency, amount, tax, rate) ==
  <<Line("AR", Base(amount, rate) + Base(tax, rate), amount + tax, currency, 0, NONE),
    Foreign("SALES_REVENUE", -1, amount, currency, rate)>>
  \o When(tax > 0, Foreign("VAT_PAYABLE", -1, tax, currency, rate))

\* An invoice is let in, and adds one line to what customers owe.
LEMMA InvoiceBooks ==
  ASSUME NEW currency \in CurrencySet, NEW amount \in Nat, NEW tax \in Nat, NEW rate \in RateSet, NEW s,
         s = InvoiceLines(currency, amount, tax, rate)
  PROVE  /\ s \in Seq(LineSet) /\ Valid(s) /\ Untouched(s, "AP") /\ Untouched(s, "METAL_AP") /\ Untouched(s, "VENDOR_AP")
         /\ AddsUp(BaseIn({"AR"}), s, Base(amount, rate) + Base(tax, rate)) /\ AddsUp(CountIn("AR"), s, 1)
<1>1. PICK b, t : b = Base(amount, rate) /\ t = Base(tax, rate) /\ b \in Int /\ t \in Int
  BY BaseClose
<1>2. PICK l : l = Line("AR", b + t, amount + tax, currency, 0, NONE)
  OBVIOUS
<1>3. l \in LineSet /\ l.acct = "AR" /\ l.base = b + t /\ l.grams = 0
  <2>1. "AR" \in Accounts /\ "AR" \notin CashKeys
    BY Chart DEF CashKeys
  <2>2. b + t \in Int /\ amount + tax \in Int
    BY <1>1
  <2> QED BY <1>2, <2>1, <2>2 DEF Line, LineSet, CurrencySet
<1>4. PICK m, n : /\ m = Foreign("SALES_REVENUE", -1, amount, currency, rate)
                  /\ n = Foreign("VAT_PAYABLE", -1, tax, currency, rate)
  OBVIOUS
<1>5. /\ m \in LineSet /\ m.acct = "SALES_REVENUE" /\ m.base = -b /\ m.grams = 0
      /\ n \in LineSet /\ n.acct = "VAT_PAYABLE" /\ n.base = -t /\ n.grams = 0
  <2>1. "SALES_REVENUE" \notin CashKeys /\ "VAT_PAYABLE" \notin CashKeys
    BY DEF CashKeys
  <2>2. /\ m \in LineSet /\ m.acct = "SALES_REVENUE" /\ m.base = (-1) * b /\ m.grams = 0
        /\ n \in LineSet /\ n.acct = "VAT_PAYABLE" /\ n.base = (-1) * t /\ n.grams = 0
    BY <1>1, <1>4, <2>1, Chart, ForeignLine
  <2> QED BY <1>1, <2>2
<1>6. PICK c : c = (tax > 0)
  OBVIOUS
<1>7. c \in BOOLEAN
  BY <1>6
<1>8. s = <<l, m>> \o When(c, n)
  BY <1>1, <1>2, <1>4, <1>6 DEF InvoiceLines
<1>9. PICK T, U : T = {"AR", "SALES_REVENUE", "VAT_PAYABLE"} /\ U = {"SALES_REVENUE", "VAT_PAYABLE"}
  OBVIOUS
<1>10. PICK x : x = IF c THEN n.base ELSE 0
  OBVIOUS
<1>11. Counted(When(c, n), x, T) /\ Counted(When(c, n), x, U)
  BY <1>5, <1>7, <1>9, <1>10, PlainLine
<1>12. Bases[l] = b + t /\ Bases[m] = -b /\ \A k \in KaratSet : GramsOf(k)[l] = 0 /\ GramsOf(k)[m] = 0
  BY <1>3, <1>5, OfPlain
<1>13. PICK a : a = Bases[l] + Bases[m] /\ a = t
  BY <1>1, <1>12
<1>14. Counted(<<l, m>>, a, T)
  <2>1. \A k \in KaratSet : GramsOf(k)[l] + GramsOf(k)[m] = 0
    BY <1>12
  <2> QED BY <1>3, <1>5, <1>9, <1>13, <2>1, CountedTwo
<1>15. a + x = 0
  <2>1. CASE c
    BY <1>1, <1>5, <1>10, <1>13, <2>1
  <2>2. CASE ~c
    <3>1. ~(tax > 0)
      BY ONLY <1>6, <2>2, Zenon
    <3>2. tax = 0
      BY <3>1
    <3>3. t = 0
      BY <1>1, <3>2, BaseNothing
    <3> QED BY ONLY <1>10, <1>13, <2>2, <3>3
  <2> QED BY <1>7, <2>1, <2>2
<1>16. Counted(s, 0, T)
  BY <1>8, <1>11, <1>14, <1>15, CountedJoin
<1>17. s # <<>>
  <2>1. <<l, m>> \in Seq(LineSet) /\ <<l, m>> # <<>> /\ When(c, n) \in Seq(LineSet)
    BY <1>3, <1>5, <1>11 DEF Counted, AddsUp
  <2> QED BY <1>8, <2>1, SomethingSaid
<1>18. ASSUME NEW f, Measure(f, LineSet), Elsewhere(f, U), f[l] \in Int PROVE AddsUp(f, s, f[l])
  <2>1. f[m] = 0
    BY <1>5, <1>9, <1>18 DEF Elsewhere
  <2>2. AddsUp(f, <<l, m>>, f[l] + f[m])
    BY <1>3, <1>5, <1>18, AddsTwo
  <2>3. AddsUp(f, When(c, n), 0)
    BY <1>11, <1>18 DEF Counted
  <2>4. AddsUp(f, s, (f[l] + f[m]) + 0)
    BY <1>8, <1>18, <2>2, <2>3, AddsJoin
  <2>5. (f[l] + f[m]) + 0 = f[l]
    BY <1>18, <2>1
  <2> QED BY <2>4, <2>5
<1>19. Elsewhere(BaseIn({"AR"}), U) /\ Elsewhere(CountIn("AR"), U)
  <2>1. "AR" \notin U /\ {"AR"} \cap U = {}
    BY <1>9
  <2> QED BY <2>1, ElsewhereIs
<1>20. BaseIn({"AR"})[l] = b + t /\ CountIn("AR")[l] = 1 /\ b + t \in Int
  BY <1>1, <1>3, OfPlain
<1>21. AddsUp(BaseIn({"AR"}), s, b + t) /\ AddsUp(CountIn("AR"), s, 1)
  <2>1. AddsUp(BaseIn({"AR"}), s, BaseIn({"AR"})[l])
    BY <1>18, <1>19, <1>20, Measures
  <2>2. AddsUp(CountIn("AR"), s, CountIn("AR")[l])
    BY <1>18, <1>19, <1>20, Measures
  <2> QED BY <1>20, <2>1, <2>2
<1>22. "AP" \notin T /\ "METAL_AP" \notin T /\ "VENDOR_AP" \notin T
  BY <1>9
<1> QED BY <1>1, <1>16, <1>17, <1>21, <1>22, CountedLetIn

\* POST /expenses/bills.
BillLines(currency, amounts, tax, total, rate, acct) ==
  ([i \in DOMAIN amounts |-> Foreign("RENT_EXPENSE", 1, amounts[i], currency, rate)]
   \o When(tax > 0, Foreign("VAT_RECEIVABLE", 1, tax, currency, rate)))
  \o <<Foreign(acct, -1, total, currency, rate)>>

\* The lines of a vendor bill, let in or not.  In dollars they always are.
LEMMA BillBooks ==
  ASSUME NEW currency \in CurrencySet, NEW amounts \in Seq(Nat), NEW rate \in RateSet, NEW vatRate \in Nat,
         NEW acct \in {"VENDOR_AP", "CASH", "CASH_LBP"}, acct = "CASH" => rate = 1, NEW total, NEW tax, NEW s,
         tax = Percent(SumTo(amounts, Len(amounts)), vatRate), total = SumTo(amounts, Len(amounts)) + tax,
         s = BillLines(currency, amounts, tax, total, rate, acct)
  PROVE  /\ s \in Seq(LineSet) /\ total \in Nat
         /\ Untouched(s, "AP") /\ Untouched(s, "METAL_AP") /\ Untouched(s, "AR")
         /\ acct # "VENDOR_AP" => Untouched(s, "VENDOR_AP")
         /\ acct = "VENDOR_AP" => AddsUp(BaseIn({"VENDOR_AP"}), s, -Base(total, rate)) /\ AddsUp(CountIn("VENDOR_AP"), s, 1)
         /\ rate = 1 => Valid(s)
<1>1. PICK n : n = Len(amounts) /\ n \in Nat /\ DOMAIN amounts = 1..n
  OBVIOUS
<1>2. \A i \in 1..n : amounts[i] \in Nat
  BY <1>1
<1>3. PICK subtotal : subtotal = SumTo(amounts, n) /\ subtotal \in Nat
  BY <1>1, <1>2, RowNat
<1>4. tax \in Nat /\ total \in Nat /\ total = subtotal + tax
  <2>1. tax = Percent(subtotal, vatRate) /\ total = subtotal + tax
    BY <1>1, <1>3
  <2>2. tax \in Nat
    BY <1>3, <2>1, PercentNat
  <2> QED BY <1>3, <2>1, <2>2
<1>5. PICK R : R = [i \in DOMAIN amounts |-> Foreign("RENT_EXPENSE", 1, amounts[i], currency, rate)]
  OBVIOUS
<1>6. ASSUME NEW i \in 1..n
      PROVE  R[i] \in LineSet /\ R[i].acct = "RENT_EXPENSE" /\ R[i].base = Base(amounts[i], rate) /\ R[i].grams = 0
  <2>1. PICK a : a = amounts[i] /\ a \in Int
    BY <1>2
  <2>2. PICK l, b : l = Foreign("RENT_EXPENSE", 1, a, currency, rate) /\ b = Base(a, rate) /\ b \in Int
    BY <2>1, BaseClose
  <2>3. l \in LineSet /\ l.acct = "RENT_EXPENSE" /\ l.base = 1 * b /\ l.grams = 0
    <3>1. "RENT_EXPENSE" \notin CashKeys
      BY DEF CashKeys
    <3> QED BY <2>1, <2>2, <3>1, Chart, ForeignLine
  <2>4. 1 * b = b
    BY <2>2
  <2> QED BY <1>1, <1>5, <2>1, <2>2, <2>3, <2>4
<1>7. R \in Seq(LineSet) /\ Len(R) = n /\ DOMAIN R = 1..n
  <2>1. DOMAIN R = 1..n /\ R = [i \in 1..n |-> R[i]]
    BY <1>1, <1>5
  <2>2. \A i \in 1..n : R[i] \in LineSet
    BY <1>6
  <2> QED BY ONLY <1>1, <2>1, <2>2
<1>8. ASSUME NEW f, Measure(f, LineSet), \A i \in 1..n : f[R[i]] = 0 PROVE AddsUp(f, R, 0)
  BY <1>7, <1>8, OverZero DEF AddsUp
<1>9. \A i \in 1..n : \A k \in KaratSet : GramsOf(k)[R[i]] = 0
  BY <1>6, OfPlain
<1>10. PICK m, l : m = Foreign("VAT_RECEIVABLE", 1, tax, currency, rate) /\ l = Foreign(acct, -1, total, currency, rate)
  OBVIOUS
<1>11. PICK t, z : t = Base(tax, rate) /\ z = Base(total, rate) /\ t \in Int /\ z \in Int
  BY <1>4, BaseClose
<1>12. m \in LineSet /\ m.acct = "VAT_RECEIVABLE" /\ m.base = t /\ m.grams = 0
  <2>1. "VAT_RECEIVABLE" \notin CashKeys /\ tax \in Int
    BY <1>4 DEF CashKeys
  <2>2. m \in LineSet /\ m.acct = "VAT_RECEIVABLE" /\ m.base = 1 * t /\ m.grams = 0
    BY <1>10, <1>11, <2>1, Chart, ForeignLine
  <2> QED BY <1>11, <2>2
<1>13. l \in LineSet /\ l.acct = acct /\ l.base = -z /\ l.grams = 0
  <2>1. acct \in Accounts /\ total \in Int
    BY <1>4, Chart
  <2>2. acct \in CashKeys \ {"CASH_LBP"} => rate = 1
    BY DEF CashKeys
  <2>3. l \in LineSet /\ l.acct = acct /\ l.base = (-1) * z /\ l.grams = 0
    BY <1>10, <1>11, <2>1, <2>2, ForeignLine
  <2> QED BY <1>11, <2>3
<1>14. PICK c : c = (tax > 0)
  OBVIOUS
<1>15. c \in BOOLEAN
  BY <1>4, <1>14
<1>16. s = (R \o When(c, m)) \o <<l>>
  BY <1>5, <1>10, <1>14 DEF BillLines
<1>17. PICK x : x = IF c THEN t ELSE 0
  OBVIOUS
<1>18. x \in Int /\ (rate = 1 => x = tax)
  <2>1. CASE c
    BY <1>4, <1>11, <1>17, <2>1, BaseExact
  <2>2. CASE ~c
    <3>1. ~(tax > 0)
      BY ONLY <1>14, <2>2, Zenon
    <3>2. tax = 0
      BY <1>4, <3>1
    <3> QED BY <1>17, <2>2, <3>2
  <2> QED BY <1>15, <2>1, <2>2
<1>19. ASSUME NEW T, "VAT_RECEIVABLE" \in T PROVE Counted(When(c, m), x, T)
  BY <1>12, <1>15, <1>17, <1>19, PlainLine
<1>20. ASSUME NEW f, Measure(f, LineSet), NEW r, NEW w, AddsUp(f, R, r), AddsUp(f, When(c, m), w)
       PROVE  AddsUp(f, s, (r + w) + f[l])
  <2>1. AddsUp(f, R \o When(c, m), r + w)
    BY <1>20, AddsJoin
  <2>2. AddsUp(f, <<l>>, f[l])
    BY <1>13, <1>20, AddsOne
  <2> QED BY <1>16, <1>20, <2>1, <2>2, AddsJoin
<1>21. PICK U : U = {"RENT_EXPENSE", "VAT_RECEIVABLE"}
  OBVIOUS
<1>22. ASSUME NEW f, Measure(f, LineSet), Elsewhere(f, U), f[l] \in Int PROVE AddsUp(f, s, f[l])
  <2>1. AddsUp(f, R, 0)
    <3>1. \A i \in 1..n : f[R[i]] = 0
      BY <1>6, <1>21, <1>22 DEF Elsewhere
    <3> QED BY <1>8, <1>22, <3>1
  <2>2. AddsUp(f, When(c, m), 0)
    BY <1>19, <1>21, <1>22 DEF Counted
  <2>3. AddsUp(f, s, (0 + 0) + f[l])
    BY <1>20, <1>22, <2>1, <2>2
  <2>4. (0 + 0) + f[l] = f[l]
    BY <1>22
  <2> QED BY <2>3, <2>4
<1>23. s \in Seq(LineSet)
  <2>1. AddsUp(BaseIn({"AR"}), s, BaseIn({"AR"})[l])
    <3>1. {"AR"} \cap U = {}
      BY <1>21
    <3>2. BaseIn({"AR"})[l] \in Int
      BY <1>13, Measures DEF Measure
    <3> QED BY <1>22, <3>1, <3>2, ElsewhereIs, Measures
  <2> QED BY <2>1 DEF AddsUp
<1>24. ASSUME NEW a, a \notin U, a # acct PROVE Untouched(s, a)
  <2>1. PICK T : T = U \cup {acct}
    OBVIOUS
  <2>2. ASSUME NEW f, Measure(f, LineSet), Elsewhere(f, T) PROVE AddsUp(f, s, 0)
    <3>1. f[l] = 0 /\ Elsewhere(f, U)
      BY <1>13, <2>1, <2>2 DEF Elsewhere
    <3>2. AddsUp(f, s, f[l])
      BY <1>22, <2>2, <3>1
    <3> QED BY <3>1, <3>2
  <2>3. a \notin T
    BY <1>24, <2>1
  <2> QED BY <2>2, <2>3, QuietIs
<1>25. Untouched(s, "AP") /\ Untouched(s, "METAL_AP") /\ Untouched(s, "AR") /\ (acct # "VENDOR_AP" => Untouched(s, "VENDOR_AP"))
  BY <1>21, <1>24
<1>26. ASSUME acct = "VENDOR_AP"
       PROVE  AddsUp(BaseIn({"VENDOR_AP"}), s, -z) /\ AddsUp(CountIn("VENDOR_AP"), s, 1)
  <2>1. BaseIn({"VENDOR_AP"})[l] = -z /\ CountIn("VENDOR_AP")[l] = 1 /\ -z \in Int
    BY <1>11, <1>13, <1>26, OfPlain
  <2>2. Elsewhere(BaseIn({"VENDOR_AP"}), U) /\ Elsewhere(CountIn("VENDOR_AP"), U)
    <3>1. {"VENDOR_AP"} \cap U = {} /\ "VENDOR_AP" \notin U
      BY <1>21
    <3> QED BY <3>1, ElsewhereIs
  <2>3. AddsUp(BaseIn({"VENDOR_AP"}), s, BaseIn({"VENDOR_AP"})[l])
    BY <1>22, <2>1, <2>2, Measures
  <2>4. AddsUp(CountIn("VENDOR_AP"), s, CountIn("VENDOR_AP")[l])
    BY <1>22, <2>1, <2>2, Measures
  <2> QED BY <2>1, <2>3, <2>4
<1>27. ASSUME rate = 1 PROVE Valid(s)
  <2>1. AddsUp(Bases, R, subtotal)
    <3>1. PICK v : v = [i \in DOMAIN R |-> Bases[R[i]]]
      OBVIOUS
    <3>2. ASSUME NEW i \in 1..n PROVE amounts[i] \in Int /\ v[i] = amounts[i]
      <4>1. amounts[i] \in Int
        BY <1>2
      <4>2. Base(amounts[i], rate) = amounts[i]
        BY <1>27, <4>1, BaseExact
      <4>3. Bases[R[i]] = R[i].base
        BY <1>6, OfPlain
      <4> QED BY <1>6, <1>7, <3>1, <4>1, <4>2, <4>3
    <3>3. SumTo(v, n) = SumTo(amounts, n)
      BY <1>1, <3>2, RowSame
    <3>4. SumOver(Bases, R) = subtotal
      BY <1>3, <1>7, <3>1, <3>3 DEF SumOver
    <3> QED BY <1>3, <1>7, <3>4 DEF AddsUp
  <2>2. AddsUp(Bases, When(c, m), x)
    BY <1>19, <1>21 DEF Counted
  <2>3. Bases[l] = -z /\ z = total
    BY <1>4, <1>11, <1>13, <1>27, OfPlain, BaseExact
  <2>4. AddsUp(Bases, s, (subtotal + x) + Bases[l])
    BY <1>20, <2>1, <2>2, Measures
  <2>5. (subtotal + x) + Bases[l] = 0
    BY <1>3, <1>4, <1>18, <1>27, <2>3
  <2>6. AddsUp(Bases, s, 0)
    BY <2>4, <2>5
  <2>7. ASSUME NEW k \in KaratSet PROVE AddsUp(GramsOf(k), s, 0)
    <3>1. AddsUp(GramsOf(k), R, 0)
      BY <1>8, <1>9, Measures
    <3>2. AddsUp(GramsOf(k), When(c, m), 0)
      BY <1>19, <1>21 DEF Counted
    <3>3. GramsOf(k)[l] = 0
      BY <1>13, OfPlain
    <3>4. AddsUp(GramsOf(k), s, (0 + 0) + GramsOf(k)[l])
      BY <1>20, <3>1, <3>2, Measures
    <3>5. (0 + 0) + GramsOf(k)[l] = 0
      BY <3>3
    <3> QED BY <3>4, <3>5
  <2>8. s # <<>>
    <3>1. <<l>> \in Seq(LineSet) /\ <<l>> # <<>> /\ R \o When(c, m) \in Seq(LineSet)
      <4>1. When(c, m) \in Seq(LineSet)
        BY <2>2 DEF AddsUp
      <4> QED BY <1>7, <1>13, <4>1
    <3> QED BY <1>16, <3>1, SomethingSaid
  <2> QED BY <2>6, <2>7, <2>8, LetIn
<1> QED BY <1>4, <1>11, <1>23, <1>25, <1>26, <1>27

Money == {"CASH", "CASH_LBP", "FX_LOSS", "FX_GAIN"}

\* What is left between the two sides of an entry is an exchange difference.
LEMMA GapLetIn ==
  ASSUME NEW s \in Seq(LineSet), s # <<>>, NEW gap, AddsUp(Bases, s, gap), \A k \in KaratSet : AddsUp(GramsOf(k), s, 0),
         NEW t, t = (s \o When(gap < 0, Usd("FX_LOSS", -gap))) \o When(gap > 0, Usd("FX_GAIN", -gap))
  PROVE  /\ t \in Seq(LineSet) /\ Valid(t)
         /\ \A f : \A a : Measure(f, LineSet) /\ Elsewhere(f, {"FX_LOSS", "FX_GAIN"}) /\ AddsUp(f, s, a) => AddsUp(f, t, a)
<1>1. PICK T, d, p, q : T = {"FX_LOSS", "FX_GAIN"} /\ d = -gap /\ p = (gap < 0) /\ q = (gap > 0)
  OBVIOUS
<1>2. gap \in Int /\ d \in Int /\ p \in BOOLEAN /\ q \in BOOLEAN
  BY <1>1 DEF AddsUp
<1>3. PICK v, w : v = When(p, Usd("FX_LOSS", d)) /\ w = When(q, Usd("FX_GAIN", d))
  OBVIOUS
<1>4. PICK x, y : x = (IF p THEN d ELSE 0) /\ y = (IF q THEN d ELSE 0)
  OBVIOUS
<1>5. Counted(v, x, T) /\ Counted(w, y, T)
  BY <1>1, <1>2, <1>3, <1>4, Chart, CountedUsd
<1>6. t = (s \o v) \o w
  BY <1>1, <1>3
<1>7. ASSUME NEW f, NEW a, Measure(f, LineSet), NEW b, NEW c, AddsUp(f, s, a), AddsUp(f, v, b), AddsUp(f, w, c)
      PROVE  AddsUp(f, t, (a + b) + c)
  <2>1. AddsUp(f, s \o v, a + b)
    BY <1>7, AddsJoin
  <2> QED BY <1>6, <1>7, <2>1, AddsJoin
<1>8. ASSUME NEW f, NEW a, Measure(f, LineSet), AddsUp(f, s, a), AddsUp(f, v, 0), AddsUp(f, w, 0) PROVE AddsUp(f, t, a)
  <2>1. AddsUp(f, t, (a + 0) + 0)
    BY <1>7, <1>8
  <2>3. a \in Int
    BY <1>8 DEF AddsUp
  <2>2. (a + 0) + 0 = a
    BY <2>3
  <2> QED BY <2>1, <2>2
<1>9. ASSUME NEW f, NEW a, Measure(f, LineSet), Elsewhere(f, T), AddsUp(f, s, a) PROVE AddsUp(f, t, a)
  BY <1>5, <1>8, <1>9 DEF Counted
<1>10. \A k \in KaratSet : AddsUp(GramsOf(k), t, 0)
  BY <1>5, <1>8, Measures DEF Counted
<1>11. (gap + x) + y = 0
  <2>1. CASE gap < 0
    <3>3. gap < 0 /\ ~(gap > 0)
      BY ONLY <1>2, <2>1
    <3>1. p /\ ~q
      BY ONLY <1>1, <3>3, Zenon
    <3>2. x = d /\ y = 0
      BY <1>4, <3>1
    <3> QED BY <1>1, <1>2, <3>2
  <2>2. CASE gap > 0
    <3>3. gap > 0 /\ ~(gap < 0)
      BY ONLY <1>2, <2>2
    <3>1. q /\ ~p
      BY ONLY <1>1, <3>3, Zenon
    <3>2. y = d /\ x = 0
      BY <1>4, <3>1
    <3> QED BY <1>1, <1>2, <3>2
  <2>3. CASE gap = 0
    <3>1. ~(gap < 0) /\ ~(gap > 0)
      BY ONLY <2>3
    <3>2. ~q /\ ~p
      BY ONLY <1>1, <3>1, Zenon
    <3>3. y = 0 /\ x = 0
      BY ONLY <1>4, <3>2
    <3> QED BY ONLY <2>3, <3>3
  <2> QED BY <1>2, <2>1, <2>2, <2>3
<1>12. AddsUp(Bases, t, 0)
  <2>1. AddsUp(Bases, t, (gap + x) + y)
    BY <1>5, <1>7, Measures DEF Counted
  <2> QED BY <1>11, <2>1
<1>13. t # <<>>
  <2>1. v \in Seq(LineSet) /\ w \in Seq(LineSet)
    BY <1>5 DEF Counted, AddsUp
  <2> QED BY <1>6, <2>1, SomethingSaid
<1>14. t \in Seq(LineSet) /\ Valid(t)
  BY <1>10, <1>12, <1>13, LetIn
<1> QED BY <1>1, <1>9, <1>14

\* One leg of a transfer.
LegOf(acct, sign, amount, rate) ==
  IF acct = "CASH_LBP" THEN Foreign(acct, sign, amount, "LBP", rate) ELSE Usd(acct, sign * amount)
\* The leg of a transfer is a line without grams.
LEMMA LegLine ==
  ASSUME NEW acct \in Tendered, NEW sign \in {1, -1}, NEW amount \in Int, NEW rate \in RateSet
  PROVE  /\ LegOf(acct, sign, amount, rate) \in LineSet /\ LegOf(acct, sign, amount, rate).acct = acct
         /\ LegOf(acct, sign, amount, rate).grams = 0
<1>1. CASE acct = "CASH_LBP"
  BY <1>1, Chart, ForeignLine DEF LegOf, CurrencySet
<1>2. CASE acct # "CASH_LBP"
  <2>1. PICK m : m = sign * amount /\ m \in Int
    OBVIOUS
  <2>2. acct = "CASH"
    BY <1>2 DEF Tendered
  <2> QED BY <1>2, <2>1, <2>2, Chart, UsdLine DEF LegOf
<1> QED BY <1>1, <1>2

TransferLines(l, m) ==
  (<<l, m>> \o When(l.base + m.base < 0, Usd("FX_LOSS", -(l.base + m.base))))
  \o When(l.base + m.base > 0, Usd("FX_GAIN", -(l.base + m.base)))

\* A transfer is let in and touches no subledger.
LEMMA TransferBooks ==
  ASSUME NEW l \in LineSet, NEW m \in LineSet, l.acct \in Tendered, m.acct \in Tendered, l.grams = 0, m.grams = 0,
         NEW t, t = TransferLines(l, m)
  PROVE  t \in Seq(LineSet) /\ Valid(t) /\ AllQuiet(t)
<1>1. PICK s, gap : s = <<l, m>> /\ gap = l.base + m.base
  OBVIOUS
<1>2. s \in Seq(LineSet) /\ s # <<>>
  BY <1>1
<1>3. AddsUp(Bases, s, gap) /\ \A k \in KaratSet : AddsUp(GramsOf(k), s, 0)
  <2>1. PICK T : T = {l.acct, m.acct}
    OBVIOUS
  <2>2. Bases[l] = l.base /\ Bases[m] = m.base /\ \A k \in KaratSet : GramsOf(k)[l] = 0 /\ GramsOf(k)[m] = 0
    BY OfPlain
  <2>3. gap = Bases[l] + Bases[m] /\ \A k \in KaratSet : GramsOf(k)[l] + GramsOf(k)[m] = 0
    BY <1>1, <2>2
  <2>4. l.acct \in T /\ m.acct \in T
    BY <2>1
  <2> QED BY <1>1, <2>3, <2>4, CountedTwo DEF Counted
<1>4. t = (s \o When(gap < 0, Usd("FX_LOSS", -gap))) \o When(gap > 0, Usd("FX_GAIN", -gap))
  BY <1>1 DEF TransferLines
<1>5. /\ t \in Seq(LineSet) /\ Valid(t)
      /\ \A f : \A a : Measure(f, LineSet) /\ Elsewhere(f, {"FX_LOSS", "FX_GAIN"}) /\ AddsUp(f, s, a) => AddsUp(f, t, a)
  BY <1>2, <1>3, <1>4, GapLetIn
<1>6. ASSUME NEW f, Measure(f, LineSet), Elsewhere(f, Money) PROVE AddsUp(f, t, 0)
  <2>1. Elsewhere(f, {"FX_LOSS", "FX_GAIN"}) /\ f[l] = 0 /\ f[m] = 0
    BY <1>6 DEF Elsewhere, Money, Tendered
  <2>2. AddsUp(f, s, f[l] + f[m])
    BY <1>1, <1>6, AddsTwo
  <2>3. f[l] + f[m] = 0
    BY <2>1
  <2> QED BY <1>5, <1>6, <2>1, <2>2, <2>3
<1>7. \A a : a \notin Money => Untouched(t, a)
  BY <1>6, QuietIs
<1> QED BY <1>5, <1>7 DEF AllQuiet, Money

Sides == {"AR", "VENDOR_AP"}
BillSet == [side : Sides, currency : CurrencySet, rate : RateSet, total : Int, paid : Int]
CreditSet == [side : Sides, currency : CurrencySet, rate : RateSet, amount : Nat]

\* Any number of blocks of lines.
LEMMA AddsMany ==
  ASSUME NEW f, Measure(f, LineSet), NEW ss, NEW n \in Nat, ss = [i \in 1..n |-> ss[i]], NEW v,
         \A i \in 1..n : AddsUp(f, ss[i], v[i])
  PROVE  AddsUp(f, FlattenSeq(ss), SumTo(v, n))
<1>1. \A i \in 1..n : ss[i] \in Seq(LineSet) /\ v[i] \in Int /\ SumOver(f, ss[i]) = v[i]
  BY DEF AddsUp
<1>2. ss \in Seq(Seq(LineSet)) /\ Len(ss) = n
  <2>1. PICK S : S = Seq(LineSet)
    OBVIOUS
  <2>2. \A i \in 1..n : ss[i] \in S
    BY <1>1, <2>1
  <2>3. ss \in Seq(S) /\ Len(ss) = n
    BY ONLY <2>2, ss = [i \in 1..n |-> ss[i]], n \in Nat
  <2> QED BY <2>1, <2>3
<1>3. PICK w : w = [i \in 1..Len(ss) |-> SumOver(f, ss[i])]
  OBVIOUS
<1>4. FlattenSeq(ss) \in Seq(LineSet) /\ SumOver(f, FlattenSeq(ss)) = SumTo(w, n)
  BY <1>2, <1>3, OverFlatten
<1>5. \A i \in 1..n : v[i] \in Int /\ w[i] = v[i]
  BY <1>1, <1>2, <1>3
<1>6. SumTo(w, n) = SumTo(v, n) /\ SumTo(v, n) \in Int
  BY <1>5, RowSame, RowSum
<1> QED BY <1>4, <1>6 DEF AddsUp

\* What a settlement writes against the documents it reaches, and beyond them.
Relief(side, sign, applied, currency, bs) ==
  [i \in DOMAIN bs |-> When(applied[i] > 0, Foreign(side, sign, applied[i], currency, bs[i].rate))]
ControlLines(side, sign, applied, currency, bs, rest, rate) ==
  FlattenSeq(Relief(side, sign, applied, currency, bs))
  \o When(rest > 0, Foreign(side, sign, rest, currency, rate))
TakenOff(sign, applied, bs) ==
  [i \in DOMAIN bs |-> IF applied[i] > 0 THEN sign * Base(applied[i], bs[i].rate) ELSE 0]
Touched(applied, bs) == [i \in DOMAIN bs |-> IF applied[i] > 0 THEN 1 ELSE 0]

\* The lines that relieve the control account of a settlement.
LEMMA ControlAdds ==
  ASSUME NEW bs \in Seq(BillSet), NEW side \in Sides, NEW sign \in {1, -1}, NEW currency \in CurrencySet,
         NEW applied, \A i \in DOMAIN bs : applied[i] \in Nat, NEW rest \in Int, NEW rate \in RateSet,
         NEW s, s = ControlLines(side, sign, applied, currency, bs, rest, rate)
  PROVE  /\ s \in Seq(LineSet) /\ \E g : AddsUp(Bases, s, g)
         /\ \A k \in KaratSet : AddsUp(GramsOf(k), s, 0)
         /\ \A f : Measure(f, LineSet) /\ Elsewhere(f, {side}) => AddsUp(f, s, 0)
         /\ AddsUp(BaseIn({side}), s, SumTo(TakenOff(sign, applied, bs), Len(bs))
                                    + IF rest > 0 THEN sign * Base(rest, rate) ELSE 0)
         /\ AddsUp(CountIn(side), s, SumTo(Touched(applied, bs), Len(bs)) + IF rest > 0 THEN 1 ELSE 0)
<1>1. PICK n, ss, o, q : /\ n = Len(bs) /\ ss = Relief(side, sign, applied, currency, bs)
                         /\ o = Foreign(side, sign, rest, currency, rate) /\ q = (rest > 0)
  OBVIOUS
<1>2. n \in Nat /\ DOMAIN bs = 1..n /\ q \in BOOLEAN
  BY <1>1
<1>3. s = FlattenSeq(ss) \o When(q, o)
  BY <1>1 DEF ControlLines
<1>4. side \in Accounts /\ side \notin CashKeys
  BY Chart DEF Sides, CashKeys
<1>5. o \in LineSet /\ o.acct = side /\ o.base = sign * Base(rest, rate) /\ o.grams = 0
  BY <1>1, <1>4, ForeignLine
<1>6. ASSUME NEW i \in 1..n
      PROVE  \E l \in LineSet, c \in BOOLEAN :
               /\ c = (applied[i] > 0) /\ ss[i] = When(c, l)
               /\ l.acct = side /\ l.base = sign * Base(applied[i], bs[i].rate) /\ l.grams = 0
  <2>1. PICK l, c, a, r : /\ a = applied[i] /\ r = bs[i].rate /\ c = (a > 0)
                          /\ l = Foreign(side, sign, a, currency, r)
    OBVIOUS
  <2>2. bs[i] \in BillSet
    BY <1>2
  <2>3. r \in RateSet /\ a \in Nat
    BY <1>2, <2>1, <2>2 DEF BillSet
  <2>4. c \in BOOLEAN /\ a \in Int
    BY <2>1, <2>3
  <2>5. l \in LineSet /\ l.acct = side /\ l.base = sign * Base(a, r) /\ l.grams = 0
    BY <1>4, <2>1, <2>3, <2>4, ForeignLine
  <2>6. ss[i] = When(c, l)
    BY <1>1, <1>2, <2>1 DEF Relief
  <2> QED BY <2>1, <2>4, <2>5, <2>6
<1>7. ss = [i \in 1..n |-> ss[i]]
  BY <1>1, <1>2 DEF Relief
<1>8. ASSUME NEW f, Measure(f, LineSet), NEW v, \A i \in 1..n : AddsUp(f, ss[i], v[i])
      PROVE  AddsUp(f, s, SumTo(v, n) + IF q THEN f[o] ELSE 0)
  <2>1. AddsUp(f, FlattenSeq(ss), SumTo(v, n))
    BY <1>2, <1>7, <1>8, AddsMany
  <2>2. AddsUp(f, When(q, o), IF q THEN f[o] ELSE 0)
    BY <1>2, <1>5, <1>8, AddsWhen
  <2> QED BY <1>3, <1>8, <2>1, <2>2, AddsJoin
<1>9. ASSUME NEW f, Measure(f, LineSet), \A l \in LineSet : l.acct = side /\ l.grams = 0 => f[l] = 0
      PROVE  AddsUp(f, s, 0)
  <2>1. PICK v : v = [i \in 1..n |-> 0]
    OBVIOUS
  <2>2. ASSUME NEW i \in 1..n PROVE AddsUp(f, ss[i], v[i])
    <3>1. PICK l \in LineSet, c \in BOOLEAN : ss[i] = When(c, l) /\ l.acct = side /\ l.grams = 0
      BY <1>6
    <3>2. f[l] = 0 /\ v[i] = 0
      BY <1>9, <2>1, <3>1
    <3>3. AddsUp(f, When(c, l), IF c THEN f[l] ELSE 0)
      BY <1>9, AddsWhen
    <3>4. (IF c THEN f[l] ELSE 0) = 0
      BY ONLY <3>2
    <3> QED BY <3>1, <3>2, <3>3, <3>4
  <2>3. SumTo(v, n) = 0
    BY <1>2, <2>1, RowZero
  <2>4. f[o] = 0
    BY <1>5, <1>9
  <2>5. AddsUp(f, s, SumTo(v, n) + IF q THEN f[o] ELSE 0)
    BY <1>8, <1>9, <2>2
  <2>6. (IF q THEN f[o] ELSE 0) = 0
    BY ONLY <2>4
  <2>7. SumTo(v, n) + (IF q THEN f[o] ELSE 0) = 0
    BY <2>3, <2>6
  <2> QED BY <2>5, <2>7
<1>10. \A k \in KaratSet : AddsUp(GramsOf(k), s, 0)
  BY <1>9, OfPlain, Measures
<1>11. \A f : Measure(f, LineSet) /\ Elsewhere(f, {side}) => AddsUp(f, s, 0)
  BY <1>9 DEF Elsewhere
<1>12. AddsUp(BaseIn({side}), s, SumTo(TakenOff(sign, applied, bs), n) + IF rest > 0 THEN sign * Base(rest, rate) ELSE 0)
  <2>1. PICK f, v : f = BaseIn({side}) /\ v = TakenOff(sign, applied, bs)
    OBVIOUS
  <2>2. Measure(f, LineSet)
    BY <2>1, Measures
  <2>3. ASSUME NEW i \in 1..n PROVE AddsUp(f, ss[i], v[i])
    <3>1. PICK l \in LineSet, c \in BOOLEAN : /\ c = (applied[i] > 0) /\ ss[i] = When(c, l)
             /\ l.acct = side /\ l.base = sign * Base(applied[i], bs[i].rate) /\ l.grams = 0
      BY <1>6
    <3>2. f[l] = l.base
      BY <2>1, <3>1, OfPlain
    <3>3. AddsUp(f, When(c, l), IF c THEN f[l] ELSE 0)
      BY <2>2, AddsWhen
    <3>4. v[i] = IF c THEN l.base ELSE 0
      <4>1. v[i] = IF applied[i] > 0 THEN sign * Base(applied[i], bs[i].rate) ELSE 0
        BY <1>2, <2>1 DEF TakenOff
      <4> QED BY <3>1, <4>1
    <3> QED BY <3>1, <3>2, <3>3, <3>4
  <2>4. f[o] = sign * Base(rest, rate)
    BY <1>5, <2>1, OfPlain
  <2>5. AddsUp(f, s, SumTo(v, n) + IF q THEN f[o] ELSE 0)
    BY <1>8, <2>2, <2>3
  <2> QED BY <1>1, <2>1, <2>4, <2>5
<1>13. AddsUp(CountIn(side), s, SumTo(Touched(applied, bs), n) + IF rest > 0 THEN 1 ELSE 0)
  <2>1. PICK f, v : f = CountIn(side) /\ v = Touched(applied, bs)
    OBVIOUS
  <2>2. Measure(f, LineSet)
    BY <2>1, Measures
  <2>3. ASSUME NEW i \in 1..n PROVE AddsUp(f, ss[i], v[i])
    <3>1. PICK l \in LineSet, c \in BOOLEAN : /\ c = (applied[i] > 0) /\ ss[i] = When(c, l)
             /\ l.acct = side /\ l.grams = 0
      BY <1>6
    <3>2. f[l] = 1
      BY <2>1, <3>1, OfPlain
    <3>3. AddsUp(f, When(c, l), IF c THEN f[l] ELSE 0)
      BY <2>2, AddsWhen
    <3>4. v[i] = IF c THEN 1 ELSE 0
      <4>1. v[i] = IF applied[i] > 0 THEN 1 ELSE 0
        BY <1>2, <2>1 DEF Touched
      <4> QED BY <3>1, <4>1
    <3> QED BY <3>1, <3>2, <3>3, <3>4
  <2>4. f[o] = 1
    BY <1>5, <2>1, OfPlain
  <2>5. AddsUp(f, s, SumTo(v, n) + IF q THEN f[o] ELSE 0)
    BY <1>8, <2>2, <2>3
  <2> QED BY <1>1, <2>1, <2>4, <2>5
<1>14. s \in Seq(LineSet)
  BY <1>12 DEF AddsUp
<1>15. AddsUp(Bases, s, SumOver(Bases, s))
  BY <1>14, Measures, OverType DEF AddsUp
<1> QED BY <1>1, <1>10, <1>11, <1>12, <1>13, <1>14, <1>15

\* What reaches a document is not below zero, and nothing when it owes nothing.
LEMMA Between ==
  ASSUME NEW a \in Int, NEW b \in Int
  PROVE  /\ Max({0, Min({a, b})}) \in Nat
         /\ Max({0, Min({a, b})}) > 0 => a > 0
<1>1. PICK m : m = Min({a, b})
  OBVIOUS
<1>2. m \in {a, b} /\ m <= a /\ m <= b
  <2>1. \E x \in {a, b} : \A y \in {a, b} : x <= y
    OBVIOUS
  <2> QED BY <1>1, <2>1 DEF Min
<1>3. PICK x : x = Max({0, m})
  OBVIOUS
<1>4. x \in {0, m} /\ x >= 0 /\ x >= m
  <2>1. \E y \in {0, m} : \A z \in {0, m} : y >= z
    BY <1>2
  <2> QED BY <1>3, <2>1 DEF Max
<1>5. x \in Nat /\ (x > 0 => a > 0)
  BY <1>2, <1>4
<1> QED BY <1>1, <1>3, <1>5

DueTo(side, currency, b) == IF b.side = side /\ b.currency = currency THEN Due(b) ELSE 0

\* What a settlement reaches is never below zero, and is of its own side and currency.
LEMMA ReachedIs ==
  ASSUME bills \in Seq(BillSet), NEW side, NEW currency, NEW amount \in Int, NEW i \in DOMAIN bills
  PROVE  /\ Reached(side, currency, amount)[i] \in Nat
         /\ Reached(side, currency, amount)[i] > 0 => bills[i].side = side /\ bills[i].currency = currency
<1>1. PICK n : n = Len(bills) /\ n \in Nat /\ DOMAIN bills = 1..n
  OBVIOUS
<1>2. ASSUME NEW j \in 1..n PROVE DueTo(side, currency, bills[j]) \in Int
  <2>1. bills[j] \in BillSet
    BY <1>1
  <2> QED BY <2>1 DEF BillSet, DueTo, Due
<1>3. PICK s : s = SubSeq(bills, 1, i - 1)
  OBVIOUS
<1>4. PICK k : k = Len(s) /\ k \in Nat /\ DOMAIN s = 1..k /\ \A j \in 1..k : j \in 1..n /\ s[j] = bills[j]
  BY <1>1, <1>3
<1>5. PICK v : v = [j \in DOMAIN s |-> DueTo(side, currency, s[j])]
  OBVIOUS
<1>6. SumTo(v, k) \in Int
  <2>1. \A j \in 1..k : v[j] \in Int
    BY <1>2, <1>4, <1>5
  <2> QED BY <1>4, <2>1, RowSum
<1>7. Reached(side, currency, amount)[i] = Max({0, Min({DueTo(side, currency, bills[i]), amount - SumTo(v, k)})})
  BY <1>3, <1>4, <1>5 DEF Reached, Total, DueTo
<1>8. PICK a, b : a = DueTo(side, currency, bills[i]) /\ b = amount - SumTo(v, k) /\ a \in Int /\ b \in Int
  BY <1>1, <1>2, <1>6
<1>9. PICK x : x = Reached(side, currency, amount)[i] /\ x \in Nat /\ (x > 0 => a > 0)
  BY <1>7, <1>8, Between
<1>10. a > 0 => bills[i].side = side /\ bills[i].currency = currency
  BY <1>8 DEF DueTo
<1> QED BY <1>9, <1>10

CashLine(sign, currency, amount, tender, rate) ==
  IF tender = "CASH_LBP"
  THEN Foreign("CASH_LBP", sign, IF currency = "USD" THEN amount * rate ELSE amount, "LBP", rate)
  ELSE Usd(tender, sign * amount)

\* The money of a settlement is one plain line.
LEMMA CashLineIs ==
  ASSUME NEW sign \in {1, -1}, NEW currency, NEW amount \in Int, NEW tender \in Tendered, NEW rate \in RateSet,
         NEW l, l = CashLine(sign, currency, amount, tender, rate)
  PROVE  l \in LineSet /\ l.acct \in Tendered /\ l.grams = 0
<1>1. CASE tender = "CASH_LBP"
  <2>1. PICK a : a = (IF currency = "USD" THEN amount * rate ELSE amount)
    OBVIOUS
  <2>2. a \in Int
    BY <2>1, RateUnits
  <2>3. "CASH_LBP" \in Accounts /\ "CASH_LBP" \in Tendered /\ "LBP" \in CurrencySet
    BY Chart DEF Tendered, CurrencySet
  <2>4. l = Foreign("CASH_LBP", sign, a, "LBP", rate)
    BY <1>1, <2>1 DEF CashLine
  <2> QED BY <2>2, <2>3, <2>4, ForeignLine
<1>2. CASE tender # "CASH_LBP"
  <2>1. PICK m : m = sign * amount /\ m \in Int
    OBVIOUS
  <2>2. tender = "CASH"
    BY <1>2 DEF Tendered
  <2> QED BY <1>2, <2>1, <2>2, Chart, UsdLine DEF CashLine, Tendered
<1> QED BY <1>1, <1>2

\* The parts of a settlement's entry.
SettleShape(s, u, gap) ==
  /\ gap = Total(u, LAMBDA l : l.base)
  /\ s = (u \o When(gap < 0, Usd("FX_LOSS", -gap))) \o When(gap > 0, Usd("FX_GAIN", -gap))
\* The lines of a settlement, by what they are made of.
LEMMA SettleParts ==
  ASSUME NEW side, NEW currency, NEW amount, NEW tender, NEW rate, NEW sign, NEW applied, NEW rest,
         sign = IF side = "AR" THEN 1 ELSE -1, applied = Reached(side, currency, amount),
         rest = amount - Total(applied, LAMBDA a : a)
  PROVE  \E gap :
           SettleShape(SettlementLines(side, currency, amount, tender, rate),
                       Append(ControlLines(side, -sign, applied, currency, bills, rest,
                                           IF currency = "USD" THEN 1 ELSE rate),
                              CashLine(sign, currency, amount, tender, rate)), gap)
BY ZenonT(60) DEF SettleShape, SettlementLines, ControlLines, Relief, CashLine

SettledBooks(side, m, applied, bs, rest, r, s) ==
  /\ s \in Seq(LineSet) /\ Valid(s)
  /\ \A a : a \notin Money \cup {side} => Untouched(s, a)
  /\ AddsUp(BaseIn({side}), s, SumTo(TakenOff(m, applied, bs), Len(bs)) + IF rest > 0 THEN m * Base(rest, r) ELSE 0)
  /\ AddsUp(CountIn(side), s, SumTo(Touched(applied, bs), Len(bs)) + IF rest > 0 THEN 1 ELSE 0)
\* A settlement is let in, and touches the one control account.
LEMMA SettlementBooks ==
  ASSUME bills \in Seq(BillSet), NEW side \in Sides, NEW currency \in CurrencySet, NEW amount \in Int,
         NEW tender \in Tendered, NEW rate \in RateSet, NEW sign, NEW applied, NEW rest \in Int, NEW r,
         sign = IF side = "AR" THEN 1 ELSE -1, applied = Reached(side, currency, amount),
         rest = amount - Total(applied, LAMBDA a : a), r = IF currency = "USD" THEN 1 ELSE rate,
         NEW s, s = SettlementLines(side, currency, amount, tender, rate)
  PROVE  SettledBooks(side, -sign, applied, bills, rest, r, s)
<1>1. PICK m, c, l, u, gap : /\ m = -sign /\ c = ControlLines(side, m, applied, currency, bills, rest, r)
                             /\ l = CashLine(sign, currency, amount, tender, rate) /\ u = Append(c, l)
                             /\ SettleShape(s, u, gap)
  BY ZenonT(60), SettleParts
<1>2. m \in {1, -1} /\ sign \in {1, -1} /\ r \in RateSet
  <2>1. sign \in {1, -1}
    OBVIOUS
  <2>2. m \in {1, -1}
    <3>1. m = -sign /\ sign \in Int
      BY <1>1, <2>1
    <3>2. m \in Int /\ m + sign = 0
      BY ONLY <3>1
    <3> QED BY ONLY <2>1, <3>1, <3>2
  <2>3. r \in RateSet
    BY DEF RateSet
  <2> QED BY <2>1, <2>2, <2>3
<1>3. \A i \in DOMAIN bills : applied[i] \in Nat
  BY ReachedIs
<1>4. /\ c \in Seq(LineSet) /\ \E g : AddsUp(Bases, c, g)
      /\ \A k \in KaratSet : AddsUp(GramsOf(k), c, 0)
      /\ \A f : Measure(f, LineSet) /\ Elsewhere(f, {side}) => AddsUp(f, c, 0)
      /\ AddsUp(BaseIn({side}), c, SumTo(TakenOff(m, applied, bills), Len(bills))
                                 + IF rest > 0 THEN m * Base(rest, r) ELSE 0)
      /\ AddsUp(CountIn(side), c, SumTo(Touched(applied, bills), Len(bills)) + IF rest > 0 THEN 1 ELSE 0)
  <2>1. c = ControlLines(side, m, applied, currency, bills, rest, r)
    BY <1>1
  <2>2. bills \in Seq(BillSet) /\ m \in {1, -1} /\ r \in RateSet
    BY <1>2
  <2> QED BY ZenonT(60), <1>3, <2>1, <2>2, ControlAdds
<1>5. l \in LineSet /\ l.acct \in Tendered /\ l.grams = 0
  BY <1>1, <1>2, CashLineIs
<1>6. ASSUME NEW f, Measure(f, LineSet), NEW a, AddsUp(f, c, a) PROVE AddsUp(f, u, a + f[l])
  <2>1. f[l] \in Int /\ a \in Int
    BY <1>5, <1>6 DEF Measure, AddsUp
  <2> QED BY <1>1, <1>4, <1>5, <1>6, <2>1, OverAppend DEF AddsUp
<1>7. ASSUME NEW f, Measure(f, LineSet), NEW a, AddsUp(f, c, a), f[l] = 0 PROVE AddsUp(f, u, a)
  <2>1. AddsUp(f, u, a + f[l])
    BY <1>6, <1>7
  <2>2. a + f[l] = a
    BY <1>7 DEF AddsUp
  <2> QED BY <2>1, <2>2
<1>8. u \in Seq(LineSet) /\ u # <<>>
  BY <1>1, <1>4, <1>5
<1>9. AddsUp(Bases, u, gap)
  <2>1. AddsUp(Bases, u, SumOver(Bases, u))
    BY <1>8, Measures, OverType DEF AddsUp
  <2>2. gap = SumOver(Bases, u)
    BY <1>1, <1>8, TotalIs DEF SettleShape
  <2> QED BY <2>1, <2>2
<1>10. \A k \in KaratSet : AddsUp(GramsOf(k), u, 0)
  <2>1. ASSUME NEW k \in KaratSet PROVE AddsUp(GramsOf(k), u, 0)
    <3>1. GramsOf(k)[l] = 0
      BY <1>5, OfPlain
    <3> QED BY <1>4, <1>7, <3>1, Measures
  <2> QED BY <2>1
<1>11. s = (u \o When(gap < 0, Usd("FX_LOSS", -gap))) \o When(gap > 0, Usd("FX_GAIN", -gap))
  BY <1>1 DEF SettleShape
<1>12. /\ s \in Seq(LineSet) /\ Valid(s)
       /\ \A f : \A a : Measure(f, LineSet) /\ Elsewhere(f, {"FX_LOSS", "FX_GAIN"}) /\ AddsUp(f, u, a) => AddsUp(f, s, a)
  BY <1>8, <1>9, <1>10, <1>11, GapLetIn
<1>13. ASSUME NEW f, NEW a, Measure(f, LineSet), Elsewhere(f, Money), AddsUp(f, c, a) PROVE AddsUp(f, s, a)
  <2>1. Elsewhere(f, {"FX_LOSS", "FX_GAIN"}) /\ f[l] = 0
    BY <1>5, <1>13 DEF Elsewhere, Money, Tendered
  <2>2. AddsUp(f, u, a)
    BY <1>7, <1>13, <2>1
  <2> QED BY <1>12, <1>13, <2>1, <2>2
<1>14. ASSUME NEW a, a \notin Money \cup {side} PROVE Untouched(s, a)
  <2>1. PICK T : T = Money \cup {side}
    OBVIOUS
  <2>2. ASSUME NEW f, Measure(f, LineSet), Elsewhere(f, T) PROVE AddsUp(f, s, 0)
    <3>1. Elsewhere(f, Money) /\ Elsewhere(f, {side})
      BY <2>1, <2>2 DEF Elsewhere
    <3> QED BY <1>4, <1>13, <2>2, <3>1
  <2> QED BY <1>14, <2>1, <2>2, QuietIs
<1>15. Elsewhere(BaseIn({side}), Money) /\ Elsewhere(CountIn(side), Money)
  <2>1. {side} \cap Money = {} /\ side \notin Money
    BY DEF Sides, Money
  <2> QED BY <2>1, ElsewhereIs
<1>16. \A v : AddsUp(BaseIn({side}), c, v) => AddsUp(BaseIn({side}), s, v)
  BY <1>13, <1>15, Measures
<1>17. \A v : AddsUp(CountIn(side), c, v) => AddsUp(CountIn(side), s, v)
  BY <1>13, <1>15, Measures
<1>18. SettledBooks(side, m, applied, bills, rest, r, s)
  BY <1>4, <1>12, <1>14, <1>16, <1>17 DEF SettledBooks
<1> QED BY <1>1, <1>18

-----------------------------------------------------------------------------
(* Cents and units: a sum of roundings is close to the rounding of the sum. *)

Close(c, t, s) == FxUnit * c - FxUnit * t <= s /\ s <= FxUnit * c + FxUnit * t

\* What is close adds up to what is close.
LEMMA CloseJoin ==
  ASSUME NEW c \in Int, NEW t \in Int, NEW s \in Int, NEW d \in Int, NEW v \in Int, NEW w \in Int,
         Close(c, t, s), Close(d, v, w)
  PROVE  Close(c + d, t + v, s + w)
<1>1. FxUnit \in Int
  BY FxAssumption
<1>2. PICK a, b, x, y : a = FxUnit * c /\ b = FxUnit * t /\ x = FxUnit * d /\ y = FxUnit * v
  OBVIOUS
<1>3. a \in Int /\ b \in Int /\ x \in Int /\ y \in Int
  BY <1>1, <1>2
<1>4. FxUnit * (c + d) = a + x /\ FxUnit * (t + v) = b + y
  BY <1>1, <1>2
<1>5. a - b <= s /\ s <= a + b /\ x - y <= w /\ w <= x + y
  BY <1>2 DEF Close
<1>6. (a + x) - (b + y) <= s + w /\ s + w <= (a + x) + (b + y)
  BY <1>3, <1>5
<1> QED BY <1>4, <1>6 DEF Close

\* Nothing is close to nothing.
LEMMA CloseNone == Close(0, 0, 0)
<1>1. FxUnit \in Int
  BY FxAssumption
<1>2. FxUnit * 0 = 0
  BY <1>1
<1> QED BY <1>2 DEF Close

\* Whole cents are close to their units.
LEMMA CloseExact == ASSUME NEW c \in Int, NEW t \in Nat PROVE Close(c, t, c * FxUnit)
<1>1. FxUnit \in Nat
  BY FxAssumption
<1>2. PICK a, b : a = FxUnit * c /\ b = FxUnit * t
  OBVIOUS
<1>3. a \in Int /\ b \in Nat /\ c * FxUnit = a
  BY <1>1, <1>2
<1>4. a - b <= a /\ a <= a + b
  BY <1>3
<1> QED BY <1>2, <1>3, <1>4 DEF Close

\* What is close is so below zero too.
LEMMA CloseOpposite ==
  ASSUME NEW c \in Int, NEW t \in Int, NEW s \in Int, NEW d \in Int, NEW w \in Int,
         Close(c, t, s), c + d = 0, s + w = 0
  PROVE  Close(d, t, w)
<1>1. FxUnit \in Int
  BY FxAssumption
<1>2. PICK a, b, x : a = FxUnit * c /\ b = FxUnit * t /\ x = FxUnit * d
  OBVIOUS
<1>3. a \in Int /\ b \in Int /\ x \in Int
  BY <1>1, <1>2
<1>4. a + x = 0
  <2>1. FxUnit * (c + d) = a + x
    BY <1>1, <1>2
  <2>2. FxUnit * 0 = 0
    BY <1>1
  <2> QED BY <2>1, <2>2
<1>5. a - b <= s /\ s <= a + b
  BY <1>2 DEF Close
<1>6. x - b <= w /\ w <= x + b
  BY <1>3, <1>4, <1>5
<1> QED BY <1>2, <1>6 DEF Close

\* Two roundings in one line are still within its cent.
LEMMA CloseBases ==
  ASSUME NEW amount \in Int, NEW tax \in Int, NEW rate \in RateSet
  PROVE  /\ Close(Base(amount, rate), 1, amount * (FxUnit \div rate))
         /\ Close(Base(amount, rate) + Base(tax, rate), 1, (amount + tax) * (FxUnit \div rate))
<1>1. FxUnit \in Nat
  BY FxAssumption
<1>2. PICK h, u \in Int : /\ h = Base(amount, rate) /\ u = FxUnit \div rate
                          /\ 2 * (FxUnit * h) <= 2 * (amount * u) + FxUnit
                          /\ 2 * (amount * u) - FxUnit <= 2 * (FxUnit * h)
  BY BaseClose
<1>3. PICK g \in Int : /\ g = Base(tax, rate)
                       /\ 2 * (FxUnit * g) <= 2 * (tax * u) + FxUnit
                       /\ 2 * (tax * u) - FxUnit <= 2 * (FxUnit * g)
  BY <1>2, BaseClose
<1>4. PICK a, b, x, y : a = FxUnit * h /\ b = FxUnit * g /\ x = amount * u /\ y = tax * u
  OBVIOUS
<1>5. a \in Int /\ b \in Int /\ x \in Int /\ y \in Int
  BY <1>1, <1>2, <1>3, <1>4
<1>6. FxUnit * (h + g) = a + b /\ (amount + tax) * u = x + y /\ FxUnit * 1 = FxUnit
  BY <1>1, <1>2, <1>3, <1>4
<1>7. a - FxUnit <= x /\ x <= a + FxUnit /\ (a + b) - FxUnit <= x + y /\ x + y <= (a + b) + FxUnit
  BY <1>1, <1>2, <1>3, <1>4, <1>5
<1> QED BY <1>2, <1>3, <1>4, <1>6, <1>7 DEF Close

\* Rounded to the cent, the one is as far from the other as its lines may be off.
LEMMA CloseTies ==
  ASSUME NEW c \in Int, NEW t \in Int, NEW s \in Int, Close(c, t, s)
  PROVE  t >= c - HalfEven(s, FxUnit) /\ t >= HalfEven(s, FxUnit) - c
<1>1. FxUnit \in Nat \ {0}
  BY FxAssumption
<1>2. PICK h \in Int : /\ h = HalfEven(s, FxUnit)
                       /\ 2 * (FxUnit * h) <= 2 * s + FxUnit /\ 2 * s - FxUnit <= 2 * (FxUnit * h)
  BY <1>1, Rounded
<1>3. PICK a, b, y : a = FxUnit * c /\ b = FxUnit * t /\ y = FxUnit * h
  OBVIOUS
<1>4. a \in Int /\ b \in Int /\ y \in Int
  BY <1>1, <1>2, <1>3
<1>5. a - b <= s /\ s <= a + b
  BY <1>3 DEF Close
<1>6. 2 * y <= 2 * a + 2 * b + FxUnit /\ 2 * a - 2 * b - FxUnit <= 2 * y
  BY <1>1, <1>2, <1>3, <1>4, <1>5
<1>7. ASSUME h >= c + t + 1 PROVE FALSE
  <2>1. (c + t + 1) * FxUnit <= h * FxUnit
    BY <1>1, <1>2, <1>7, TimesAtMost
  <2>2. (c + t + 1) * FxUnit = a + b + FxUnit /\ h * FxUnit = y
    BY <1>1, <1>2, <1>3
  <2> QED BY <1>1, <1>4, <1>6, <2>1, <2>2
<1>8. ASSUME c >= h + t + 1 PROVE FALSE
  <2>1. (h + t + 1) * FxUnit <= c * FxUnit
    BY <1>1, <1>2, <1>8, TimesAtMost
  <2>2. (h + t + 1) * FxUnit = y + b + FxUnit /\ c * FxUnit = a
    BY <1>1, <1>2, <1>3
  <2> QED BY <1>1, <1>4, <1>6, <2>1, <2>2
<1> QED BY <1>2, <1>7, <1>8

RowsClose(c, t, s, n) ==
  \A i \in 1..n : c[i] \in Int /\ t[i] \in Int /\ s[i] \in Int /\ Close(c[i], t[i], s[i])

\* Rows that are close number by number have sums that are.
LEMMA CloseRows ==
  ASSUME NEW n \in Nat, NEW c, NEW t, NEW s, RowsClose(c, t, s, n)
  PROVE  Close(SumTo(c, n), SumTo(t, n), SumTo(s, n))
<1>1. PICK S : S = {k \in 0..n : ~Close(SumTo(c, k), SumTo(t, k), SumTo(s, k))}
  OBVIOUS
<1>2. SUFFICES ASSUME n \in S PROVE FALSE
  BY <1>1
<1>3. PICK k \in S : \A j \in S : k <= j
  <2>1. S \subseteq Nat /\ S # {}
    BY <1>1, <1>2
  <2> QED BY <2>1, LeastNumber
<1>4. k \in 0..n /\ ~Close(SumTo(c, k), SumTo(t, k), SumTo(s, k))
  BY <1>1, <1>3
<1>5. k # 0
  <2>1. SUFFICES ASSUME k = 0 PROVE FALSE
    OBVIOUS
  <2>2. SumTo(c, k) = 0 /\ SumTo(t, k) = 0 /\ SumTo(s, k) = 0
    BY <2>1, RowEmpty
  <2> QED BY <1>4, <2>2, CloseNone
<1>6. PICK m \in Nat : m + 1 = k /\ m \in 0..n /\ m + 1 \in 1..n
  <2>1. k - 1 \in Nat /\ (k - 1) + 1 = k
    BY <1>4, <1>5
  <2> QED BY <1>4, <2>1
<1>7. Close(SumTo(c, m), SumTo(t, m), SumTo(s, m))
  <2>1. m \notin S
    BY <1>3, <1>6
  <2> QED BY <1>1, <1>6, <2>1
<1>8. \A i \in 1..(m + 1) : c[i] \in Int /\ t[i] \in Int /\ s[i] \in Int
  BY <1>6 DEF RowsClose
<1>9. SumTo(c, m) \in Int /\ SumTo(t, m) \in Int /\ SumTo(s, m) \in Int
  <2>1. \A i \in 1..m : c[i] \in Int /\ t[i] \in Int /\ s[i] \in Int
    BY <1>6, <1>8
  <2> QED BY <1>6, <2>1, RowSum
<1>10. Close(c[m + 1], t[m + 1], s[m + 1]) /\ c[m + 1] \in Int /\ t[m + 1] \in Int /\ s[m + 1] \in Int
  BY <1>6 DEF RowsClose
<1>11. Close(SumTo(c, m) + c[m + 1], SumTo(t, m) + t[m + 1], SumTo(s, m) + s[m + 1])
  BY <1>7, <1>9, <1>10, CloseJoin
<1>12. /\ SumTo(c, m + 1) = SumTo(c, m) + c[m + 1] /\ SumTo(t, m + 1) = SumTo(t, m) + t[m + 1]
       /\ SumTo(s, m + 1) = SumTo(s, m) + s[m + 1]
  BY <1>6, <1>8, RowStep
<1> QED BY <1>4, <1>6, <1>11, <1>12

\* What is open on the documents of a side, in units.
BillUnits(side) == [b \in BillSet |-> IF b.side = side THEN Due(b) * (FxUnit \div b.rate) ELSE 0]
CreditUnits(side) == [c \in CreditSet |-> IF c.side = side THEN c.amount * (FxUnit \div c.rate) ELSE 0]
SubUnits(side, bs, cs) == SumOver(BillUnits(side), bs) - SumOver(CreditUnits(side), cs)
SignOf(side) == IF side = "AR" THEN 1 ELSE -1
ControlAt(side, j) == SignOf(side) * Net(j, 1..Days, {side})
LinesAt(side, j) == Replayed(CountIn(side), 1..Days, j)
\* Books j are close to the documents bs and what is left over in cs.
Tied(side, j, bs, cs) == Close(ControlAt(side, j), LinesAt(side, j), SubUnits(side, bs, cs))

\* Customers owe the shop, the shop owes its vendors.
LEMMA SignIs == ASSUME NEW side PROVE SignOf(side) \in {1, -1} /\ SignOf(side) \in Int
BY DEF SignOf

\* What is open on documents is whole in units.
LEMMA UnitMeasures ==
  \A side : /\ Measure(BillUnits(side), BillSet) /\ Measure(CreditUnits(side), CreditSet)
<1> SUFFICES ASSUME NEW side PROVE Measure(BillUnits(side), BillSet) /\ Measure(CreditUnits(side), CreditSet)
  OBVIOUS
<1>1. ASSUME NEW b \in BillSet PROVE BillUnits(side)[b] \in Int
  <2>1. PICK u, d : u = FxUnit \div b.rate /\ d = Due(b) /\ u \in Nat /\ d \in Int
    <3>1. b.rate \in RateSet /\ b.total \in Int /\ b.paid \in Int
      BY DEF BillSet
    <3> QED BY <3>1, RateUnits DEF Due
  <2>2. d * u \in Int
    BY <2>1
  <2> QED BY <2>1, <2>2 DEF BillUnits
<1>2. ASSUME NEW c \in CreditSet PROVE CreditUnits(side)[c] \in Int
  <2>1. PICK u, d : u = FxUnit \div c.rate /\ d = c.amount /\ u \in Nat /\ d \in Int
    <3>1. c.rate \in RateSet /\ c.amount \in Nat
      BY DEF CreditSet
    <3> QED BY <3>1, RateUnits
  <2>2. d * u \in Int
    BY <2>1
  <2> QED BY <2>1, <2>2 DEF CreditUnits
<1> QED BY <1>1, <1>2 DEF Measure

\* Both sides of the tie are numbers.
LEMMA TiedTypes ==
  ASSUME NEW side, NEW j \in Seq(EntrySet), NEW bs \in Seq(BillSet), NEW cs \in Seq(CreditSet)
  PROVE  /\ ControlAt(side, j) \in Int /\ LinesAt(side, j) \in Int /\ SubUnits(side, bs, cs) \in Int
         /\ SumOver(BillUnits(side), bs) \in Int /\ SumOver(CreditUnits(side), cs) \in Int
         /\ Net(j, 1..Days, {side}) \in Int
<1>1. PICK n, g : n = Net(j, 1..Days, {side}) /\ g = SignOf(side) /\ n \in Int /\ g \in Int
  BY NetType, SignIs
<1>2. g * n \in Int
  BY <1>1
<1>3. LinesAt(side, j) \in Int
  BY Measures, ReplayedType DEF LinesAt
<1>4. SumOver(BillUnits(side), bs) \in Int /\ SumOver(CreditUnits(side), cs) \in Int
  BY UnitMeasures, OverType
<1> QED BY <1>1, <1>2, <1>3, <1>4 DEF ControlAt, SubUnits

\* An entry moves the control account by what its lines say.
LEMMA TiedEntry ==
  ASSUME NEW side, NEW j \in Seq(EntrySet), NEW e \in EntrySet, NEW a, NEW n,
         AddsUp(BaseIn({side}), e.lines, a), AddsUp(CountIn(side), e.lines, n)
  PROVE  /\ ControlAt(side, Append(j, e)) = ControlAt(side, j) + SignOf(side) * a
         /\ LinesAt(side, Append(j, e)) = LinesAt(side, j) + n
<1>1. e.day \in 1..Days
  BY DEF EntrySet
<1>2. Append(j, e) \in Seq(EntrySet)
  OBVIOUS
<1>3. PICK f : f = BaseIn({side})
  OBVIOUS
<1>4. Replayed(f, 1..Days, Append(j, e)) = Replayed(f, 1..Days, j) + a
  BY <1>1, <1>3, Measures, ReplayedAppend DEF AddsUp
<1>5. Net(Append(j, e), 1..Days, {side}) = Net(j, 1..Days, {side}) + a
  BY <1>2, <1>3, <1>4, NetIs
<1>6. PICK x, g : x = Net(j, 1..Days, {side}) /\ g = SignOf(side) /\ x \in Int /\ g \in Int
  BY NetType, SignIs
<1>7. a \in Int
  BY DEF AddsUp
<1>8. g * (x + a) = g * x + g * a
  BY <1>6, <1>7
<1>9. LinesAt(side, Append(j, e)) = LinesAt(side, j) + n
  BY <1>1, Measures, ReplayedAppend DEF AddsUp, LinesAt
<1> QED BY <1>5, <1>6, <1>8, <1>9 DEF ControlAt

\* What is close stays so when the two sides move by what is close.
LEMMA TiedMove ==
  ASSUME NEW side, NEW j \in Seq(EntrySet), NEW bs \in Seq(BillSet), NEW cs \in Seq(CreditSet),
         Tied(side, j, bs, cs), NEW e \in EntrySet, NEW a \in Int, NEW n \in Int, NEW w \in Int,
         AddsUp(BaseIn({side}), e.lines, a), AddsUp(CountIn(side), e.lines, n), Close(SignOf(side) * a, n, w),
         NEW bt, NEW ct, SubUnits(side, bt, ct) = SubUnits(side, bs, cs) + w
  PROVE  Tied(side, Append(j, e), bt, ct)
<1>1. PICK c, t, s, d : /\ c = ControlAt(side, j) /\ t = LinesAt(side, j) /\ s = SubUnits(side, bs, cs)
                        /\ d = SignOf(side) * a
  OBVIOUS
<1>2. c \in Int /\ t \in Int /\ s \in Int /\ d \in Int
  <2>1. c \in Int /\ t \in Int /\ s \in Int
    BY <1>1, TiedTypes
  <2>2. SignOf(side) \in Int
    BY SignIs
  <2>3. PICK g : g = SignOf(side) /\ g \in Int
    BY <2>2
  <2>4. d = g * a
    BY <1>1, <2>3
  <2>5. g * a \in Int
    BY ONLY <2>3, a \in Int
  <2> QED BY <2>1, <2>4, <2>5
<1>3. Close(c + d, t + n, s + w)
  BY <1>1, <1>2, CloseJoin DEF Tied
<1> QED BY <1>1, <1>3, TiedEntry DEF Tied

\* An entry that leaves the control account alone leaves the tie as it is.
LEMMA TiedQuiet ==
  ASSUME NEW side, NEW j \in Seq(EntrySet), NEW bs \in Seq(BillSet), NEW cs \in Seq(CreditSet),
         Tied(side, j, bs, cs), NEW e \in EntrySet, Untouched(e.lines, side),
         NEW bt, NEW ct, SubUnits(side, bt, ct) = SubUnits(side, bs, cs)
  PROVE  Tied(side, Append(j, e), bt, ct)
<1>1. AddsUp(BaseIn({side}), e.lines, 0) /\ AddsUp(CountIn(side), e.lines, 0)
  BY DEF Untouched
<1>2. PICK z : z = SignOf(side) * 0 /\ z = 0
  BY SignIs
<1>3. Close(SignOf(side) * 0, 0, 0)
  BY <1>2, CloseNone
<1>4. PICK s : s = SubUnits(side, bs, cs) /\ s \in Int
  BY TiedTypes
<1>5. SubUnits(side, bt, ct) = SubUnits(side, bs, cs) + 0
  BY <1>4
<1>6. 0 \in Int
  OBVIOUS
<1> QED BY <1>1, <1>3, <1>5, <1>6, TiedMove

\* A document, or what is left over of a settlement, adds its units.
LEMMA UnitsAppend ==
  ASSUME NEW side, NEW bs \in Seq(BillSet), NEW cs \in Seq(CreditSet), NEW b \in BillSet, NEW c \in CreditSet
  PROVE  /\ Append(bs, b) \in Seq(BillSet) /\ Append(cs, c) \in Seq(CreditSet)
         /\ BillUnits(side)[b] \in Int /\ CreditUnits(side)[c] \in Int
         /\ SumOver(BillUnits(side), Append(bs, b)) = SumOver(BillUnits(side), bs) + BillUnits(side)[b]
         /\ SumOver(CreditUnits(side), Append(cs, c)) = SumOver(CreditUnits(side), cs) + CreditUnits(side)[c]
BY UnitMeasures, OverAppend DEF Measure

\* A document not yet paid: what it stands for, on its side and on the other.
LEMMA BillIs ==
  ASSUME NEW side \in Sides, NEW currency \in CurrencySet, NEW rate \in RateSet, NEW total \in Int, NEW paid \in Int,
         NEW b, b = Bill(side, currency, rate, total, paid)
  PROVE  /\ b \in BillSet /\ BillUnits(side)[b] = (total - paid) * (FxUnit \div rate)
         /\ \A other : other # side => BillUnits(other)[b] = 0
<1>1. b = [side |-> side, currency |-> currency, rate |-> rate, total |-> total, paid |-> paid]
  BY DEF Bill
<1>2. b \in BillSet
  BY <1>1 DEF BillSet
<1>3. b.side = side /\ b.rate = rate /\ b.total = total /\ b.paid = paid
  BY <1>1
<1> QED BY <1>2, <1>3 DEF BillUnits, Due

\* A new document, whose entry says what it is worth.
LEMMA TiedBill ==
  ASSUME NEW side, NEW j \in Seq(EntrySet), NEW bs \in Seq(BillSet), NEW cs \in Seq(CreditSet),
         Tied(side, j, bs, cs), NEW e \in EntrySet, NEW b \in BillSet, NEW a \in Int, NEW n \in Int,
         AddsUp(BaseIn({side}), e.lines, a), AddsUp(CountIn(side), e.lines, n),
         Close(SignOf(side) * a, n, BillUnits(side)[b])
  PROVE  Tied(side, Append(j, e), Append(bs, b), cs)
<1>1. PICK x, y, u : /\ x = SumOver(BillUnits(side), bs) /\ y = SumOver(CreditUnits(side), cs)
                     /\ u = BillUnits(side)[b]
  OBVIOUS
<1>2. x \in Int /\ y \in Int /\ u \in Int
  <2>1. x \in Int /\ y \in Int
    BY <1>1, TiedTypes
  <2>2. u \in Int
    BY <1>1, UnitMeasures DEF Measure
  <2> QED BY <2>1, <2>2
<1>3. SumOver(BillUnits(side), Append(bs, b)) = x + u
  BY <1>1, UnitMeasures, OverAppend
<1>4. SubUnits(side, Append(bs, b), cs) = (x + u) - y /\ SubUnits(side, bs, cs) = x - y
  BY <1>1, <1>3 DEF SubUnits
<1>5. (x + u) - y = (x - y) + u
  BY <1>2
<1>6. SubUnits(side, Append(bs, b), cs) = SubUnits(side, bs, cs) + u
  BY <1>4, <1>5
<1> QED BY <1>1, <1>2, <1>6, TiedMove

\* A document of the other side, or one that leaves nothing open.
LEMMA TiedOther ==
  ASSUME NEW side, NEW j \in Seq(EntrySet), NEW bs \in Seq(BillSet), NEW cs \in Seq(CreditSet),
         Tied(side, j, bs, cs), NEW e \in EntrySet, Untouched(e.lines, side), NEW b \in BillSet, BillUnits(side)[b] = 0
  PROVE  Tied(side, Append(j, e), Append(bs, b), cs)
<1>1. PICK x, y : x = SumOver(BillUnits(side), bs) /\ y = SumOver(CreditUnits(side), cs) /\ x \in Int /\ y \in Int
  BY TiedTypes
<1>2. SumOver(BillUnits(side), Append(bs, b)) = x + 0
  BY <1>1, UnitMeasures, OverAppend
<1>3. x + 0 = x
  BY <1>1
<1>4. SubUnits(side, Append(bs, b), cs) = SubUnits(side, bs, cs)
  BY <1>1, <1>2, <1>3 DEF SubUnits
<1> QED BY <1>4, TiedQuiet

\* What a settlement takes off the documents it reaches, in cents and in units.
Taken(applied, bs) == [i \in DOMAIN bs |-> IF applied[i] > 0 THEN Base(applied[i], bs[i].rate) ELSE 0]
UnitsTaken(applied, bs) == [i \in DOMAIN bs |-> IF applied[i] > 0 THEN applied[i] * (FxUnit \div bs[i].rate) ELSE 0]
PaidOff(applied, bs) == [i \in DOMAIN bs |-> [bs[i] EXCEPT !.paid = @ + applied[i]]]

\* What is taken off each document is close to what its line relieves.
LEMMA TakenClose ==
  ASSUME NEW bs \in Seq(BillSet), NEW applied, \A i \in DOMAIN bs : applied[i] \in Nat, NEW n, n = Len(bs)
  PROVE  /\ RowsClose(Taken(applied, bs), Touched(applied, bs), UnitsTaken(applied, bs), n)
         /\ SumTo(Taken(applied, bs), n) \in Int /\ SumTo(Touched(applied, bs), n) \in Int
         /\ SumTo(UnitsTaken(applied, bs), n) \in Int
         /\ Close(SumTo(Taken(applied, bs), n), SumTo(Touched(applied, bs), n), SumTo(UnitsTaken(applied, bs), n))
<1>1. n \in Nat /\ DOMAIN bs = 1..n
  OBVIOUS
<1>2. PICK c, t, s : c = Taken(applied, bs) /\ t = Touched(applied, bs) /\ s = UnitsTaken(applied, bs)
  OBVIOUS
<1>3. ASSUME NEW i \in 1..n
      PROVE  c[i] \in Int /\ t[i] \in Int /\ s[i] \in Int /\ Close(c[i], t[i], s[i])
  <2>1. PICK a, r, p : a = applied[i] /\ r = bs[i].rate /\ p = (a > 0)
    OBVIOUS
  <2>2. bs[i] \in BillSet /\ a \in Nat
    BY <1>1, <2>1
  <2>3. r \in RateSet
    BY <2>1, <2>2 DEF BillSet
  <2>4. /\ c[i] = (IF p THEN Base(a, r) ELSE 0) /\ t[i] = (IF p THEN 1 ELSE 0)
        /\ s[i] = (IF p THEN a * (FxUnit \div r) ELSE 0)
    BY <1>1, <1>2, <2>1 DEF Taken, Touched, UnitsTaken
  <2>5. CASE p
    <3>1. Close(Base(a, r), 1, a * (FxUnit \div r))
      BY <2>2, <2>3, CloseBases
    <3>2. Base(a, r) \in Int
      BY <2>2, <2>3, BaseClose
    <3>3. PICK u \in Nat : u = FxUnit \div r
      BY <2>3, RateUnits
    <3>4. a * u \in Int
      BY <2>2, <3>3
    <3> QED BY <2>4, <2>5, <3>1, <3>2, <3>3, <3>4
  <2>6. CASE ~p
    BY <2>4, <2>6, CloseNone
  <2> QED BY <2>5, <2>6
<1>4. RowsClose(c, t, s, n)
  BY <1>3 DEF RowsClose
<1>5. SumTo(c, n) \in Int /\ SumTo(t, n) \in Int /\ SumTo(s, n) \in Int
  BY <1>1, <1>3, RowSum
<1> QED BY <1>1, <1>2, <1>4, <1>5, CloseRows

\* Documents paid off are what they were, less what was taken off them.
PaidShape(side, bs, bt, units) ==
  /\ bt \in Seq(BillSet) /\ SumOver(BillUnits(side), bs) = SumOver(BillUnits(side), bt) + units
  /\ \A other : other # side => SumOver(BillUnits(other), bt) = SumOver(BillUnits(other), bs)
\* Documents paid off are documents, and owe that much less.
LEMMA PaidOffIs ==
  ASSUME NEW side, NEW bs \in Seq(BillSet), NEW applied, NEW n, n = Len(bs),
         \A i \in DOMAIN bs : applied[i] \in Nat /\ (applied[i] > 0 => bs[i].side = side)
  PROVE  PaidShape(side, bs, PaidOff(applied, bs), SumTo(UnitsTaken(applied, bs), n))
<1>1. n \in Nat /\ DOMAIN bs = 1..n
  OBVIOUS
<1>2. PICK bt, w : bt = PaidOff(applied, bs) /\ w = UnitsTaken(applied, bs)
  OBVIOUS
<1>3. ASSUME NEW i \in 1..n
      PROVE  /\ bs[i] \in BillSet /\ bt[i] \in BillSet
             /\ BillUnits(side)[bt[i]] \in Int /\ w[i] \in Int
             /\ BillUnits(side)[bs[i]] = BillUnits(side)[bt[i]] + w[i]
             /\ \A other : other # side => BillUnits(other)[bt[i]] = BillUnits(other)[bs[i]]
  <2>1. PICK b, a, u, d, r : b = bs[i] /\ a = applied[i] /\ r = b.rate /\ u = FxUnit \div r /\ d = Due(b)
    OBVIOUS
  <2>2. b \in BillSet /\ a \in Nat /\ (a > 0 => b.side = side)
    BY <1>1, <2>1
  <2>3. r \in RateSet /\ b.total \in Int /\ b.paid \in Int
    BY <2>1, <2>2 DEF BillSet
  <2>4. u \in Nat /\ d \in Int
    BY <2>1, <2>3, RateUnits DEF Due
  <2>5. PICK c : c = [b EXCEPT !.paid = @ + a]
    OBVIOUS
  <2>6. bt[i] = c
    BY <1>1, <1>2, <2>1, <2>5 DEF PaidOff
  <2>7. c \in BillSet /\ c.side = b.side /\ c.rate = r /\ Due(c) = d - a
    <3>1. PICK x : x = b.paid + a /\ x \in Int
      BY <2>2, <2>3
    <3>2. c = [b EXCEPT !.paid = x]
      BY <2>5, <3>1
    <3>3. c \in BillSet
      BY <2>2, <3>1, <3>2 DEF BillSet
    <3>4. c.side = b.side /\ c.rate = b.rate /\ c.total = b.total /\ c.paid = x
      BY <2>2, <3>2 DEF BillSet
    <3>5. b.total - x = (b.total - b.paid) - a
      BY <2>2, <2>3, <3>1
    <3> QED BY <2>1, <3>3, <3>4, <3>5 DEF Due
  <2>8. /\ \A o : BillUnits(o)[b] = IF b.side = o THEN d * u ELSE 0
        /\ \A o : BillUnits(o)[c] = IF b.side = o THEN (d - a) * u ELSE 0
    BY <2>1, <2>2, <2>7 DEF BillUnits
  <2>9. PICK x, y, z : x = d * u /\ y = (d - a) * u /\ z = a * u
    OBVIOUS
  <2>10. x \in Int /\ y \in Int /\ z \in Int /\ x = y + z
    BY <2>2, <2>4, <2>9
  <2>11. PICK p : p = (a > 0)
    OBVIOUS
  <2>12. w[i] = IF p THEN z ELSE 0
    BY <1>1, <1>2, <2>1, <2>9, <2>11 DEF UnitsTaken
  <2>13. CASE p
    <3>1. b.side = side
      <4>1. a > 0
        BY ONLY <2>11, <2>13, Zenon
      <4> QED BY <2>2, <4>1
    <3>2. w[i] = z /\ BillUnits(side)[b] = x /\ BillUnits(side)[c] = y
      BY <2>8, <2>9, <2>12, <2>13, <3>1
    <3>3. \A o : o # side => BillUnits(o)[b] = 0 /\ BillUnits(o)[c] = 0
      BY <2>8, <3>1
    <3> QED BY <2>1, <2>2, <2>6, <2>7, <2>10, <3>2, <3>3
  <2>14. CASE ~p
    <3>1. a = 0
      <4>1. ~(a > 0)
        BY ONLY <2>11, <2>14, Zenon
      <4> QED BY <2>2, <4>1
    <3>2. x = y
      BY <2>4, <2>9, <3>1
    <3>3. w[i] = 0 /\ \A o : BillUnits(o)[c] = BillUnits(o)[b]
      BY <2>8, <2>9, <2>12, <2>14, <3>2
    <3>4. BillUnits(side)[b] \in Int
      BY <2>2, UnitMeasures DEF Measure
    <3>5. PICK v : v = BillUnits(side)[b] /\ v \in Int
      BY <3>4
    <3>6. v + 0 = v
      BY ONLY <3>5
    <3>7. BillUnits(side)[bs[i]] = v /\ BillUnits(side)[bt[i]] = v
      BY <2>1, <2>6, <3>3, <3>5
    <3>8. 0 \in Int
      OBVIOUS
    <3> QED BY <2>1, <2>2, <2>6, <2>7, <3>3, <3>5, <3>6, <3>7, <3>8
  <2> QED BY <2>13, <2>14
<1>4. bt \in Seq(BillSet) /\ Len(bt) = n /\ DOMAIN bt = 1..n
  <2>1. bt = [i \in 1..n |-> bt[i]]
    BY <1>1, <1>2 DEF PaidOff
  <2>2. \A i \in 1..n : bt[i] \in BillSet
    BY <1>3
  <2> QED BY ONLY <1>1, <2>1, <2>2
<1>5. SumOver(BillUnits(side), bs) = SumOver(BillUnits(side), bt) + SumTo(w, n)
  <2>1. PICK x, y : x = [i \in DOMAIN bs |-> BillUnits(side)[bs[i]]] /\ y = [i \in DOMAIN bt |-> BillUnits(side)[bt[i]]]
    OBVIOUS
  <2>2. \A i \in 1..n : y[i] \in Int /\ w[i] \in Int /\ x[i] = y[i] + w[i]
    BY <1>1, <1>3, <1>4, <2>1
  <2>3. SumTo(x, n) = SumTo(y, n) + SumTo(w, n)
    BY <1>1, <2>2, RowPlus
  <2> QED BY <1>4, <2>1, <2>3 DEF SumOver
<1>6. ASSUME NEW other, other # side PROVE SumOver(BillUnits(other), bt) = SumOver(BillUnits(other), bs)
  <2>1. PICK x, y : x = [i \in DOMAIN bs |-> BillUnits(other)[bs[i]]] /\ y = [i \in DOMAIN bt |-> BillUnits(other)[bt[i]]]
    OBVIOUS
  <2>2. \A i \in 1..n : x[i] \in Int /\ y[i] = x[i]
    BY <1>1, <1>3, <1>4, <1>6, <2>1, UnitMeasures DEF Measure
  <2>3. SumTo(y, n) = SumTo(x, n)
    BY <1>1, <2>2, RowSame
  <2> QED BY <1>4, <2>1, <2>3 DEF SumOver
<1> QED BY <1>2, <1>4, <1>5, <1>6 DEF PaidShape

\* What the lines of a settlement take off the account, debited or credited.
LEMMA RelievedIs ==
  ASSUME NEW bs \in Seq(BillSet), NEW applied, \A i \in DOMAIN bs : applied[i] \in Nat, NEW n, n = Len(bs),
         NEW m \in {1, -1}
  PROVE  SumTo(TakenOff(m, applied, bs), n) = m * SumTo(Taken(applied, bs), n)
<1>1. n \in Nat /\ DOMAIN bs = 1..n
  OBVIOUS
<1>2. PICK c, d : c = Taken(applied, bs) /\ d = TakenOff(m, applied, bs)
  OBVIOUS
<1>3. ASSUME NEW i \in 1..n PROVE c[i] \in Int /\ d[i] \in Int /\ d[i] = m * c[i]
  <2>1. PICK a, r, p, h : a = applied[i] /\ r = bs[i].rate /\ p = (a > 0) /\ h = Base(a, r)
    OBVIOUS
  <2>2. bs[i] \in BillSet /\ a \in Nat
    BY <1>1, <2>1
  <2>3. h \in Int
    <3>1. r \in RateSet
      BY <2>1, <2>2 DEF BillSet
    <3> QED BY <2>1, <2>2, <3>1, BaseClose
  <2>4. c[i] = (IF p THEN h ELSE 0) /\ d[i] = (IF p THEN m * h ELSE 0)
    BY <1>1, <1>2, <2>1 DEF Taken, TakenOff
  <2>5. m * h \in Int /\ m * 0 = 0
    BY <2>3
  <2> QED BY <2>3, <2>4, <2>5
<1>4. SumTo(c, n) \in Int /\ SumTo(d, n) \in Int
  BY <1>1, <1>3, RowSum
<1>5. PICK x, y : x = SumTo(c, n) /\ y = SumTo(d, n) /\ x \in Int /\ y \in Int
  BY <1>4
<1>6. CASE m = 1
  <2>1. \A i \in 1..n : c[i] \in Int /\ d[i] = c[i]
    BY <1>3, <1>6
  <2>2. y = x
    BY <1>1, <1>5, <2>1, RowSame
  <2> QED BY <1>2, <1>5, <1>6, <2>2
<1>7. CASE m = -1
  <2>1. PICK z : z = [i \in 1..n |-> 0]
    OBVIOUS
  <2>2. \A i \in 1..n : c[i] \in Int /\ d[i] \in Int /\ z[i] = c[i] + d[i]
    BY <1>3, <1>7, <2>1
  <2>3. SumTo(z, n) = x + y
    BY <1>1, <1>5, <2>2, RowPlus
  <2>4. SumTo(z, n) = 0
    BY <1>1, <2>1, RowZero
  <2>5. y = (-1) * x
    BY <1>5, <2>3, <2>4
  <2> QED BY <1>2, <1>5, <1>7, <2>5
<1> QED BY <1>6, <1>7

\* What is left over counts on its own side only.
LEMMA CreditIs ==
  ASSUME NEW side \in Sides, NEW currency \in CurrencySet, NEW rate \in RateSet, NEW amount \in Nat,
         NEW c, c = [side |-> side, currency |-> currency, rate |-> rate, amount |-> amount]
  PROVE  /\ c \in CreditSet /\ CreditUnits(side)[c] = amount * (FxUnit \div rate)
         /\ \A other : other # side => CreditUnits(other)[c] = 0
<1>1. c \in CreditSet /\ c.side = side /\ c.rate = rate /\ c.amount = amount
  BY DEF CreditSet
<1> QED BY <1>1 DEF CreditUnits

\* Money received or paid beyond what was due, kept as a credit.
OverUnits(rest, r) == IF rest > 0 THEN rest * (FxUnit \div r) ELSE 0
\* What is left over is close to the line of it.
LEMMA OverClose ==
  ASSUME NEW rest \in Int, NEW r \in RateSet, NEW b, b = IF rest > 0 THEN Base(rest, r) ELSE 0,
         NEW n, n = IF rest > 0 THEN 1 ELSE 0
  PROVE  b \in Int /\ n \in Int /\ OverUnits(rest, r) \in Int /\ Close(b, n, OverUnits(rest, r))
<1>1. CASE rest > 0
  <2>1. Base(rest, r) \in Int
    BY BaseClose
  <2>2. PICK u \in Nat : u = FxUnit \div r
    BY RateUnits
  <2>3. rest * u \in Int
    BY <2>2
  <2> QED BY <1>1, <2>1, <2>2, <2>3, CloseBases DEF OverUnits
<1>2. CASE ~(rest > 0)
  BY <1>2, CloseNone DEF OverUnits
<1> QED BY <1>1, <1>2

\* A settlement keeps its subledger tied to its control account.
LEMMA TiedSettlement ==
  ASSUME NEW side \in Sides, NEW j \in Seq(EntrySet), NEW bs \in Seq(BillSet), NEW cs \in Seq(CreditSet),
         Tied(side, j, bs, cs), NEW e \in EntrySet, NEW applied,
         \A i \in DOMAIN bs : applied[i] \in Nat /\ (applied[i] > 0 => bs[i].side = side),
         NEW rest \in Int, NEW r \in RateSet, NEW m \in {1, -1}, m + SignOf(side) = 0,
         AddsUp(BaseIn({side}), e.lines,
              SumTo(TakenOff(m, applied, bs), Len(bs)) + IF rest > 0 THEN m * Base(rest, r) ELSE 0),
         AddsUp(CountIn(side), e.lines, SumTo(Touched(applied, bs), Len(bs)) + IF rest > 0 THEN 1 ELSE 0),
         NEW ct, SumOver(CreditUnits(side), ct) = SumOver(CreditUnits(side), cs) + OverUnits(rest, r)
  PROVE  Tied(side, Append(j, e), PaidOff(applied, bs), ct)
<1>1. PICK n, X, T, W, B, N, V : /\ n = Len(bs) /\ X = SumTo(Taken(applied, bs), n) /\ T = SumTo(Touched(applied, bs), n)
         /\ W = SumTo(UnitsTaken(applied, bs), n) /\ B = (IF rest > 0 THEN Base(rest, r) ELSE 0)
         /\ N = (IF rest > 0 THEN 1 ELSE 0) /\ V = OverUnits(rest, r)
  OBVIOUS
<1>2. X \in Int /\ T \in Int /\ W \in Int /\ Close(X, T, W)
  BY <1>1, TakenClose
<1>3. B \in Int /\ N \in Int /\ V \in Int /\ Close(B, N, V)
  BY <1>1, OverClose
<1>4. Close(X + B, T + N, W + V)
  BY <1>2, <1>3, CloseJoin
<1>5. PICK a : a = SumTo(TakenOff(m, applied, bs), Len(bs)) + IF rest > 0 THEN m * Base(rest, r) ELSE 0
  OBVIOUS
<1>6. a = m * X + m * B
  <2>1. SumTo(TakenOff(m, applied, bs), n) = m * X
    BY <1>1, RelievedIs
  <2>2. m * 0 = 0 /\ m \in Int
    OBVIOUS
  <2>3. (IF rest > 0 THEN m * Base(rest, r) ELSE 0) = m * B
    BY <1>1, <2>2
  <2> QED BY <1>1, <1>5, <2>1, <2>3
<1>7. PICK g : g = SignOf(side) /\ g \in {1, -1} /\ m + g = 0
  BY SignIs
<1>8. PICK d, w : d = g * a /\ w = -(W + V)
  OBVIOUS
<1>9. d \in Int /\ w \in Int /\ a \in Int /\ (X + B) + d = 0 /\ (W + V) + w = 0
  <2>1. w \in Int /\ (W + V) + w = 0
    BY <1>2, <1>3, <1>8
  <2>2. CASE m = 1
    <3>1. a = X + B /\ g = -1
      BY <1>2, <1>3, <1>6, <1>7, <2>2
    <3> QED BY <1>2, <1>3, <1>8, <2>1, <3>1
  <2>3. CASE m = -1
    <3>1. a + X + B = 0 /\ a \in Int /\ g = 1
      BY <1>2, <1>3, <1>6, <1>7, <2>3
    <3> QED BY <1>2, <1>3, <1>8, <2>1, <3>1
  <2> QED BY <2>2, <2>3
<1>10. T + N \in Int /\ Close(d, T + N, w)
  <2>1. T + N \in Int /\ X + B \in Int /\ W + V \in Int
    BY <1>2, <1>3
  <2> QED BY <1>4, <1>9, <2>1, CloseOpposite
<1>11. PICK x, y, z, v : /\ x = SumOver(BillUnits(side), bs) /\ y = SumOver(CreditUnits(side), cs)
                         /\ z = SumOver(BillUnits(side), PaidOff(applied, bs)) /\ v = SumOver(CreditUnits(side), ct)
  OBVIOUS
<1>12. x \in Int /\ y \in Int /\ z \in Int /\ x = z + W /\ v = y + V
  <2>1. x \in Int /\ y \in Int
    BY <1>11, TiedTypes
  <2>2. PaidOff(applied, bs) \in Seq(BillSet) /\ x = z + W
    BY SMTT(30), <1>1, <1>11, PaidOffIs DEF PaidShape
  <2>3. z \in Int
    BY <1>11, <2>2, UnitMeasures, OverType
  <2> QED BY <1>1, <1>11, <2>1, <2>2, <2>3
<1>13. SubUnits(side, PaidOff(applied, bs), ct) = SubUnits(side, bs, cs) + w
  <2>1. z - v = (x - y) + w
    BY <1>2, <1>3, <1>9, <1>12
  <2> QED BY <1>11, <2>1 DEF SubUnits
<1>14. AddsUp(BaseIn({side}), e.lines, a)
  BY <1>5
<1>15. AddsUp(CountIn(side), e.lines, T + N)
  BY <1>1
<1>16. Close(SignOf(side) * a, T + N, w)
  BY <1>7, <1>8, <1>10
<1> QED BY <1>9, <1>10, <1>13, <1>14, <1>15, <1>16, TiedMove

\* The books of the other side are left alone.
LEMMA TiedElsewhere ==
  ASSUME NEW other \in Sides, NEW side, other # side, NEW j \in Seq(EntrySet), NEW bs \in Seq(BillSet),
         NEW cs \in Seq(CreditSet), Tied(other, j, bs, cs), NEW e \in EntrySet, Untouched(e.lines, other), NEW applied,
         \A i \in DOMAIN bs : applied[i] \in Nat /\ (applied[i] > 0 => bs[i].side = side),
         NEW ct, SumOver(CreditUnits(other), ct) = SumOver(CreditUnits(other), cs)
  PROVE  Tied(other, Append(j, e), PaidOff(applied, bs), ct)
<1>1. SumOver(BillUnits(other), PaidOff(applied, bs)) = SumOver(BillUnits(other), bs)
  <2>1. PICK n : n = Len(bs)
    OBVIOUS
  <2>2. PaidShape(side, bs, PaidOff(applied, bs), SumTo(UnitsTaken(applied, bs), n))
    BY <2>1, PaidOffIs
  <2> QED BY <2>2 DEF PaidShape
<1>2. SubUnits(other, PaidOff(applied, bs), ct) = SubUnits(other, bs, cs)
  BY <1>1 DEF SubUnits
<1> QED BY <1>2, TiedQuiet

-----------------------------------------------------------------------------
(* The inductive invariant: what the documents keep true of the books.      *)

PostingsTyped ==
  /\ today \in 1..Days /\ vat \in VatRates /\ Balanced(journal)
  /\ orders \in Seq(OrderSet) /\ bills \in Seq(BillSet) /\ credits \in Seq(CreditSet)
  /\ owed \in [{"CASH"} \cup KaratSet -> Int]
  /\ refused \subseteq {"VENDOR_BILL_LBP"}

\* An entry of a sale touches no supplier and no vendor, and the customers only
\* when the sale was on credit.
SaleEntry(e, os) ==
  /\ e.source[2] \in DOMAIN os
  /\ Untouched(e.lines, "AP") /\ Untouched(e.lines, "METAL_AP") /\ Untouched(e.lines, "VENDOR_AP")
  /\ os[e.source[2]].pay # "CREDIT" => Untouched(e.lines, "AR")
\* Every order has the entry that undoing it reverses.
SalesKept ==
  /\ \A n \in DOMAIN orders : \E i \in DOMAIN journal : journal[i].source = <<"ORDER", n>>
  /\ \A i \in DOMAIN journal : journal[i].source[1] = "ORDER" => SaleEntry(journal[i], orders)

OwedKept ==
  /\ owed["CASH"] + Replayed(BaseIn({"AP"}), 1..Days, journal) = 0
  /\ \A k \in KaratSet : owed[k] + Replayed(GramsIn("METAL_AP", k), 1..Days, journal) = 0

SidesKept ==
  /\ OverpaidInPounds("AR") \/ CreditSaleUndone \/ Tied("AR", journal, bills, credits)
  /\ OverpaidInPounds("VENDOR_AP") \/ Tied("VENDOR_AP", journal, bills, credits)

PostingsInv == PostingsTyped /\ SalesKept /\ OwedKept /\ SidesKept

-----------------------------------------------------------------------------
(* A step that posts.                                                       *)

\* An entry let into the books.
Entered(e) ==
  /\ e \in EntrySet /\ Valid(e.lines) /\ journal' = Append(journal, e)
  /\ UNCHANGED <<today, vat, refused>>

\* Lines that are let in become an entry of today.
LEMMA PostIs ==
  ASSUME PostingsTyped, NEW source \in Sources, NEW lines \in Seq(LineSet), Valid(lines),
         NEW os, NEW ow, NEW bs, NEW cs, Post(source, lines, os, ow, bs, cs)
  PROVE  /\ \E e : e.source = source /\ e.lines = lines /\ Entered(e)
         /\ orders' = os /\ owed' = ow /\ bills' = bs /\ credits' = cs
<1>1. PICK e : e = [day |-> today, source |-> source, lines |-> lines]
  OBVIOUS
<1>2. e \in EntrySet /\ e.source = source /\ e.lines = lines
  BY <1>1 DEF EntrySet, PostingsTyped
<1>3. journal' = Append(journal, e) /\ UNCHANGED <<today, vat, refused>>
  BY <1>1 DEF Post
<1> QED BY <1>2, <1>3 DEF Post, Entered

\* Lines that are not let in leave only the refusal behind.
LEMMA PostRefused ==
  ASSUME NEW source, NEW lines, ~Valid(lines), NEW os, NEW ow, NEW bs, NEW cs, Post(source, lines, os, ow, bs, cs)
  PROVE  /\ refused' = refused \cup {source[1]}
         /\ UNCHANGED <<today, vat, journal, orders, owed, bills, credits>>
BY DEF Post

\* The journal grows by its last entry.
LEMMA JournalGrows ==
  ASSUME PostingsTyped, NEW e, Entered(e)
  PROVE  /\ Balanced(journal') /\ today' \in 1..Days /\ vat' \in VatRates /\ refused' \subseteq {"VENDOR_BILL_LBP"}
         /\ DOMAIN journal' = DOMAIN journal \cup {Len(journal) + 1}
         /\ \A i \in DOMAIN journal : journal'[i] = journal[i]
         /\ journal'[Len(journal) + 1] = e
<1>1. journal \in Seq(EntrySet) /\ e \in EntrySet /\ journal' = Append(journal, e)
  BY DEF PostingsTyped, Balanced, Entered
<1>2. /\ DOMAIN journal' = DOMAIN journal \cup {Len(journal) + 1} /\ journal' \in Seq(EntrySet)
      /\ \A i \in DOMAIN journal : journal'[i] = journal[i]
      /\ journal'[Len(journal) + 1] = e
  BY <1>1
<1>3. ASSUME NEW i \in 1..Len(journal') PROVE Valid(journal'[i].lines)
  <2>1. CASE i \in DOMAIN journal
    <3>1. i \in 1..Len(journal)
      BY <1>1, <2>1
    <3>2. Valid(journal[i].lines)
      BY <3>1 DEF PostingsTyped, Balanced
    <3> QED BY <1>2, <2>1, <3>2
  <2>2. CASE i \notin DOMAIN journal
    <3>1. i = Len(journal) + 1
      BY <1>1, <1>2, <2>2
    <3>2. journal'[i] = e
      BY <1>2, <3>1
    <3> QED BY <3>2 DEF Entered
  <2> QED BY <2>1, <2>2
<1> QED BY <1>2, <1>3 DEF PostingsTyped, Balanced, Entered

\* What the suppliers are owed moves with their accounts.
LEMMA OwedMoves ==
  ASSUME PostingsTyped, OwedKept, NEW e, Entered(e), NEW a, NEW g, AddsUp(BaseIn({"AP"}), e.lines, a),
         \A k \in KaratSet : AddsUp(GramsIn("METAL_AP", k), e.lines, g[k]),
         owed'["CASH"] + a = owed["CASH"], owed'["CASH"] \in Int,
         \A k \in KaratSet : owed'[k] \in Int /\ owed'[k] + g[k] = owed[k]
  PROVE  OwedKept'
<1>1. journal \in Seq(EntrySet) /\ e \in EntrySet /\ journal' = Append(journal, e) /\ e.day \in 1..Days
  BY DEF PostingsTyped, Balanced, Entered, EntrySet
<1>2. ASSUME NEW f, NEW x, Measure(f, LineSet), AddsUp(f, e.lines, x)
      PROVE  /\ Replayed(f, 1..Days, journal') = Replayed(f, 1..Days, journal) + x
             /\ Replayed(f, 1..Days, journal) \in Int /\ x \in Int
  <2>1. x \in Int /\ SumOver(f, e.lines) = x
    BY <1>2 DEF AddsUp
  <2>2. Replayed(f, 1..Days, journal) \in Int
    BY <1>1, <1>2, ReplayedType
  <2>3. Replayed(f, 1..Days, journal')
          = Replayed(f, 1..Days, journal) + (IF e.day \in 1..Days THEN SumOver(f, e.lines) ELSE 0)
    BY <1>1, <1>2, ReplayedAppend
  <2> QED BY <1>1, <2>1, <2>2, <2>3
<1>3. owed'["CASH"] + Replayed(BaseIn({"AP"}), 1..Days, journal') = 0
  <2>1. PICK r, s, x, y : /\ r = Replayed(BaseIn({"AP"}), 1..Days, journal) /\ x = owed["CASH"] /\ y = owed'["CASH"]
                          /\ s = Replayed(BaseIn({"AP"}), 1..Days, journal')
    OBVIOUS
  <2>2. s = r + a /\ r \in Int /\ a \in Int
    BY <1>2, <2>1, Measures
  <2>3. x + r = 0 /\ y + a = x /\ y \in Int
    BY <2>1 DEF OwedKept
  <2>4. y + s = 0
    BY ONLY <2>2, <2>3
  <2> QED BY <2>1, <2>4
<1>4. ASSUME NEW k \in KaratSet PROVE owed'[k] + Replayed(GramsIn("METAL_AP", k), 1..Days, journal') = 0
  <2>1. PICK r, s, x, y, b : /\ r = Replayed(GramsIn("METAL_AP", k), 1..Days, journal) /\ x = owed[k] /\ y = owed'[k]
                             /\ s = Replayed(GramsIn("METAL_AP", k), 1..Days, journal') /\ b = g[k]
    OBVIOUS
  <2>2. s = r + b /\ r \in Int /\ b \in Int
    BY <1>2, <2>1, Measures
  <2>3. x + r = 0 /\ y + b = x /\ y \in Int
    BY <2>1 DEF OwedKept
  <2>4. y + s = 0
    BY ONLY <2>2, <2>3
  <2> QED BY <2>1, <2>4
<1> QED BY <1>3, <1>4 DEF OwedKept

\* What suppliers are owed is not touched by other entries.
LEMMA OwedQuiet ==
  ASSUME PostingsTyped, OwedKept, NEW e, Entered(e), Untouched(e.lines, "AP"), Untouched(e.lines, "METAL_AP"), owed' = owed
  PROVE  OwedKept'
<1>1. owed["CASH"] \in Int /\ \A k \in KaratSet : owed[k] \in Int
  BY DEF PostingsTyped
<1>2. PICK g : g = [k \in KaratSet |-> 0]
  OBVIOUS
<1>3. \A k \in KaratSet : AddsUp(GramsIn("METAL_AP", k), e.lines, g[k])
  BY <1>2 DEF Untouched
<1>4. AddsUp(BaseIn({"AP"}), e.lines, 0)
  BY DEF Untouched
<1>5. owed["CASH"] + 0 = owed["CASH"] /\ \A k \in KaratSet : owed[k] + g[k] = owed[k]
  BY <1>1, <1>2
<1> QED BY <1>1, <1>3, <1>4, <1>5, OwedMoves

\* An entry that is not of a sale, and orders that stay what they were.
LEMMA SalesSame ==
  ASSUME PostingsTyped, SalesKept, NEW e, Entered(e), e.source[1] # "ORDER", DOMAIN orders' = DOMAIN orders,
         \A n \in DOMAIN orders : orders'[n].pay = orders[n].pay
  PROVE  SalesKept'
<1>1. /\ DOMAIN journal' = DOMAIN journal \cup {Len(journal) + 1}
      /\ \A i \in DOMAIN journal : journal'[i] = journal[i]
      /\ journal'[Len(journal) + 1] = e
  BY JournalGrows
<1>2. ASSUME NEW n \in DOMAIN orders' PROVE \E i \in DOMAIN journal' : journal'[i].source = <<"ORDER", n>>
  BY <1>1, <1>2 DEF SalesKept
<1>3. ASSUME NEW i \in DOMAIN journal', journal'[i].source[1] = "ORDER" PROVE SaleEntry(journal'[i], orders')
  <2>1. CASE i \in DOMAIN journal
    <3>1. SaleEntry(journal[i], orders) /\ journal'[i] = journal[i]
      BY <1>1, <1>3, <2>1 DEF SalesKept
    <3> QED BY <3>1 DEF SaleEntry
  <2>2. CASE i \notin DOMAIN journal
    BY <1>1, <1>3, <2>2
  <2> QED BY <2>1, <2>2
<1> QED BY <1>2, <1>3 DEF SalesKept

\* A side whose account an entry leaves alone, with its documents.
LEMMA SideQuiet ==
  ASSUME PostingsTyped, NEW e, Entered(e), NEW side, Untouched(e.lines, side), bills' = bills, credits' = credits,
         Tied(side, journal, bills, credits)
  PROVE  Tied(side, journal', bills', credits')
BY TiedQuiet DEF PostingsTyped, Balanced, Entered

\* A document of no subledger here.
LEMMA PlainKeeps ==
  ASSUME PostingsInv, NEW source \in Sources, source[1] # "ORDER", NEW lines \in Seq(LineSet), Valid(lines),
         AllQuiet(lines), Plain(source, lines)
  PROVE  PostingsInv'
<1>1. PICK e : e.source = source /\ e.lines = lines /\ Entered(e)
  BY PostIs DEF Plain, PostingsInv
<1>2. UNCHANGED <<orders, owed, bills, credits>>
  BY PostIs DEF Plain, PostingsInv
<1>3. PostingsTyped'
  BY <1>1, <1>2, JournalGrows DEF PostingsInv, PostingsTyped
<1>4. SalesKept'
  BY <1>1, <1>2, SalesSame DEF PostingsInv
<1>5. OwedKept'
  BY <1>1, <1>2, OwedQuiet DEF PostingsInv, AllQuiet
<1>6. SidesKept'
  <2>1. \A side \in Sides : Tied(side, journal, bills, credits) => Tied(side, journal', bills', credits')
    BY <1>1, <1>2, SideQuiet DEF PostingsInv, AllQuiet, Sides
  <2>2. (OverpaidInPounds("AR") => OverpaidInPounds("AR")') /\ (OverpaidInPounds("VENDOR_AP") => OverpaidInPounds("VENDOR_AP")')
        /\ (CreditSaleUndone => CreditSaleUndone')
    BY <1>2 DEF OverpaidInPounds, CreditSaleUndone
  <2> QED BY <2>1, <2>2 DEF PostingsInv, SidesKept, Sides
<1> QED BY <1>3, <1>4, <1>5, <1>6 DEF PostingsInv

-----------------------------------------------------------------------------
(* The suppliers and the stock.                                             *)

\* Sides whose documents and accounts stay as they are.
LEMMA SidesQuiet ==
  ASSUME PostingsInv, NEW e, Entered(e), \A side \in Sides : Untouched(e.lines, side),
         UNCHANGED <<bills, credits>>, CreditSaleUndone => CreditSaleUndone'
  PROVE  SidesKept'
<1>1. \A side \in Sides : Tied(side, journal, bills, credits) => Tied(side, journal', bills', credits')
  BY SideQuiet DEF PostingsInv
<1>2. (OverpaidInPounds("AR") => OverpaidInPounds("AR")') /\ (OverpaidInPounds("VENDOR_AP") => OverpaidInPounds("VENDOR_AP")')
  BY DEF OverpaidInPounds
<1> QED BY <1>1, <1>2 DEF PostingsInv, SidesKept, Sides

\* The kinds of documents, as the journal names them.
LEMMA SourcesAre ==
  /\ \A s \in SupplySources \cup AccountSources : <<s>> \in Sources /\ <<s>>[1] = s /\ s # "ORDER"
  /\ \A s \in TradeSources, n \in Nat : <<s, n>> \in Sources /\ <<s, n>>[1] = s /\ <<s, n>>[2] = n
BY DEF Sources, TradeSources, SupplySources, AccountSources

\* A document of a supplier.
LEMMA SupplierKeeps ==
  ASSUME PostingsInv, NEW source \in Sources, source[1] # "ORDER", NEW lines \in Seq(LineSet), Valid(lines),
         Untouched(lines, "AR"), Untouched(lines, "VENDOR_AP"), NEW a, NEW g, AddsUp(BaseIn({"AP"}), lines, a),
         \A k \in KaratSet : AddsUp(GramsIn("METAL_AP", k), lines, g[k]),
         NEW ow \in [{"CASH"} \cup KaratSet -> Int],
         ow["CASH"] + a = owed["CASH"], \A k \in KaratSet : ow[k] + g[k] = owed[k],
         Post(source, lines, orders, ow, bills, credits)
  PROVE  PostingsInv'
<1>1. PICK e : e.source = source /\ e.lines = lines /\ Entered(e)
  BY PostIs DEF PostingsInv
<1>2. UNCHANGED <<orders, bills, credits>> /\ owed' = ow
  BY PostIs DEF PostingsInv
<1>3. PostingsTyped'
  BY <1>1, <1>2, JournalGrows DEF PostingsInv, PostingsTyped
<1>4. SalesKept'
  BY <1>1, <1>2, SalesSame DEF PostingsInv
<1>5. OwedKept'
  <2>1. owed'["CASH"] \in Int /\ \A k \in KaratSet : owed'[k] \in Int
    BY <1>2
  <2> QED BY <1>1, <1>2, <2>1, OwedMoves DEF PostingsInv
<1>6. SidesKept'
  <2>1. \A side \in Sides : Untouched(e.lines, side)
    BY <1>1 DEF Sides
  <2>2. CreditSaleUndone => CreditSaleUndone'
    BY <1>2 DEF CreditSaleUndone
  <2> QED BY <1>1, <1>2, <2>1, <2>2, SidesQuiet
<1> QED BY <1>3, <1>4, <1>5, <1>6 DEF PostingsInv

\* POST /suppliers/{id}/purchases keeps the books.
LEMMA DeliverKeeps == ASSUME PostingsInv, NEW p \in Deliveries, Deliver(p) PROVE PostingsInv'
<1>1. p \in DeliverySet /\ p.paid <= p.due /\ (\A k \in KaratSet : p.drawn[k] <= p.gold[k]) /\ DeliveryLines(p) # <<>>
  BY SupplyAssumption DEF DeliverySet, Deliver
<1>2. PICK s, a, g, ow : /\ s = DeliveryLines(p) /\ a = p.paid - p.due /\ g = [k \in KaratSet |-> p.drawn[k] - p.gold[k]]
                         /\ ow = Owing(p)
  OBVIOUS
<1>3. s \in Seq(LineSet) /\ Valid(s) /\ Untouched(s, "AR") /\ Untouched(s, "VENDOR_AP") /\ AddsUp(BaseIn({"AP"}), s, a)
  BY <1>1, <1>2, DeliveryLetIn, DeliveryBooks
<1>4. \A k \in KaratSet : AddsUp(GramsIn("METAL_AP", k), s, g[k])
  BY <1>1, <1>2, DeliveryBooks
<1>5. p.due \in Nat /\ p.paid \in Nat /\ \A k \in KaratSet : p.gold[k] \in Nat /\ p.drawn[k] \in Nat
  BY <1>1 DEF DeliverySet, ByKarat
<1>6. owed \in [{"CASH"} \cup KaratSet -> Int]
  BY DEF PostingsInv, PostingsTyped
<1>7. "CASH" \notin KaratSet
  BY DEF KaratSet
<1>8. DOMAIN ow = {"CASH"} \cup KaratSet /\ ow = [u \in {"CASH"} \cup KaratSet |-> ow[u]]
  BY <1>2, <1>6 DEF Owing
<1>9. PICK c, d : c = owed["CASH"] /\ d = ow["CASH"] /\ c \in Int /\ d = c + (p.due - p.paid)
  BY <1>2, <1>6 DEF Owing
<1>10. d \in Int /\ d + a = c
  BY <1>2, <1>5, <1>9
<1>11. ASSUME NEW k \in KaratSet PROVE ow[k] \in Int /\ ow[k] + g[k] = owed[k]
  <2>1. PICK x, y, m, n : x = owed[k] /\ y = ow[k] /\ m = p.gold[k] /\ n = p.drawn[k]
    OBVIOUS
  <2>2. x \in Int /\ y = x + (m - n) /\ m \in Nat /\ n \in Nat
    BY <1>2, <1>5, <1>6, <1>7, <2>1 DEF Owing
  <2>3. y \in Int /\ y + (n - m) = x
    BY ONLY <2>2
  <2> QED BY <1>2, <2>1, <2>3
<1>12. ow \in [{"CASH"} \cup KaratSet -> Int]
  BY <1>8, <1>9, <1>10, <1>11
<1>13. <<"SUPPLIER_PURCHASE">> \in Sources /\ <<"SUPPLIER_PURCHASE">>[1] # "ORDER"
  BY SourcesAre DEF SupplySources
<1>14. Post(<<"SUPPLIER_PURCHASE">>, s, orders, ow, bills, credits)
  BY <1>2 DEF Deliver
<1>15. ow["CASH"] + a = owed["CASH"] /\ \A k \in KaratSet : ow[k] + g[k] = owed[k]
  BY <1>9, <1>10, <1>11
<1> QED BY <1>3, <1>4, <1>12, <1>13, <1>14, <1>15, SupplierKeeps

\* POST /suppliers/{id}/payments in cash keeps the books.
LEMMA PayCashKeeps ==
  ASSUME PostingsInv, NEW amount \in Int, PaySupplier("CASH", amount) PROVE PostingsInv'
<1>1. PICK s, g, ow : s = CashPaid(amount) /\ g = [k \in KaratSet |-> 0] /\ ow = [owed EXCEPT !["CASH"] = @ - amount]
  OBVIOUS
<1>2. /\ s \in Seq(LineSet) /\ Valid(s) /\ Untouched(s, "AR") /\ Untouched(s, "VENDOR_AP") /\ Untouched(s, "METAL_AP")
      /\ AddsUp(BaseIn({"AP"}), s, amount)
  BY <1>1, CashPaidBooks
<1>3. \A k \in KaratSet : AddsUp(GramsIn("METAL_AP", k), s, g[k])
  BY <1>1, <1>2 DEF Untouched
<1>4. owed \in [{"CASH"} \cup KaratSet -> Int]
  BY DEF PostingsInv, PostingsTyped
<1>5. "CASH" \notin KaratSet
  BY DEF KaratSet
<1>6. PICK c, d : c = owed["CASH"] /\ c \in Int /\ d = c - amount /\ d \in Int
  BY <1>4
<1>7. ow \in [{"CASH"} \cup KaratSet -> Int] /\ ow["CASH"] = d /\ \A k \in KaratSet : ow[k] = owed[k]
  BY <1>1, <1>4, <1>5, <1>6
<1>8. ow["CASH"] + amount = owed["CASH"]
  BY <1>6, <1>7
<1>9. \A k \in KaratSet : ow[k] + g[k] = owed[k]
  BY <1>1, <1>4, <1>7
<1>10. <<"SUPPLIER_PAYMENT">> \in Sources /\ <<"SUPPLIER_PAYMENT">>[1] # "ORDER"
  BY SourcesAre DEF SupplySources
<1>11. Post(<<"SUPPLIER_PAYMENT">>, s, orders, ow, bills, credits)
  BY <1>1 DEF PaySupplier, CashPaid
<1> QED BY ZenonT(60), <1>2, <1>3, <1>7, <1>8, <1>9, <1>10, <1>11, SupplierKeeps

\* POST /suppliers/{id}/payments in gold keeps the books.
LEMMA PayGoldKeeps ==
  ASSUME PostingsInv, NEW unit \in KaratSet, NEW amount \in Int, PaySupplier(unit, amount) PROVE PostingsInv'
<1>1. PICK s, g, ow : /\ s = GoldPaid(unit, amount) /\ g = [k \in KaratSet |-> IF k = unit THEN amount ELSE 0]
                      /\ ow = [owed EXCEPT ![unit] = @ - amount]
  OBVIOUS
<1>2. /\ s \in Seq(LineSet) /\ Valid(s) /\ Untouched(s, "AR") /\ Untouched(s, "VENDOR_AP") /\ Untouched(s, "AP")
      /\ \A k \in KaratSet : AddsUp(GramsIn("METAL_AP", k), s, IF k = unit THEN amount ELSE 0)
  BY <1>1, GoldPaidBooks
<1>3. \A k \in KaratSet : AddsUp(GramsIn("METAL_AP", k), s, g[k])
  BY <1>1, <1>2
<1>4. owed \in [{"CASH"} \cup KaratSet -> Int]
  BY DEF PostingsInv, PostingsTyped
<1>5. "CASH" \notin KaratSet
  BY DEF KaratSet
<1>6. PICK c, d : c = owed[unit] /\ c \in Int /\ d = c - amount /\ d \in Int
  BY <1>4
<1>7. /\ ow \in [{"CASH"} \cup KaratSet -> Int] /\ ow[unit] = d /\ ow["CASH"] = owed["CASH"]
      /\ \A k \in KaratSet \ {unit} : ow[k] = owed[k]
  BY <1>1, <1>4, <1>5, <1>6
<1>8. AddsUp(BaseIn({"AP"}), s, 0) /\ ow["CASH"] + 0 = owed["CASH"]
  BY <1>2, <1>4, <1>7 DEF Untouched
<1>9. ASSUME NEW k \in KaratSet PROVE ow[k] + g[k] = owed[k]
  <2>1. CASE k = unit
    BY <1>1, <1>6, <1>7, <2>1
  <2>2. CASE k # unit
    BY <1>1, <1>4, <1>7, <2>2
  <2> QED BY <2>1, <2>2
<1>10. <<"SUPPLIER_PAYMENT">> \in Sources /\ <<"SUPPLIER_PAYMENT">>[1] # "ORDER"
  BY SourcesAre DEF SupplySources
<1>11. Post(<<"SUPPLIER_PAYMENT">>, s, orders, ow, bills, credits)
  <2>1. unit # "CASH"
    BY <1>5
  <2> QED BY <1>1, <2>1 DEF PaySupplier, GoldPaid
<1> QED BY ZenonT(60), <1>2, <1>3, <1>7, <1>8, <1>9, <1>10, <1>11, SupplierKeeps

\* Every document of the suppliers and the stock keeps the books.
LEMMA SupplyKeeps == ASSUME PostingsInv, Supply PROVE PostingsInv'
<1>1. CASE \E p \in Deliveries : Deliver(p)
  BY <1>1, DeliverKeeps
<1>2. CASE \E unit \in DOMAIN owed, amount \in Amounts : PaySupplier(unit, amount)
  <2>1. PICK unit \in DOMAIN owed, amount \in Amounts : PaySupplier(unit, amount)
    BY <1>2
  <2>2. unit \in {"CASH"} \cup KaratSet /\ amount \in Int
    BY AmountAssumption DEF PostingsInv, PostingsTyped
  <2> QED BY <2>1, <2>2, PayCashKeeps, PayGoldKeeps
<1>3. CASE \E s \in Scraps : BuyBack(s) \/ WriteOff(s)
  <2>1. PICK s \in Scraps : BuyBack(s) \/ WriteOff(s)
    BY <1>3
  <2>2. s \in ScrapSet
    BY SupplyAssumption DEF ScrapSet
  <2>3. /\ <<"BUYBACK">> \in Sources /\ <<"BUYBACK">>[1] # "ORDER"
        /\ <<"ADJUSTMENT">> \in Sources /\ <<"ADJUSTMENT">>[1] # "ORDER"
    BY SourcesAre DEF SupplySources
  <2>4. CASE BuyBack(s)
    BY <2>2, <2>3, <2>4, BuyBackBooks, PlainKeeps DEF BuyBack
  <2>5. CASE WriteOff(s)
    BY <2>2, <2>3, <2>5, WriteOffBooks, PlainKeeps DEF WriteOff
  <2> QED BY <2>1, <2>4, <2>5
<1>4. CASE \E s, t \in Scraps : Melt(s, t)
  <2>1. PICK s \in Scraps, t \in Scraps : Melt(s, t)
    BY <1>4
  <2>2. s \in ScrapSet /\ t \in ScrapSet /\ s.cost \in Int
    BY SupplyAssumption DEF ScrapSet
  <2>3. <<"MELT">> \in Sources /\ <<"MELT">>[1] # "ORDER"
    BY SourcesAre DEF SupplySources
  <2>4. MeltLines(s, t, s.cost) # <<>> /\ Plain(<<"MELT">>, MeltLines(s, t, s.cost))
    BY <2>1 DEF Melt
  <2> QED BY <2>2, <2>3, <2>4, MeltBooks, PlainKeeps
<1> QED BY <1>1, <1>2, <1>3, <1>4 DEF Supply

-----------------------------------------------------------------------------
(* Orders, refunds and reversals.                                           *)

UndoneIn(os) == \E n \in DOMAIN os : os[n].pay = "CREDIT" /\ os[n].status # "COMPLETED"

\* An order that is there already, refunded or undone.
LEMMA OrderKeeps ==
  ASSUME PostingsInv, NEW source \in Sources, source[1] # "ORDER", NEW lines \in Seq(LineSet), Valid(lines),
         Untouched(lines, "AP"), Untouched(lines, "METAL_AP"), Untouched(lines, "VENDOR_AP"),
         NEW os \in Seq(OrderSet), DOMAIN os = DOMAIN orders, \A n \in DOMAIN orders : os[n].pay = orders[n].pay,
         Untouched(lines, "AR") \/ UndoneIn(os), UndoneIn(orders) => UndoneIn(os),
         Post(source, lines, os, owed, bills, credits)
  PROVE  PostingsInv'
<1>1. PICK e : e.source = source /\ e.lines = lines /\ Entered(e)
  BY PostIs DEF PostingsInv
<1>2. UNCHANGED <<owed, bills, credits>> /\ orders' = os
  BY PostIs DEF PostingsInv
<1>3. PostingsTyped'
  BY <1>1, <1>2, JournalGrows DEF PostingsInv, PostingsTyped
<1>4. SalesKept'
  BY <1>1, <1>2, SalesSame DEF PostingsInv
<1>5. OwedKept'
  BY <1>1, <1>2, OwedQuiet DEF PostingsInv
<1>6. SidesKept'
  <2>1. \A side \in Sides : Untouched(lines, side) /\ Tied(side, journal, bills, credits) => Tied(side, journal', bills', credits')
    BY <1>1, <1>2, SideQuiet DEF PostingsInv
  <2>2. /\ OverpaidInPounds("AR") => OverpaidInPounds("AR")'
        /\ OverpaidInPounds("VENDOR_AP") => OverpaidInPounds("VENDOR_AP")'
    BY <1>2 DEF OverpaidInPounds
  <2>3. CreditSaleUndone = UndoneIn(orders) /\ CreditSaleUndone' = UndoneIn(os)
    BY <1>2 DEF CreditSaleUndone, UndoneIn
  <2>4. Untouched(lines, "AR") \/ CreditSaleUndone'
    BY <2>3
  <2> QED BY <2>1, <2>2, <2>3, <2>4 DEF PostingsInv, SidesKept, Sides
<1> QED BY <1>3, <1>4, <1>5, <1>6 DEF PostingsInv

\* POST /orders/{id}/items/{id}/refund keeps the books.
LEMMA RefundKeeps ==
  ASSUME PostingsInv, NEW n \in DOMAIN orders, NEW i \in DOMAIN orders[n].items, NEW qty, RefundItem(n, i, qty)
  PROVE  PostingsInv'
<1>1. PICK o, left, s : o = orders[n] /\ left = Refunded(o, i, qty, vat) /\ s = RefundLines(left, i, qty, vat)
  OBVIOUS
<1>2. orders \in Seq(OrderSet) /\ vat \in VatRates /\ n \in Nat
  BY DEF PostingsInv, PostingsTyped
<1>3. o \in OrderSet /\ i \in DOMAIN o.items
  BY <1>1, <1>2
<1>4. qty \in 1..(o.items[i].qty - o.items[i].refunded)
  BY <1>1 DEF RefundItem
<1>5. left \in OrderSet /\ left.pay = o.pay /\ i \in DOMAIN left.items /\ left.status # "COMPLETED"
  BY <1>1, <1>2, <1>3, <1>4, RefundedType
<1>6. qty \in Nat /\ vat \in Nat
  <2>1. vat \in 0..100
    BY <1>2, RateAssumption
  <2>2. qty \in Nat
    <3>1. o.items \in Seq(ItemSet)
      BY <1>3 DEF OrderSet
    <3>2. o.items[i] \in ItemSet
      BY <1>3, <3>1
    <3>3. o.items[i].qty \in Nat /\ o.items[i].refunded \in Nat
      BY <3>2 DEF ItemSet
    <3> QED BY <1>4, <3>3
  <2> QED BY <2>1, <2>2
<1>7. s \in Seq(LineSet) /\ Valid(s) /\ \A a : a \notin RefundAccounts => Untouched(s, a)
  BY <1>1, <1>5, <1>6, RefundBooks
<1>8. Untouched(s, "AP") /\ Untouched(s, "METAL_AP") /\ Untouched(s, "VENDOR_AP") /\ Untouched(s, "AR")
  BY <1>7 DEF RefundAccounts, SaleAccounts
<1>9. PICK os : os = [orders EXCEPT ![n] = left]
  OBVIOUS
<1>10. /\ os \in Seq(OrderSet) /\ DOMAIN os = DOMAIN orders /\ os[n] = left
       /\ \A m \in DOMAIN orders \ {n} : os[m] = orders[m]
  BY <1>2, <1>5, <1>9
<1>11. \A m \in DOMAIN orders : os[m].pay = orders[m].pay
  BY <1>1, <1>5, <1>10
<1>12. UndoneIn(orders) => UndoneIn(os)
  <2>1. ASSUME NEW m \in DOMAIN orders, orders[m].pay = "CREDIT", orders[m].status # "COMPLETED" PROVE UndoneIn(os)
    <3>1. os[m].pay = "CREDIT" /\ os[m].status # "COMPLETED" /\ m \in DOMAIN os
      BY <1>5, <1>10, <1>11, <2>1
    <3> QED BY <3>1 DEF UndoneIn
  <2> QED BY <2>1 DEF UndoneIn
<1>13. <<"ORDER_REFUND", n>> \in Sources /\ <<"ORDER_REFUND", n>>[1] # "ORDER"
  BY <1>2, SourcesAre DEF TradeSources
<1>14. Post(<<"ORDER_REFUND", n>>, s, os, owed, bills, credits)
  BY <1>1, <1>9 DEF RefundItem
<1> QED BY <1>7, <1>8, <1>10, <1>11, <1>12, <1>13, <1>14, OrderKeeps

\* POST /orders/{id}/void and /orders/{id}/refund keep the books.
LEMMA UndoKeeps ==
  ASSUME PostingsInv, NEW n \in DOMAIN orders, NEW status \in {"VOIDED", "REFUNDED"}, Undo(n, status)
  PROVE  PostingsInv'
<1>1. PICK sale, s, os : /\ sale = (CHOOSE e \in Range(journal) : e.source = <<"ORDER", n>>)
                         /\ s = Negated(sale.lines) /\ os = [orders EXCEPT ![n].status = status]
  OBVIOUS
<1>2. orders \in Seq(OrderSet) /\ n \in Nat /\ Balanced(journal)
  BY DEF PostingsInv, PostingsTyped
<1>3. sale \in Range(journal) /\ sale.source = <<"ORDER", n>>
  <2>1. PICK i \in DOMAIN journal : journal[i].source = <<"ORDER", n>>
    BY DEF PostingsInv, SalesKept
  <2>2. journal[i] \in Range(journal)
    BY DEF Range
  <2> QED BY <1>1, <2>1, <2>2
<1>4. PICK i \in DOMAIN journal : sale = journal[i]
  BY <1>3 DEF Range
<1>5. sale.lines \in Seq(LineSet) /\ Valid(sale.lines)
  <2>1. journal \in Seq(EntrySet) /\ \A k \in 1..Len(journal) : Valid(journal[k].lines)
    BY <1>2 DEF Balanced
  <2>2. i \in 1..Len(journal) /\ journal[i] \in EntrySet
    BY <2>1
  <2> QED BY <1>4, <2>1, <2>2 DEF EntrySet
<1>6. SaleEntry(sale, orders)
  <2>1. journal[i].source[1] = "ORDER"
    BY <1>3, <1>4
  <2> QED BY <1>4, <2>1 DEF PostingsInv, SalesKept
<1>7. sale.source[2] = n
  BY <1>3
<1>8. s \in Seq(LineSet) /\ Valid(s) /\ \A a : Untouched(sale.lines, a) => Untouched(s, a)
  BY <1>1, <1>5, NegatedBooks
<1>9. Untouched(s, "AP") /\ Untouched(s, "METAL_AP") /\ Untouched(s, "VENDOR_AP") /\ (orders[n].pay # "CREDIT" => Untouched(s, "AR"))
  BY <1>6, <1>7, <1>8 DEF SaleEntry
<1>10. /\ os \in Seq(OrderSet) /\ DOMAIN os = DOMAIN orders
       /\ os[n].pay = orders[n].pay /\ os[n].status = status
       /\ \A m \in DOMAIN orders \ {n} : os[m] = orders[m]
  <2>1. PICK left : left = [orders[n] EXCEPT !.status = status]
    OBVIOUS
  <2>2. orders[n] \in OrderSet
    BY <1>2
  <2>3. left \in OrderSet /\ left.pay = orders[n].pay /\ left.status = status
    BY <2>1, <2>2 DEF OrderSet
  <2>4. os = [orders EXCEPT ![n] = left]
    BY <1>1, <2>1
  <2> QED BY <1>2, <2>3, <2>4
<1>11. \A m \in DOMAIN orders : os[m].pay = orders[m].pay
  BY <1>10
<1>12. Untouched(s, "AR") \/ UndoneIn(os)
  <2>1. CASE orders[n].pay = "CREDIT"
    <3>1. os[n].pay = "CREDIT" /\ os[n].status # "COMPLETED" /\ n \in DOMAIN os
      BY <1>10, <2>1
    <3> QED BY <3>1 DEF UndoneIn
  <2> QED BY <1>9, <2>1
<1>13. UndoneIn(orders) => UndoneIn(os)
  <2>1. ASSUME NEW m \in DOMAIN orders, orders[m].pay = "CREDIT", orders[m].status # "COMPLETED" PROVE UndoneIn(os)
    <3>1. os[m].pay = "CREDIT" /\ os[m].status # "COMPLETED" /\ m \in DOMAIN os
      BY <1>10, <1>11, <2>1
    <3> QED BY <3>1 DEF UndoneIn
  <2> QED BY <2>1 DEF UndoneIn
<1>14. <<"VOID", n>> \in Sources /\ <<"VOID", n>>[1] # "ORDER"
  BY <1>2, SourcesAre DEF TradeSources
<1>15. Post(<<"VOID", n>>, s, os, owed, bills, credits)
  BY <1>1 DEF Undo
<1> QED BY <1>8, <1>9, <1>10, <1>11, <1>12, <1>13, <1>14, <1>15, OrderKeeps

\* What a sale says of the accounts the shop is held to.
LEMMA SaleQuiet ==
  ASSUME NEW o \in OrderSet, o.total = o.subtotal + o.vat - o.discount, NEW s, s = SaleLines(o)
  PROVE  /\ s \in Seq(LineSet) /\ Valid(s) /\ o.total \in Int
         /\ Untouched(s, "AP") /\ Untouched(s, "METAL_AP") /\ Untouched(s, "VENDOR_AP")
         /\ o.pay # "CREDIT" => Untouched(s, "AR")
         /\ o.pay = "CREDIT" => AddsUp(BaseIn({"AR"}), s, o.total) /\ AddsUp(CountIn("AR"), s, 1)
<1>1. o.pay \in {"CASH", "CARD", "CREDIT"} /\ o.total \in Int
  BY DEF OrderSet
<1>2. PICK t : t = Till(o.pay)
  OBVIOUS
<1>3. /\ t \in Accounts /\ t \notin SaleAccounts \cup {"AP", "METAL_AP", "VENDOR_AP"}
      /\ (t = "AR") <=> (o.pay = "CREDIT")
  BY <1>1, <1>2, TillAccount
<1>4. /\ s \in Seq(LineSet) /\ Valid(s)
      /\ \A f : Measure(f, LineSet) /\ Elsewhere(f, SaleAccounts) => AddsUp(f, s, f[Usd(t, o.total)])
  BY <1>2, SaleBooks
<1>5. ASSUME NEW a, a \notin SaleAccounts, a # t PROVE Untouched(s, a)
  <2>1. PICK T : T = SaleAccounts \cup {t}
    OBVIOUS
  <2>2. ASSUME NEW f, Measure(f, LineSet), Elsewhere(f, T) PROVE AddsUp(f, s, 0)
    <3>1. Elsewhere(f, SaleAccounts)
      BY <2>1, <2>2 DEF Elsewhere
    <3>2. f[Usd(t, o.total)] = 0
      BY <1>1, <1>3, <2>1, <2>2, UsdElsewhere
    <3> QED BY <1>4, <2>2, <3>1, <3>2
  <2>3. a \notin T
    BY <1>5, <2>1
  <2> QED BY <2>2, <2>3, QuietIs
<1>6. "AP" \notin SaleAccounts /\ "METAL_AP" \notin SaleAccounts /\ "VENDOR_AP" \notin SaleAccounts /\ "AR" \notin SaleAccounts
  BY DEF SaleAccounts
<1>7. Untouched(s, "AP") /\ Untouched(s, "METAL_AP") /\ Untouched(s, "VENDOR_AP") /\ (o.pay # "CREDIT" => Untouched(s, "AR"))
  <2>1. t # "AP" /\ t # "METAL_AP" /\ t # "VENDOR_AP" /\ (o.pay # "CREDIT" => t # "AR")
    BY <1>3
  <2> QED BY <1>5, <1>6, <2>1
<1>8. ASSUME o.pay = "CREDIT" PROVE AddsUp(BaseIn({"AR"}), s, o.total) /\ AddsUp(CountIn("AR"), s, 1)
  <2>1. t = "AR"
    BY <1>3, <1>8
  <2>2. BaseIn({"AR"})[Usd(t, o.total)] = o.total /\ CountIn("AR")[Usd(t, o.total)] = 1
    BY <1>1, <1>3, <2>1, OfUsd
  <2>3. Elsewhere(BaseIn({"AR"}), SaleAccounts) /\ Elsewhere(CountIn("AR"), SaleAccounts)
    <3>1. {"AR"} \cap SaleAccounts = {}
      BY <1>6
    <3> QED BY <1>6, <3>1, ElsewhereIs
  <2> QED BY <1>4, <2>2, <2>3, Measures
<1> QED BY <1>1, <1>4, <1>7, <1>8

\* POST /orders keeps the books.
LEMMA SellKeeps ==
  ASSUME PostingsInv, NEW cart \in Carts, NEW pay \in Tills, NEW percent \in Discounts, Sell(cart, pay, percent)
  PROVE  PostingsInv'
<1>1. PICK o, s, n, b : /\ o = NewOrder(cart, pay, percent, vat) /\ s = SaleLines(o) /\ n = Len(orders) + 1
                        /\ b = Bill("AR", "USD", 1, o.total, 0)
  OBVIOUS
<1>2. orders \in Seq(OrderSet) /\ bills \in Seq(BillSet) /\ credits \in Seq(CreditSet) /\ vat \in VatRates
  BY DEF PostingsInv, PostingsTyped
<1>3. o \in OrderSet /\ o.total = o.subtotal + o.vat - o.discount /\ o.pay = pay /\ o.status = "COMPLETED"
  BY <1>1, <1>2, NewOrderType
<1>4. /\ s \in Seq(LineSet) /\ Valid(s) /\ o.total \in Int
      /\ Untouched(s, "AP") /\ Untouched(s, "METAL_AP") /\ Untouched(s, "VENDOR_AP")
      /\ pay # "CREDIT" => Untouched(s, "AR")
      /\ pay = "CREDIT" => AddsUp(BaseIn({"AR"}), s, o.total) /\ AddsUp(CountIn("AR"), s, 1)
  BY <1>1, <1>3, SaleQuiet
<1>5. PICK os, bs : os = Append(orders, o) /\ bs = (IF pay = "CREDIT" THEN Append(bills, b) ELSE bills)
  OBVIOUS
<1>6. Post(<<"ORDER", n>>, s, os, owed, bs, credits)
  BY <1>1, <1>5 DEF Sell
<1>7. n \in Nat /\ <<"ORDER", n>> \in Sources /\ <<"ORDER", n>>[1] = "ORDER" /\ <<"ORDER", n>>[2] = n
  BY <1>1, <1>2, SourcesAre DEF TradeSources
<1>8. PICK e : e.source = <<"ORDER", n>> /\ e.lines = s /\ Entered(e)
  BY <1>4, <1>6, <1>7, PostIs DEF PostingsInv
<1>9. orders' = os /\ bills' = bs /\ UNCHANGED <<owed, credits>>
  BY <1>4, <1>6, <1>7, PostIs DEF PostingsInv
<1>10. /\ os \in Seq(OrderSet) /\ DOMAIN os = DOMAIN orders \cup {n} /\ os[n] = o
       /\ \A m \in DOMAIN orders : os[m] = orders[m]
  BY <1>1, <1>2, <1>3, <1>5
<1>11. /\ b \in BillSet /\ BillUnits("AR")[b] = (o.total - 0) * (FxUnit \div 1)
       /\ BillUnits("VENDOR_AP")[b] = 0
  <2>1. "AR" \in Sides /\ "USD" \in CurrencySet /\ 1 \in RateSet /\ 0 \in Int
    BY DEF Sides, CurrencySet, RateSet
  <2> QED BY <1>1, <1>4, <2>1, BillIs
<1>12. PostingsTyped'
  <2>1. bs \in Seq(BillSet)
    BY <1>2, <1>5, <1>11
  <2> QED BY <1>8, <1>9, <1>10, <2>1, JournalGrows DEF PostingsInv, PostingsTyped
<1>13. SalesKept'
  <2>1. /\ DOMAIN journal' = DOMAIN journal \cup {Len(journal) + 1}
        /\ \A i \in DOMAIN journal : journal'[i] = journal[i]
        /\ journal'[Len(journal) + 1] = e
    BY <1>8, JournalGrows DEF PostingsInv
  <2>2. ASSUME NEW m \in DOMAIN orders' PROVE \E i \in DOMAIN journal' : journal'[i].source = <<"ORDER", m>>
    <3>1. CASE m \in DOMAIN orders
      BY <2>1, <3>1 DEF PostingsInv, SalesKept
    <3>2. CASE m \notin DOMAIN orders
      <4>1. m = n
        BY <1>9, <1>10, <2>2, <3>2
      <4> QED BY <1>8, <2>1, <4>1
    <3> QED BY <3>1, <3>2
  <2>3. ASSUME NEW i \in DOMAIN journal', journal'[i].source[1] = "ORDER" PROVE SaleEntry(journal'[i], orders')
    <3>1. CASE i \in DOMAIN journal
      <4>1. SaleEntry(journal[i], orders) /\ journal'[i] = journal[i]
        BY <2>1, <2>3, <3>1 DEF PostingsInv, SalesKept
      <4>2. journal[i].source[2] \in DOMAIN orders
        BY <4>1 DEF SaleEntry
      <4>3. os[journal[i].source[2]] = orders[journal[i].source[2]] /\ journal[i].source[2] \in DOMAIN os
        BY <1>10, <4>2
      <4> QED BY <1>9, <4>1, <4>3 DEF SaleEntry
    <3>2. CASE i \notin DOMAIN journal
      <4>1. journal'[i] = e
        BY <2>1, <2>3, <3>2
      <4>2. e.source[2] = n /\ n \in DOMAIN os /\ os[n].pay = pay
        BY <1>3, <1>7, <1>8, <1>10
      <4> QED BY <1>4, <1>8, <1>9, <4>1, <4>2 DEF SaleEntry
    <3> QED BY <3>1, <3>2
  <2> QED BY <2>2, <2>3 DEF SalesKept
<1>14. OwedKept'
  BY <1>4, <1>8, <1>9, OwedQuiet DEF PostingsInv
<1>15. journal \in Seq(EntrySet) /\ e \in EntrySet /\ journal' = Append(journal, e)
  BY <1>8 DEF PostingsInv, PostingsTyped, Balanced, Entered
<1>16. Tied("AR", journal, bills, credits) => Tied("AR", journal', bills', credits')
  <2> SUFFICES ASSUME Tied("AR", journal, bills, credits) PROVE Tied("AR", journal', bills', credits')
    OBVIOUS
  <2>1. CASE pay = "CREDIT"
    <3>1. PICK a : a = o.total /\ a \in Int /\ AddsUp(BaseIn({"AR"}), e.lines, a) /\ AddsUp(CountIn("AR"), e.lines, 1)
      BY <1>4, <1>8, <2>1
    <3>2. BillUnits("AR")[b] = a * FxUnit /\ SignOf("AR") * a = a
      <4>1. FxUnit \in Nat
        BY FxAssumption
      <4>2. FxUnit \div 1 = FxUnit
        BY <4>1
      <4>3. a - 0 = a /\ 1 * a = a
        BY <3>1
      <4> QED BY <1>11, <3>1, <4>2, <4>3 DEF SignOf
    <3>3. Close(SignOf("AR") * a, 1, BillUnits("AR")[b])
      BY <3>1, <3>2, CloseExact
    <3>4. bills' = Append(bills, b) /\ credits' = credits
      BY <1>5, <1>9, <2>1
    <3>5. 1 \in Int
      OBVIOUS
    <3> QED BY <1>2, <1>11, <1>15, <3>1, <3>3, <3>4, <3>5, TiedBill
  <2>2. CASE pay # "CREDIT"
    <3>1. bills' = bills /\ credits' = credits /\ Untouched(e.lines, "AR")
      BY <1>4, <1>5, <1>8, <1>9, <2>2
    <3> QED BY <1>2, <1>15, <3>1, TiedQuiet
  <2> QED BY <2>1, <2>2
<1>17. Tied("VENDOR_AP", journal, bills, credits) => Tied("VENDOR_AP", journal', bills', credits')
  <2> SUFFICES ASSUME Tied("VENDOR_AP", journal, bills, credits) PROVE Tied("VENDOR_AP", journal', bills', credits')
    OBVIOUS
  <2>1. Untouched(e.lines, "VENDOR_AP") /\ credits' = credits
    BY <1>4, <1>8, <1>9
  <2>2. CASE pay = "CREDIT"
    <3>1. bills' = Append(bills, b)
      BY <1>5, <1>9, <2>2
    <3> QED BY <1>2, <1>11, <1>15, <2>1, <3>1, TiedOther
  <2>3. CASE pay # "CREDIT"
    <3>1. bills' = bills
      BY <1>5, <1>9, <2>3
    <3> QED BY <1>2, <1>15, <2>1, <3>1, TiedQuiet
  <2> QED BY <2>2, <2>3
<1>18. /\ OverpaidInPounds("AR") => OverpaidInPounds("AR")'
       /\ OverpaidInPounds("VENDOR_AP") => OverpaidInPounds("VENDOR_AP")'
  BY <1>9 DEF OverpaidInPounds
<1>19. CreditSaleUndone => CreditSaleUndone'
  BY <1>9, <1>10 DEF CreditSaleUndone
<1>20. SidesKept'
  BY <1>16, <1>17, <1>18, <1>19 DEF PostingsInv, SidesKept
<1> QED BY <1>12, <1>13, <1>14, <1>20 DEF PostingsInv

\* Every document of a sale keeps the books.
LEMMA TradeKeeps == ASSUME PostingsInv, Trade PROVE PostingsInv'
<1>1. CASE \E cart \in Carts, pay \in Tills, percent \in Discounts : Sell(cart, pay, percent)
  BY <1>1, SellKeeps
<1>2. CASE \E n \in DOMAIN orders : \E i \in DOMAIN orders[n].items :
             \E qty \in 1..orders[n].items[i].qty : RefundItem(n, i, qty)
  BY <1>2, RefundKeeps
<1>3. CASE \E n \in DOMAIN orders, status \in {"VOIDED", "REFUNDED"} : Undo(n, status)
  BY <1>3, UndoKeeps
<1> QED BY <1>1, <1>2, <1>3 DEF Trade

-----------------------------------------------------------------------------
(* Invoices, bills, settlements and transfers.                              *)

\* An entry says of a side what the document it comes with is worth there.
Matches(side, s, b) ==
  \/ Untouched(s, side) /\ BillUnits(side)[b] = 0
  \/ \E a, n \in Int : /\ AddsUp(BaseIn({side}), s, a) /\ AddsUp(CountIn(side), s, n)
                       /\ Close(SignOf(side) * a, n, BillUnits(side)[b])

\* A new document whose entry matches it keeps the books.
LEMMA NewBillKeeps ==
  ASSUME PostingsInv, NEW source \in Sources, source[1] # "ORDER", NEW lines \in Seq(LineSet), Valid(lines),
         Untouched(lines, "AP"), Untouched(lines, "METAL_AP"), NEW b \in BillSet, \A side \in Sides : Matches(side, lines, b),
         Post(source, lines, orders, owed, Append(bills, b), credits)
  PROVE  PostingsInv'
<1>1. PICK e : e.source = source /\ e.lines = lines /\ Entered(e)
  BY PostIs DEF PostingsInv
<1>2. UNCHANGED <<orders, owed, credits>> /\ bills' = Append(bills, b)
  BY DEF Post
<1>3. bills \in Seq(BillSet) /\ credits \in Seq(CreditSet)
  BY DEF PostingsInv, PostingsTyped
<1>4. PostingsTyped'
  <2>1. bills' \in Seq(BillSet)
    BY <1>2, <1>3
  <2> QED BY <1>1, <1>2, <2>1, JournalGrows DEF PostingsInv, PostingsTyped
<1>5. SalesKept'
  BY <1>1, <1>2, SalesSame DEF PostingsInv
<1>6. OwedKept'
  BY <1>1, <1>2, OwedQuiet DEF PostingsInv
<1>7. journal \in Seq(EntrySet) /\ e \in EntrySet /\ journal' = Append(journal, e)
  BY <1>1 DEF PostingsInv, PostingsTyped, Balanced, Entered
<1>8. ASSUME NEW side \in Sides, Tied(side, journal, bills, credits) PROVE Tied(side, journal', bills', credits')
  <2>1. CASE Untouched(lines, side) /\ BillUnits(side)[b] = 0
    BY <1>1, <1>2, <1>3, <1>7, <1>8, <2>1, TiedOther
  <2>2. CASE ~(Untouched(lines, side) /\ BillUnits(side)[b] = 0)
    <3>1. PICK a \in Int, n \in Int : /\ AddsUp(BaseIn({side}), e.lines, a) /\ AddsUp(CountIn(side), e.lines, n)
                       /\ Close(SignOf(side) * a, n, BillUnits(side)[b])
      BY <1>1, <2>2 DEF Matches
    <3> QED BY <1>2, <1>3, <1>7, <1>8, <3>1, TiedBill
  <2> QED BY <2>1, <2>2
<1>9. /\ OverpaidInPounds("AR") => OverpaidInPounds("AR")'
      /\ CreditSaleUndone => CreditSaleUndone'
      /\ OverpaidInPounds("VENDOR_AP") => OverpaidInPounds("VENDOR_AP")'
  BY <1>2 DEF OverpaidInPounds, CreditSaleUndone
<1>10. SidesKept'
  BY <1>8, <1>9 DEF PostingsInv, SidesKept, Sides
<1> QED BY <1>4, <1>5, <1>6, <1>10 DEF PostingsInv

\* Dollars have the rate one.
LEMMA RatesAre ==
  ASSUME NEW currency \in Currencies, NEW rate \in Rates(currency)
  PROVE  rate \in RateSet /\ currency \in CurrencySet /\ (currency = "USD" => rate = 1)
BY DEF Currencies, Rates, RateSet, CurrencySet

\* POST /ar/invoices keeps the books.
LEMMA InvoiceKeeps ==
  ASSUME PostingsInv, NEW currency \in Currencies, NEW amount \in Sums, NEW rate \in Rates(currency),
         Invoice(currency, amount, rate)
  PROVE  PostingsInv'
<1>1. PICK tax, s, b : /\ tax = Percent(amount, vat) /\ s = InvoiceLines(currency, amount, tax, rate)
                       /\ b = Bill("AR", currency, rate, amount + tax, 0)
  OBVIOUS
<1>2. amount \in Nat /\ vat \in Nat /\ tax \in Nat
  <2>1. amount \in Nat
    BY AmountAssumption
  <2>2. vat \in VatRates
    BY DEF PostingsInv, PostingsTyped
  <2>3. vat \in Nat
    BY <2>2, RateAssumption
  <2> QED BY <1>1, <2>1, <2>3, PercentNat
<1>3. rate \in RateSet /\ currency \in CurrencySet
  BY RatesAre
<1>4. /\ s \in Seq(LineSet) /\ Valid(s) /\ Untouched(s, "AP") /\ Untouched(s, "METAL_AP") /\ Untouched(s, "VENDOR_AP")
      /\ AddsUp(BaseIn({"AR"}), s, Base(amount, rate) + Base(tax, rate)) /\ AddsUp(CountIn("AR"), s, 1)
  BY <1>1, <1>2, <1>3, InvoiceBooks
<1>5. PICK t : t = amount + tax /\ t \in Int
  BY <1>2
<1>6. /\ b \in BillSet /\ BillUnits("AR")[b] = (t - 0) * (FxUnit \div rate)
      /\ BillUnits("VENDOR_AP")[b] = 0
  <2>1. "AR" \in Sides /\ 0 \in Int
    BY DEF Sides
  <2> QED BY <1>1, <1>3, <1>5, <2>1, BillIs
<1>7. Matches("AR", s, b)
  <2>1. Close(Base(amount, rate) + Base(tax, rate), 1, t * (FxUnit \div rate))
    BY <1>2, <1>3, <1>5, CloseBases
  <2>2. PICK x, y : x = Base(amount, rate) /\ y = Base(tax, rate) /\ x \in Int /\ y \in Int
    BY <1>2, <1>3, BaseClose
  <2>3. x + y \in Int /\ SignOf("AR") * (x + y) = x + y /\ 1 \in Int
    BY <2>2 DEF SignOf
  <2>4. t - 0 = t
    BY <1>5
  <2>5. Close(SignOf("AR") * (x + y), 1, BillUnits("AR")[b])
    BY <1>6, <2>1, <2>2, <2>3, <2>4
  <2> QED BY <1>4, <2>2, <2>3, <2>5 DEF Matches
<1>8. \A side \in Sides : Matches(side, s, b)
  BY <1>4, <1>6, <1>7 DEF Matches, Sides
<1>9. <<"AR_INVOICE">> \in Sources /\ <<"AR_INVOICE">>[1] # "ORDER"
  BY SourcesAre DEF AccountSources
<1>10. Post(<<"AR_INVOICE">>, s, orders, owed, Append(bills, b), credits)
  BY <1>1 DEF Invoice, InvoiceLines
<1> QED BY <1>4, <1>6, <1>8, <1>9, <1>10, NewBillKeeps

\* The document of a vendor bill and the lines it is posted with.
BillShape(currency, amounts, rate, from, tax, total, acct, paid, s) ==
  /\ tax = Percent(SumTo(amounts, Len(amounts)), vat) /\ total = SumTo(amounts, Len(amounts)) + tax
  /\ acct = (IF from = NONE THEN "VENDOR_AP" ELSE from) /\ paid = (IF from = NONE THEN 0 ELSE total)
  /\ s = BillLines(currency, amounts, tax, total, rate, acct)
\* The lines of a vendor bill, by what they are made of.
LEMMA BillParts ==
  ASSUME NEW currency, NEW amounts \in Seq(Nat), NEW rate, NEW from, EnterBill(currency, amounts, rate, from)
  PROVE  \E tax, total, acct, paid, s :
           /\ BillShape(currency, amounts, rate, from, tax, total, acct, paid, s)
           /\ Post(IF currency = "USD" THEN <<"VENDOR_BILL">> ELSE <<"VENDOR_BILL_LBP">>, s, orders, owed,
                   Append(bills, Bill("VENDOR_AP", currency, rate, total, paid)), credits)
<1>1. Total(amounts, LAMBDA a : a) = SumTo(amounts, Len(amounts))
  <2>1. [i \in DOMAIN amounts |-> amounts[i]] = amounts
    OBVIOUS
  <2> QED BY <2>1 DEF Total
<1> QED BY <1>1 DEF EnterBill, BillShape, BillLines

\* POST /expenses/bills keeps the books; a bill in pounds may be refused.
LEMMA EnterBillKeeps ==
  ASSUME PostingsInv, NEW currency \in Currencies, NEW rate \in Rates(currency), NEW amounts \in Seq(Nat),
         NEW from \in Tendered \cup {NONE}, from = "CASH" => currency = "USD",
         EnterBill(currency, amounts, rate, from)
  PROVE  PostingsInv'
<1>1. PICK tax, total, acct, paid, s, source, b :
        /\ BillShape(currency, amounts, rate, from, tax, total, acct, paid, s)
        /\ source = (IF currency = "USD" THEN <<"VENDOR_BILL">> ELSE <<"VENDOR_BILL_LBP">>)
        /\ b = Bill("VENDOR_AP", currency, rate, total, paid)
        /\ Post(source, s, orders, owed, Append(bills, b), credits)
  BY BillParts
<1>2. rate \in RateSet /\ currency \in CurrencySet /\ (currency = "USD" => rate = 1)
  BY RatesAre
<1>3. vat \in Nat
  <2>1. vat \in VatRates
    BY DEF PostingsInv, PostingsTyped
  <2>2. vat \in 0..100
    BY <2>1, RateAssumption
  <2> QED BY <2>2
<1>4. acct \in {"VENDOR_AP", "CASH", "CASH_LBP"} /\ (acct = "CASH" => rate = 1)
      /\ (acct = "VENDOR_AP" <=> from = NONE)
  BY <1>1, <1>2, AmountAssumption DEF BillShape, Tendered
<1>5. /\ s \in Seq(LineSet) /\ total \in Nat
      /\ Untouched(s, "AP") /\ Untouched(s, "METAL_AP") /\ Untouched(s, "AR")
      /\ acct # "VENDOR_AP" => Untouched(s, "VENDOR_AP")
      /\ acct = "VENDOR_AP" => AddsUp(BaseIn({"VENDOR_AP"}), s, -Base(total, rate)) /\ AddsUp(CountIn("VENDOR_AP"), s, 1)
      /\ rate = 1 => Valid(s)
  BY ZenonT(60), <1>1, <1>2, <1>3, <1>4, BillBooks DEF BillShape
<1>6. paid \in Int /\ (from = NONE => paid = 0) /\ (from # NONE => paid = total)
  BY <1>1, <1>5 DEF BillShape
<1>7. /\ b \in BillSet /\ BillUnits("VENDOR_AP")[b] = (total - paid) * (FxUnit \div rate)
      /\ BillUnits("AR")[b] = 0
  <2>1. "VENDOR_AP" \in Sides /\ total \in Int
    BY <1>5 DEF Sides
  <2> QED BY <1>1, <1>2, <1>6, <2>1, BillIs
<1>8. Matches("VENDOR_AP", s, b)
  <2>1. PICK u \in Nat : u = FxUnit \div rate
    BY <1>2, RateUnits
  <2>2. CASE from = NONE
    <3>1. PICK x : x = Base(total, rate) /\ x \in Int
      BY <1>2, <1>5, BaseClose
    <3>2. PICK a : a = -x /\ a \in Int
      BY <3>1
    <3>3. SignOf("VENDOR_AP") * a = x
      <4>1. SignOf("VENDOR_AP") = -1
        BY DEF SignOf
      <4> QED BY <3>1, <3>2, <4>1
    <3>4. Close(x, 1, total * u)
      BY <1>2, <1>5, <2>1, <3>1, CloseBases
    <3>5. total - paid = total
      BY <1>5, <1>6, <2>2
    <3>6. Close(SignOf("VENDOR_AP") * a, 1, BillUnits("VENDOR_AP")[b]) /\ 1 \in Int
      BY <1>7, <2>1, <3>3, <3>4, <3>5
    <3> QED BY <1>4, <1>5, <2>2, <3>1, <3>2, <3>6 DEF Matches
  <2>3. CASE from # NONE
    <3>1. total - paid = 0
      BY <1>5, <1>6, <2>3
    <3>2. BillUnits("VENDOR_AP")[b] = 0
      BY <1>7, <2>1, <3>1
    <3> QED BY <1>4, <1>5, <2>3, <3>2 DEF Matches
  <2> QED BY <2>2, <2>3
<1>9. \A side \in Sides : Matches(side, s, b)
  BY <1>5, <1>7, <1>8 DEF Matches, Sides
<1>10. source \in Sources /\ source[1] # "ORDER"
  BY <1>1, SourcesAre DEF AccountSources
<1>11. CASE Valid(s)
  BY <1>1, <1>5, <1>7, <1>9, <1>10, <1>11, NewBillKeeps
<1>12. CASE ~Valid(s)
  <2>1. refused' = refused \cup {source[1]} /\ UNCHANGED <<today, vat, journal, orders, owed, bills, credits>>
    BY <1>1, <1>12, PostRefused
  <2>2. source[1] = "VENDOR_BILL_LBP"
    BY <1>1, <1>2, <1>5, <1>12
  <2>3. PostingsTyped'
    BY <2>1, <2>2 DEF PostingsInv, PostingsTyped
  <2>4. SalesKept'
    BY <2>1 DEF PostingsInv, SalesKept
  <2>5. OwedKept'
    BY <2>1 DEF PostingsInv, OwedKept
  <2>6. SidesKept'
    BY <2>1 DEF PostingsInv, SidesKept, OverpaidInPounds, CreditSaleUndone
  <2> QED BY <2>3, <2>4, <2>5, <2>6 DEF PostingsInv
<1> QED BY <1>11, <1>12

\* POST /bank/transfers keeps the books.
LEMMA TransferKeeps ==
  ASSUME PostingsInv, NEW from \in Tendered, NEW to \in Tendered, NEW amount \in Sums, NEW arrives \in Sums,
         NEW rate \in FxRates, Transfer(from, to, amount, arrives, rate)
  PROVE  PostingsInv'
<1>1. PICK l, m, s : /\ l = LegOf(to, 1, arrives, rate) /\ m = LegOf(from, -1, amount, rate)
                     /\ s = TransferLines(l, m)
  OBVIOUS
<1>2. amount \in Int /\ arrives \in Int /\ rate \in RateSet
  BY AmountAssumption DEF RateSet
<1>3. l \in LineSet /\ l.acct = to /\ l.grams = 0
  BY <1>1, <1>2, LegLine
<1>4. m \in LineSet /\ m.acct = from /\ m.grams = 0
  BY <1>1, <1>2, LegLine
<1>5. s \in Seq(LineSet) /\ Valid(s) /\ AllQuiet(s)
  BY <1>1, <1>3, <1>4, TransferBooks
<1>6. <<"TRANSFER">> \in Sources /\ <<"TRANSFER">>[1] # "ORDER"
  BY SourcesAre DEF AccountSources
<1>7. Plain(<<"TRANSFER">>, s)
  BY <1>1 DEF Transfer, TransferLines, LegOf
<1> QED BY <1>5, <1>6, <1>7, PlainKeeps

\* A settlement, its parts named.
SettleParted(side, currency, amount, tender, rate, applied, rest, s, cs) ==
  /\ applied = Reached(side, currency, amount) /\ rest = amount - Total(applied, LAMBDA a : a)
  /\ s = SettlementLines(side, currency, amount, tender, rate)
  /\ cs = IF rest > 0 THEN Append(credits, [side |-> side, currency |-> currency, rate |-> rate, amount |-> rest])
          ELSE credits
\* A settlement, by what it applies, what is left over and what it writes.
LEMMA SettleIs ==
  ASSUME NEW side, NEW currency, NEW amount, NEW tender, NEW rate, Settle(side, currency, amount, tender, rate)
  PROVE  \E applied, rest, s, cs :
           /\ SettleParted(side, currency, amount, tender, rate, applied, rest, s, cs)
           /\ Post(<<"SETTLEMENT">>, s, orders, owed, PaidOff(applied, bills), cs)
BY DEF Settle, SettleParted, PaidOff

\* POST /ar/receipts and /expenses/payments keep the books.
LEMMA SettleKeeps ==
  ASSUME PostingsInv, NEW side \in Sides, NEW currency \in Currencies, NEW amount \in Amounts, NEW tender \in Tendered,
         NEW rate \in Rates(CurrencyOf(tender)), Settle(side, currency, amount, tender, rate)
  PROVE  PostingsInv'
<1>1. PICK applied, rest, s, cs :
        /\ SettleParted(side, currency, amount, tender, rate, applied, rest, s, cs)
        /\ Post(<<"SETTLEMENT">>, s, orders, owed, PaidOff(applied, bills), cs)
  BY SettleIs
<1>2. /\ bills \in Seq(BillSet) /\ credits \in Seq(CreditSet) /\ amount \in Int /\ currency \in CurrencySet
      /\ rate \in RateSet
  <2>1. bills \in Seq(BillSet) /\ credits \in Seq(CreditSet)
    BY DEF PostingsInv, PostingsTyped
  <2>2. amount \in Int
    BY AmountAssumption
  <2>3. PICK c : c = CurrencyOf(tender) /\ c \in Currencies
    BY DEF CurrencyOf, Currencies
  <2>4. rate \in RateSet
    BY <2>3, RatesAre
  <2>5. currency \in CurrencySet
    BY DEF Currencies, CurrencySet
  <2> QED BY <2>1, <2>2, <2>4, <2>5
<1>3. \A i \in DOMAIN bills : applied[i] \in Nat /\ (applied[i] > 0 => bills[i].side = side)
  BY <1>1, <1>2, ReachedIs DEF SettleParted
<1>4. rest \in Int
  <2>1. PICK n : n = Len(bills) /\ n \in Nat /\ DOMAIN bills = 1..n
    BY <1>2
  <2>2. DOMAIN applied = 1..n /\ applied = [i \in 1..n |-> applied[i]]
    BY <1>1, <2>1 DEF SettleParted, Reached
  <2>3. \A i \in 1..n : applied[i] \in Int
    BY <1>3, <2>1
  <2>4. Len(applied) = n
    BY ONLY <2>1, <2>2, <2>3
  <2>5. SumTo(applied, n) \in Int
    BY <2>1, <2>3, RowSum
  <2>6. Total(applied, LAMBDA a : a) = SumTo(applied, n)
    <3>1. [i \in DOMAIN applied |-> applied[i]] = applied
      BY <2>2
    <3> QED BY <2>4, <3>1 DEF Total
  <2>7. PICK t : t = Total(applied, LAMBDA a : a) /\ t \in Int
    BY <2>5, <2>6
  <2> QED BY <1>1, <1>2, <2>7 DEF SettleParted
<1>5. PICK sign, r, m : /\ sign = (IF side = "AR" THEN 1 ELSE -1) /\ r = (IF currency = "USD" THEN 1 ELSE rate)
                        /\ m = -sign
  OBVIOUS
<1>6. /\ m \in {1, -1} /\ m + SignOf(side) = 0 /\ r \in RateSet
  <2>1. sign \in {1, -1} /\ sign \in Int /\ SignOf(side) = sign
    BY <1>5 DEF SignOf
  <2>2. m \in Int /\ m + sign = 0
    <3>1. m = -sign /\ sign \in Int
      BY <1>5, <2>1
    <3> QED BY ONLY <3>1
  <2>3. m \in {1, -1}
    BY ONLY <2>1, <2>2
  <2>4. r \in RateSet
    BY <1>2, <1>5 DEF RateSet
  <2> QED BY <2>1, <2>2, <2>3, <2>4
<1>7. /\ s \in Seq(LineSet) /\ Valid(s)
      /\ \A a : a \notin Money \cup {side} => Untouched(s, a)
      /\ AddsUp(BaseIn({side}), s, SumTo(TakenOff(m, applied, bills), Len(bills))
                                 + IF rest > 0 THEN m * Base(rest, r) ELSE 0)
      /\ AddsUp(CountIn(side), s, SumTo(Touched(applied, bills), Len(bills)) + IF rest > 0 THEN 1 ELSE 0)
  <2>1. /\ applied = Reached(side, currency, amount) /\ rest = amount - Total(applied, LAMBDA a : a)
        /\ s = SettlementLines(side, currency, amount, tender, rate)
    BY <1>1 DEF SettleParted
  <2>2. SettledBooks(side, -sign, applied, bills, rest, r, s)
    BY <1>2, <1>4, <1>5, <2>1, SettlementBooks
  <2>3. SettledBooks(side, m, applied, bills, rest, r, s)
    BY <1>5, <2>2
  <2> QED BY <2>3 DEF SettledBooks
<1>8. <<"SETTLEMENT">> \in Sources /\ <<"SETTLEMENT">>[1] # "ORDER"
  BY SourcesAre DEF AccountSources
<1>9. PICK e : e.source = <<"SETTLEMENT">> /\ e.lines = s /\ Entered(e)
  BY <1>1, <1>7, <1>8, PostIs DEF PostingsInv
<1>10. UNCHANGED <<orders, owed>> /\ bills' = PaidOff(applied, bills) /\ credits' = cs
  BY <1>1, <1>7 DEF Post
<1>11. PICK c : c = [side |-> side, currency |-> currency, rate |-> rate, amount |-> rest]
  OBVIOUS
<1>12. rest > 0 => /\ c \in CreditSet /\ CreditUnits(side)[c] = rest * (FxUnit \div rate)
                   /\ \A other : other # side => CreditUnits(other)[c] = 0
  BY <1>2, <1>4, <1>11, CreditIs
<1>13. cs = IF rest > 0 THEN Append(credits, c) ELSE credits
  BY <1>1, <1>11 DEF SettleParted
<1>14. PaidOff(applied, bills) \in Seq(BillSet)
  <2>1. PICK n : n = Len(bills)
    OBVIOUS
  <2> QED BY <1>2, <1>3, <2>1, PaidOffIs DEF PaidShape
<1>15. PostingsTyped'
  <2>1. cs \in Seq(CreditSet)
    BY <1>2, <1>12, <1>13
  <2> QED BY <1>9, <1>10, <1>14, <2>1, JournalGrows DEF PostingsInv, PostingsTyped
<1>16. SalesKept'
  BY <1>8, <1>9, <1>10, SalesSame DEF PostingsInv
<1>17. OwedKept'
  <2>1. Untouched(s, "AP") /\ Untouched(s, "METAL_AP")
    BY <1>7 DEF Money, Sides
  <2> QED BY <1>9, <1>10, <2>1, OwedQuiet DEF PostingsInv
<1>18. journal \in Seq(EntrySet) /\ e \in EntrySet /\ journal' = Append(journal, e)
  BY <1>9 DEF PostingsInv, PostingsTyped, Balanced, Entered
<1>19. ASSUME NEW x, x \in Sides PROVE OverpaidInPounds(x) => OverpaidInPounds(x)'
  <2>1. /\ DOMAIN credits \subseteq DOMAIN credits'
        /\ \A i \in DOMAIN credits : credits'[i] = credits[i]
    BY <1>2, <1>10, <1>13
  <2> QED BY <2>1 DEF OverpaidInPounds
<1>20. ASSUME NEW other \in Sides, other # side, Tied(other, journal, bills, credits)
       PROVE  Tied(other, journal', bills', credits')
  <2>1. SumOver(CreditUnits(other), cs) = SumOver(CreditUnits(other), credits)
    <3>1. CASE rest > 0
      <4>1. PICK y : y = SumOver(CreditUnits(other), credits) /\ y \in Int
        BY <1>2, UnitMeasures, OverType
      <4>2. SumOver(CreditUnits(other), Append(credits, c)) = y + 0
        BY <1>2, <1>12, <1>20, <3>1, <4>1, UnitMeasures, OverAppend
      <4>3. y + 0 = y
        BY <4>1
      <4> QED BY <1>13, <3>1, <4>1, <4>2, <4>3
    <3>2. CASE ~(rest > 0)
      BY <1>13, <3>2
    <3> QED BY <3>1, <3>2
  <2>2. Untouched(e.lines, other)
    BY <1>7, <1>9, <1>20 DEF Money, Sides
  <2> QED BY <1>2, <1>3, <1>10, <1>18, <1>20, <2>1, <2>2, TiedElsewhere
<1>21. ASSUME Tied(side, journal, bills, credits)
       PROVE  OverpaidInPounds(side)' \/ Tied(side, journal', bills', credits')
  <2>1. CASE rest > 0 /\ r # rate
    <3>1. currency = "USD" /\ rate # 1
      BY <1>5, <2>1
    <3>2. credits' = Append(credits, c)
      BY <1>10, <1>13, <2>1
    <3>3. c \in CreditSet
      BY <1>12, <2>1
    <3>4. Len(credits) + 1 \in DOMAIN credits' /\ credits'[Len(credits) + 1] = c
      BY <1>2, <3>2, <3>3
    <3>5. c.side = side /\ c.currency = "USD" /\ c.rate # 1
      BY <1>11, <3>1
    <3> QED BY <3>4, <3>5 DEF OverpaidInPounds
  <2>2. CASE ~(rest > 0 /\ r # rate)
    <3>1. SumOver(CreditUnits(side), cs) = SumOver(CreditUnits(side), credits) + OverUnits(rest, r)
      <4>1. CASE rest > 0
        <5>1. SumOver(CreditUnits(side), Append(credits, c)) = SumOver(CreditUnits(side), credits) + CreditUnits(side)[c]
          BY <1>2, <1>12, <4>1, UnitMeasures, OverAppend
        <5>2. CreditUnits(side)[c] = OverUnits(rest, r)
          BY <1>12, <2>2, <4>1 DEF OverUnits
        <5> QED BY <1>13, <4>1, <5>1, <5>2
      <4>2. CASE ~(rest > 0)
        <5>1. PICK y : y = SumOver(CreditUnits(side), credits) /\ y \in Int
          BY <1>2, UnitMeasures, OverType
        <5>2. y = y + 0
          BY <5>1
        <5>3. OverUnits(rest, r) = 0
          BY <4>2 DEF OverUnits
        <5> QED BY <1>13, <4>2, <5>1, <5>2, <5>3
      <4> QED BY <4>1, <4>2
    <3>2. /\ AddsUp(BaseIn({side}), e.lines, SumTo(TakenOff(m, applied, bills), Len(bills))
                                           + IF rest > 0 THEN m * Base(rest, r) ELSE 0)
          /\ AddsUp(CountIn(side), e.lines, SumTo(Touched(applied, bills), Len(bills)) + IF rest > 0 THEN 1 ELSE 0)
      BY <1>7, <1>9
    <3> QED BY <1>2, <1>3, <1>4, <1>6, <1>10, <1>18, <1>21, <3>1, <3>2, TiedSettlement
  <2> QED BY <2>1, <2>2
<1>22. CreditSaleUndone => CreditSaleUndone'
  BY <1>10 DEF CreditSaleUndone
<1>23. SidesKept'
  BY <1>19, <1>20, <1>21, <1>22 DEF PostingsInv, SidesKept, Sides
<1> QED BY <1>15, <1>16, <1>17, <1>23 DEF PostingsInv

\* Every document of customers, vendors and the bank keeps the books.
LEMMA AccountKeeps == ASSUME PostingsInv, Account PROVE PostingsInv'
<1>1. ASSUME NEW currency \in Currencies, NEW sum \in Sums, NEW rate \in Rates(currency),
             Invoice(currency, sum, rate) \/ EnterBill(currency, <<sum, sum>>, rate, NONE)
      PROVE  PostingsInv'
  <2>1. sum \in Nat
    BY AmountAssumption
  <2>2. <<sum, sum>> \in Seq(Nat)
    BY <2>1
  <2>3. NONE # "CASH"
    BY AmountAssumption DEF Tendered
  <2> QED BY <1>1, <2>2, <2>3, InvoiceKeeps, EnterBillKeeps
<1>2. ASSUME NEW from \in Tendered, NEW sum \in Sums, NEW rate \in Rates(CurrencyOf(from)),
             EnterBill(CurrencyOf(from), <<sum>>, rate, from)
      PROVE  PostingsInv'
  <2>1. sum \in Nat
    BY AmountAssumption
  <2>2. <<sum>> \in Seq(Nat)
    BY <2>1
  <2>3. CurrencyOf(from) \in Currencies /\ (from = "CASH" => CurrencyOf(from) = "USD")
    BY DEF CurrencyOf, Currencies
  <2> QED BY <1>2, <2>2, <2>3, EnterBillKeeps
<1>3. ASSUME NEW side \in {"AR", "VENDOR_AP"}, NEW currency \in Currencies, NEW amount \in Amounts,
             NEW tender \in Tendered, NEW rate \in Rates(CurrencyOf(tender)),
             Settle(side, currency, amount, tender, rate)
      PROVE  PostingsInv'
  BY <1>3, SettleKeeps DEF Sides
<1>4. ASSUME NEW from \in Tendered, NEW to \in Tendered, NEW sum \in Sums, NEW arrives \in Sums, NEW rate \in FxRates,
             Transfer(from, to, sum, arrives, rate)
      PROVE  PostingsInv'
  BY <1>4, TransferKeeps
<1> QED BY <1>1, <1>2, <1>3, <1>4 DEF Account

\* Empty books are kept.
LEMMA PostingsStarts == Init => PostingsInv
<1> SUFFICES ASSUME Init PROVE PostingsInv
  OBVIOUS
<1>1. /\ today = 1 /\ vat \in VatRates /\ journal = <<>> /\ orders = <<>>
      /\ bills = <<>> /\ credits = <<>> /\ refused = {}
      /\ owed = [u \in {"CASH"} \cup KaratSet |-> 0]
  BY DEF Init
<1>2. PostingsTyped
  <2>1. Balanced(journal)
    BY <1>1 DEF Balanced
  <2>2. today \in 1..Days
    BY <1>1, DaysAssumption
  <2> QED BY <1>1, <2>1, <2>2 DEF PostingsTyped
<1>3. SalesKept
  BY <1>1 DEF SalesKept
<1>4. \A f : Replayed(f, 1..Days, journal) = 0
  BY <1>1, OverEmpty DEF Replayed
<1>5. OwedKept
  BY <1>1, <1>4 DEF OwedKept
<1>6. \A side : Tied(side, journal, bills, credits)
  <2> SUFFICES ASSUME NEW side PROVE Tied(side, journal, bills, credits)
    OBVIOUS
  <2>1. SumOver(BillUnits(side), bills) = 0 /\ SumOver(CreditUnits(side), credits) = 0
    BY <1>1, OverEmpty
  <2>2. SubUnits(side, bills, credits) = 0
    BY <2>1 DEF SubUnits
  <2>3. LinesAt(side, journal) = 0
    BY <1>4 DEF LinesAt
  <2>4. Net(journal, 1..Days, {side}) = 0
    <3>1. journal \in Seq(EntrySet)
      BY <1>1
    <3> QED BY <1>4, <3>1, NetIs
  <2>5. ControlAt(side, journal) = 0
    BY <2>4, SignIs DEF ControlAt
  <2> QED BY <2>2, <2>3, <2>5, CloseNone DEF Tied
<1>7. SidesKept
  BY <1>6 DEF SidesKept
<1> QED BY <1>2, <1>3, <1>5, <1>7 DEF PostingsInv

\* Every step keeps the books.
LEMMA PostingsStep == PostingsInv /\ [Next]_vars => PostingsInv'
<1> SUFFICES ASSUME PostingsInv, [Next]_vars PROVE PostingsInv'
  OBVIOUS
<1>1. CASE Trade
  BY <1>1, TradeKeeps
<1>2. CASE Supply
  BY <1>2, SupplyKeeps
<1>3. CASE Account
  BY <1>3, AccountKeeps
<1>4. ASSUME UNCHANGED <<journal, orders, owed, bills, credits, refused>>, today' \in 1..Days, vat' \in VatRates
      PROVE  PostingsInv'
  <2>1. PostingsTyped'
    BY <1>4 DEF PostingsInv, PostingsTyped
  <2>2. SalesKept'
    BY <1>4 DEF PostingsInv, SalesKept
  <2>3. OwedKept'
    BY <1>4 DEF PostingsInv, OwedKept
  <2>4. SidesKept'
    BY <1>4 DEF PostingsInv, SidesKept, OverpaidInPounds, CreditSaleUndone
  <2> QED BY <2>1, <2>2, <2>3, <2>4 DEF PostingsInv
<1>5. today \in 1..Days /\ vat \in VatRates
  BY DEF PostingsInv, PostingsTyped
<1>6. CASE NextDay
  <2>1. today' \in 1..Days /\ UNCHANGED <<vat, journal, orders, owed, bills, credits, refused>>
    BY <1>5, <1>6, DaysAssumption DEF NextDay
  <2> QED BY <1>4, <1>5, <2>1
<1>7. CASE \E rate \in VatRates : SetVat(rate)
  BY <1>4, <1>5, <1>7 DEF SetVat
<1>8. CASE UNCHANGED vars
  BY <1>4, <1>5, <1>8 DEF vars
<1> QED BY <1>1, <1>2, <1>3, <1>6, <1>7, <1>8 DEF Next

\* The books are kept whatever documents come, in whatever order.
LEMMA PostingsKept == Spec => []PostingsInv
BY PostingsStarts, PostingsStep, PTL DEF Spec

-----------------------------------------------------------------------------
(* The properties.                                                          *)

\* The tolerance of a subledger counts the lines of its control account.
LEMMA ToleranceIs == ASSUME journal \in Seq(EntrySet), NEW side PROVE Tolerance(side) = LinesAt(side, journal)
<1>1. PICK days : days = 1..Days
  OBVIOUS
<1>2. ASSUME NEW i \in DOMAIN journal
      PROVE  (IF journal[i].day \in days
              THEN SumTo([n \in DOMAIN journal[i].lines |-> IF journal[i].lines[n].acct = side THEN 1 ELSE 0],
                         Len(journal[i].lines))
              ELSE 0) = OnDays(CountIn(side), days)[journal[i]]
  <2>1. journal[i] \in EntrySet
    OBVIOUS
  <2>2. journal[i].lines \in Seq(LineSet)
    BY <2>1 DEF EntrySet
  <2>3. [n \in DOMAIN journal[i].lines |-> IF journal[i].lines[n].acct = side THEN 1 ELSE 0]
          = [n \in DOMAIN journal[i].lines |-> CountIn(side)[journal[i].lines[n]]]
    BY <2>2 DEF CountIn
  <2> QED BY <2>1, <2>3 DEF OnDays, SumOver
<1>3. Replay(journal, days, LAMBDA l : IF l.acct = side THEN 1 ELSE 0) = Replayed(CountIn(side), days, journal)
  BY <1>2 DEF Replay, Total, Replayed, SumOver
<1> QED BY <1>1, <1>3 DEF Tolerance, LinesAt

\* What the subledger adds up to is what its documents leave open, to the cent.
LEMMA SubledgerIs ==
  ASSUME bills \in Seq(BillSet), credits \in Seq(CreditSet), NEW side
  PROVE  SubledgerOf(side) = HalfEven(SubUnits(side, bills, credits), FxUnit)
<1>1. \A i \in DOMAIN bills : bills[i] \in BillSet
  OBVIOUS
<1>2. \A i \in DOMAIN credits : credits[i] \in CreditSet
  OBVIOUS
<1>3. \A i \in DOMAIN bills : (IF bills[i].side = side THEN Due(bills[i]) * (FxUnit \div bills[i].rate) ELSE 0)
                                = BillUnits(side)[bills[i]]
  BY <1>1 DEF BillUnits
<1>4. \A i \in DOMAIN credits : (IF credits[i].side = side THEN credits[i].amount * (FxUnit \div credits[i].rate) ELSE 0)
                                  = CreditUnits(side)[credits[i]]
  BY <1>2 DEF CreditUnits
<1>5. Total(bills, LAMBDA b : IF b.side = side THEN Due(b) * (FxUnit \div b.rate) ELSE 0) = SumOver(BillUnits(side), bills)
  BY <1>3 DEF Total, SumOver
<1>6. Total(credits, LAMBDA c : IF c.side = side THEN c.amount * (FxUnit \div c.rate) ELSE 0)
        = SumOver(CreditUnits(side), credits)
  BY <1>4 DEF Total, SumOver
<1> QED BY <1>5, <1>6 DEF SubledgerOf, SubUnits

\* A tie in units is a tie in cents, to a cent a line.
LEMMA TiedTies == ASSUME PostingsTyped, NEW side, Tied(side, journal, bills, credits) PROVE Ties(side)
<1>1. journal \in Seq(EntrySet) /\ bills \in Seq(BillSet) /\ credits \in Seq(CreditSet)
  BY DEF PostingsTyped, Balanced
<1>2. PICK c, t, s : c = ControlAt(side, journal) /\ t = LinesAt(side, journal) /\ s = SubUnits(side, bills, credits)
  OBVIOUS
<1>3. c \in Int /\ t \in Int /\ s \in Int
  BY <1>1, <1>2, TiedTypes
<1>4. Close(c, t, s)
  BY <1>2 DEF Tied
<1>5. t >= c - HalfEven(s, FxUnit) /\ t >= HalfEven(s, FxUnit) - c
  BY <1>3, <1>4, CloseTies
<1>6. ControlOf(side) = c
  BY <1>2 DEF ControlOf, ControlAt, SignOf
<1>7. Tolerance(side) = t /\ SubledgerOf(side) = HalfEven(s, FxUnit)
  BY <1>1, <1>2, ToleranceIs, SubledgerIs
<1> QED BY <1>5, <1>6, <1>7 DEF Ties

\* The invariant is what the verify endpoints hold the books to.
LEMMA PostingsTie == PostingsInv => SubledgersTie
<1> SUFFICES ASSUME PostingsInv PROVE SubledgersTie
  OBVIOUS
<1>1. PostingsTyped /\ OwedKept /\ SidesKept
  BY DEF PostingsInv
<1>2. journal \in Seq(EntrySet) /\ owed \in [{"CASH"} \cup KaratSet -> Int]
  BY <1>1 DEF PostingsTyped, Balanced
<1>3. owed["CASH"] = -Net(journal, 1..Days, {"AP"})
  <2>1. PICK o, n : o = owed["CASH"] /\ n = Net(journal, 1..Days, {"AP"})
    OBVIOUS
  <2>2. o \in Int /\ n \in Int
    BY <1>2, <2>1, NetType
  <2>3. o + n = 0
    BY <1>1, <1>2, <2>1, NetIs DEF OwedKept
  <2>4. o = -n
    BY ONLY <2>2, <2>3
  <2> QED BY <2>1, <2>4
<1>4. ASSUME NEW k \in KaratSet PROVE owed[k] = -NetGrams(journal, 1..Days, "METAL_AP", k)
  <2>1. PICK o, n : o = owed[k] /\ n = NetGrams(journal, 1..Days, "METAL_AP", k)
    OBVIOUS
  <2>2. n = Replayed(GramsIn("METAL_AP", k), 1..Days, journal)
    BY <1>2, <2>1, NetIs
  <2>3. o \in Int /\ n \in Int
    BY <1>2, <2>1, <2>2, Measures, ReplayedType
  <2>4. o + n = 0
    BY <1>1, <2>1, <2>2 DEF OwedKept
  <2>5. o = -n
    BY ONLY <2>3, <2>4
  <2> QED BY <2>1, <2>5
<1>5. OverpaidInPounds("AR") \/ CreditSaleUndone \/ Ties("AR")
  BY <1>1, TiedTies DEF SidesKept
<1>6. OverpaidInPounds("VENDOR_AP") \/ Ties("VENDOR_AP")
  BY <1>1, TiedTies DEF SidesKept
<1> QED BY <1>3, <1>4, <1>5, <1>6 DEF SubledgersTie

\* Every reachable state is well typed: the journal holds balanced entries of
\* the chart of accounts, and orders, bills and credits are what they should be.
THEOREM BooksTyped == Spec => []PostingsTyped
<1>1. PostingsInv => PostingsTyped
  BY DEF PostingsInv
<1> QED BY <1>1, PostingsKept, PTL

\* post_entry never turns a document of the shop away: what every mapper of
\* core/gl_postings.py writes balances, in dollars and in grams of every karat,
\* whatever is sold, bought, settled or moved; only a vendor bill in pounds,
\* whose parts are rounded one by one, can fail to.
THEOREM NoDocumentRefused == Spec => []NothingRefused
<1>1. PostingsInv => NothingRefused
  BY DEF PostingsInv, PostingsTyped, NothingRefused
<1> QED BY <1>1, PostingsKept, PTL

\* The trial balance and the balance sheet balance whenever they are drawn up,
\* and the statements of the days before and since any day add up.
THEOREM StatementsAgreed == Spec => []StatementsAgree
<1>1. PostingsInv => StatementsAgree
  <2> SUFFICES ASSUME PostingsInv PROVE StatementsAgree
    OBVIOUS
  <2>1. Balanced(journal) /\ today \in Nat
    BY DEF PostingsInv, PostingsTyped
  <2> QED BY <2>1, BooksAgree
<1> QED BY <1>1, PostingsKept, PTL

\* verify_ap_control finds nothing, and verify_ar_control and verify_vendor_ap no
\* more than a cent a line, after any history of documents, settlements in
\* dollars or in pounds at any rates, and refunds, but for the two exceptions
\* the property names.
THEOREM SubledgersTied == Spec => []SubledgersTie
<1> QED BY PostingsTie, PostingsKept, PTL

-----------------------------------------------------------------------------
(* Refunds: sums over what the documents about one order wrote.             *)

\* One element of a sequence changed.
LEMMA OverExcept ==
  ASSUME NEW S, NEW f, Measure(f, S), NEW s \in Seq(S), NEW i \in DOMAIN s, NEW x \in S
  PROVE  /\ [s EXCEPT ![i] = x] \in Seq(S)
         /\ SumOver(f, [s EXCEPT ![i] = x]) = (SumOver(f, s) - f[s[i]]) + f[x]
<1>0. PICK t : t = [s EXCEPT ![i] = x]
  OBVIOUS
<1>1. PICK n : n = Len(s) /\ n \in Nat /\ DOMAIN s = 1..n
  OBVIOUS
<1>2. /\ t \in Seq(S) /\ Len(t) = n /\ DOMAIN t = 1..n /\ t[i] = x
      /\ \A k \in 1..n : t[k] \in S /\ s[k] \in S /\ (k # i => t[k] = s[k])
  BY <1>0, <1>1
<1>3. PICK u, v : u = [k \in DOMAIN s |-> f[s[k]]] /\ v = [k \in DOMAIN t |-> f[t[k]]]
  OBVIOUS
<1>4. \A k \in 1..n : u[k] \in Int /\ v[k] \in Int /\ u[k] = f[s[k]] /\ v[k] = f[t[k]] /\ (k # i => v[k] = u[k])
  BY <1>1, <1>2, <1>3 DEF Measure
<1>5. IsFiniteSet(1..n)
  BY <1>1, FS_Interval
<1>6. SumFunctionOnSet(v, 1..n) = SumFunctionOnSet(u, 1..n) - u[i] + v[i]
  <2>1. i \in 1..n
    BY <1>1
  <2>2. (\A k \in 1..n : u[k] \in Int /\ v[k] \in Int) /\ \A k \in 1..n : k # i => v[k] = u[k]
    BY ONLY <1>4
  <2>3. PICK T : T = 1..n
    OBVIOUS
  <2>4. /\ IsFiniteSet(T) /\ i \in T /\ \A k \in T : u[k] \in Int /\ v[k] \in Int
        /\ \A k \in T : k # i => v[k] = u[k]
    BY ONLY <1>5, <2>1, <2>2, <2>3
  <2>5. SumFunctionOnSet(v, T) = SumFunctionOnSet(u, T) - u[i] + v[i]
    BY ONLY <2>4, SumChange
  <2> QED BY ONLY <2>3, <2>5
<1>7. SumTo(u, n) = SumFunctionOnSet(u, 1..n) /\ SumTo(v, n) = SumFunctionOnSet(v, 1..n) /\ SumTo(u, n) \in Int
  BY <1>1, <1>4, RowSum
<1>8. i \in 1..n /\ v[i] = f[x] /\ u[i] = f[s[i]] /\ v[i] \in Int /\ u[i] \in Int
  BY <1>1, <1>2, <1>4
<1>9. SumTo(v, n) = (SumTo(u, n) - u[i]) + v[i]
  BY <1>6, <1>7, <1>8
<1>10. SumOver(f, s) = SumTo(u, n) /\ SumOver(f, t) = SumTo(v, n)
  BY <1>1, <1>2, <1>3 DEF SumOver
<1> QED BY <1>0, <1>2, <1>8, <1>9, <1>10

-----------------------------------------------------------------------------
(* What the documents about an order have written.                          *)

\* An entry, and a journal, without the lines of other documents.
Blank(T, e) == [e EXCEPT !.lines = IF e.source \in T THEN @ ELSE <<>>]
Only(T, j) == [i \in DOMAIN j |-> Blank(T, j[i])]
\* What f comes to over the lines the documents of T wrote.
Moved(f, T, j) == Replayed(f, 1..Days, Only(T, j))

\* A blanked entry is an entry, of the same day.
LEMMA BlankIs ==
  ASSUME NEW e \in EntrySet, NEW T
  PROVE  /\ Blank(T, e) \in EntrySet /\ Blank(T, e).day \in 1..Days
         /\ Blank(T, e).lines = IF e.source \in T THEN e.lines ELSE <<>>
<1>1. /\ e = [day |-> e.day, source |-> e.source, lines |-> e.lines]
      /\ e.day \in 1..Days /\ e.source \in Sources /\ e.lines \in Seq(LineSet)
  BY DEF EntrySet
<1>2. PICK s : s = IF e.source \in T THEN e.lines ELSE <<>>
  OBVIOUS
<1>4. s \in Seq(LineSet)
  <2>1. <<>> \in Seq(LineSet)
    OBVIOUS
  <2>2. CASE e.source \in T
    BY <1>1, <1>2, <2>2
  <2>3. CASE e.source \notin T
    BY <1>2, <2>1, <2>3
  <2> QED BY <2>2, <2>3
<1>3. Blank(T, e) = [day |-> e.day, source |-> e.source, lines |-> s]
  BY <1>1, <1>2 DEF Blank
<1> QED BY <1>1, <1>2, <1>3, <1>4 DEF EntrySet

\* A blanked journal is a journal, of the same length.
LEMMA OnlyIs ==
  ASSUME NEW j \in Seq(EntrySet), NEW T
  PROVE  /\ Only(T, j) \in Seq(EntrySet) /\ Len(Only(T, j)) = Len(j)
         /\ \A i \in 1..Len(j) : Only(T, j)[i] = Blank(T, j[i]) /\ j[i] \in EntrySet
<1>1. \A i \in 1..Len(j) : j[i] \in EntrySet
  OBVIOUS
<1>2. \A i \in 1..Len(j) : Blank(T, j[i]) \in EntrySet
  BY <1>1, BlankIs
<1>3. Only(T, j) = [i \in 1..Len(j) |-> Blank(T, j[i])] /\ Len(j) \in Nat
  BY DEF Only
<1> QED BY <1>1, <1>2, <1>3

\* A sum over what some documents wrote is a number.
LEMMA MovedType ==
  ASSUME NEW f, Measure(f, LineSet), NEW T, NEW j \in Seq(EntrySet)
  PROVE  Moved(f, T, j) \in Int
BY OnlyIs, ReplayedType DEF Moved

\* An entry counts for the documents it is one of.
LEMMA MovedAppend ==
  ASSUME NEW f, Measure(f, LineSet), NEW T, NEW j \in Seq(EntrySet), NEW e \in EntrySet
  PROVE  /\ e.source \in T => Moved(f, T, Append(j, e)) = Moved(f, T, j) + SumOver(f, e.lines)
         /\ e.source \notin T => Moved(f, T, Append(j, e)) = Moved(f, T, j)
<1>1. PICK b, k : b = Blank(T, e) /\ k = Only(T, j)
  OBVIOUS
<1>2. b \in EntrySet /\ k \in Seq(EntrySet) /\ b.day \in 1..Days
  BY <1>1, BlankIs, OnlyIs
<1>3. Only(T, Append(j, e)) = Append(k, b)
  <2>1. PICK t : t = Append(j, e)
    OBVIOUS
  <2>2. /\ t \in Seq(EntrySet) /\ Len(t) = Len(j) + 1 /\ Len(j) \in Nat /\ t[Len(j) + 1] = e
        /\ \A i \in 1..Len(j) : t[i] = j[i]
    BY <2>1
  <2>3. /\ Only(T, t) \in Seq(EntrySet) /\ Len(Only(T, t)) = Len(j) + 1
        /\ \A i \in 1..(Len(j) + 1) : Only(T, t)[i] = Blank(T, t[i])
    BY <2>2, OnlyIs
  <2>4. Len(k) = Len(j) /\ \A i \in 1..Len(j) : k[i] = Blank(T, j[i])
    BY <1>1, OnlyIs
  <2>5. \A i \in 1..(Len(j) + 1) : Only(T, t)[i] = Append(k, b)[i]
    BY <1>1, <1>2, <2>2, <2>3, <2>4
  <2> QED BY <1>2, <2>1, <2>2, <2>3, <2>4, <2>5
<1>4. Replayed(f, 1..Days, Append(k, b)) = Replayed(f, 1..Days, k) + SumOver(f, b.lines)
  BY <1>2, ReplayedAppend
<1>5. Replayed(f, 1..Days, k) \in Int
  BY <1>2, ReplayedType
<1>6. b.lines = IF e.source \in T THEN e.lines ELSE <<>>
  BY <1>1, BlankIs
<1>7. SumOver(f, <<>>) = 0
  BY OverEmpty
<1> QED BY <1>1, <1>3, <1>4, <1>5, <1>6, <1>7 DEF Moved

\* Documents that have written nothing.
LEMMA MovedNothing ==
  ASSUME NEW f, Measure(f, LineSet), NEW T, NEW j \in Seq(EntrySet), \A i \in DOMAIN j : j[i].source \notin T
  PROVE  Moved(f, T, j) = 0
<1>1. Only(T, j) \in Seq(EntrySet)
  BY OnlyIs
<1>2. ASSUME NEW i \in 1..Len(Only(T, j)) PROVE SumOver(f, Only(T, j)[i].lines) = 0
  <2>1. i \in 1..Len(j) /\ i \in DOMAIN j /\ Only(T, j)[i] = Blank(T, j[i]) /\ j[i] \in EntrySet
    BY <1>2, OnlyIs
  <2>2. Only(T, j)[i].lines = <<>>
    BY <2>1, BlankIs
  <2> QED BY <2>2, OverEmpty
<1> QED BY <1>1, <1>2, ReplayedZero DEF Moved

\* What the property reads, as sums of measures.
LEMMA WrittenIs ==
  ASSUME journal \in Seq(EntrySet), NEW T
  PROVE  /\ \A A : Net(WrittenBy(T), 1..Days, A) = Moved(BaseIn(A), T, journal)
         /\ \A a, k : NetGrams(WrittenBy(T), 1..Days, a, k) = Moved(GramsIn(a, k), T, journal)
<1>1. WrittenBy(T) = Only(T, journal)
  BY DEF WrittenBy, Only, Blank
<1>2. Only(T, journal) \in Seq(EntrySet)
  BY OnlyIs
<1> QED BY <1>1, <1>2, NetIs DEF Moved

-----------------------------------------------------------------------------
(* What is left of the lines of an order.                                   *)

\* A sum rounded at once, and in two parts.
LEMMA RoundedJoin ==
  ASSUME NEW a \in Int, NEW b \in Int, NEW d \in Nat \ {0}
  PROVE  \E z \in Int : /\ z = HalfEven(a + b, d) - HalfEven(a, d) - HalfEven(b, d)
                        /\ -1 <= z /\ z <= 1
<1>1. PICK h \in Int : h = HalfEven(a + b, d) /\ 2 * (d * h) <= 2 * (a + b) + d /\ 2 * (a + b) - d <= 2 * (d * h)
  <2>1. a + b \in Int
    OBVIOUS
  <2> QED BY <2>1, Rounded
<1>2. PICK x \in Int : x = HalfEven(a, d) /\ 2 * (d * x) <= 2 * a + d /\ 2 * a - d <= 2 * (d * x)
  BY Rounded
<1>3. PICK y \in Int : y = HalfEven(b, d) /\ 2 * (d * y) <= 2 * b + d /\ 2 * b - d <= 2 * (d * y)
  BY Rounded
<1>4. PICK z \in Int : z = h - x - y
  OBVIOUS
<1>5. PICK p, q, r \in Int : p = d * h /\ q = d * x /\ r = d * y
  OBVIOUS
<1>6. 2 * p - 2 * q - 2 * r <= 3 * d /\ -(3 * d) <= 2 * p - 2 * q - 2 * r
  BY <1>1, <1>2, <1>3, <1>5
<1>7. ASSUME z > 1 PROVE FALSE
  <2>1. PICK w \in Nat : w = z - 2
    BY <1>7
  <2>2. PICK v \in Nat : v = d * w
    BY TimesNat
  <2>3. h = (x + y) + (w + 2)
    BY <1>4, <2>1
  <2>4. d * ((x + y) + (w + 2)) = d * x + d * y + d * w + 2 * d
    OBVIOUS
  <2>5. p = q + r + v + 2 * d
    BY <1>5, <2>2, <2>3, <2>4
  <2> QED BY <1>6, <2>5
<1>8. ASSUME z < -1 PROVE FALSE
  <2>1. PICK w \in Nat : w = -2 - z
    BY <1>8
  <2>2. PICK v \in Nat : v = d * w
    BY TimesNat
  <2>3. x + y = h + (w + 2)
    BY <1>4, <2>1
  <2>4. d * (x + y) = d * x + d * y /\ d * (h + (w + 2)) = d * h + d * w + 2 * d
    OBVIOUS
  <2>5. q + r = p + v + 2 * d
    BY <1>5, <2>2, <2>3, <2>4
  <2> QED BY <1>6, <2>5
<1> QED BY <1>1, <1>2, <1>3, <1>4, <1>7, <1>8

\* The same of the cost of some units, and of a percentage.
LEMMA CostJoin ==
  ASSUME NEW it, it.unit \in DOMAIN Catalogue, NEW a \in Nat, NEW b \in Nat
  PROVE  Within(Cost(it, a + b) - Cost(it, a) - Cost(it, b), 1)
<1>1. PICK c, d : c = Unit(it).cost /\ d = Unit(it).per
  OBVIOUS
<1>2. c \in Nat /\ d \in Nat \ {0}
  BY <1>1, UnitTypes
<1>3. PICK x \in Nat, y \in Nat : x = c * a /\ y = c * b
  BY <1>2, TimesNat
<1>4. c * (a + b) = x + y
  BY <1>2, <1>3
<1>5. PICK z \in Int : z = HalfEven(x + y, d) - HalfEven(x, d) - HalfEven(y, d) /\ -1 <= z /\ z <= 1
  BY <1>2, RoundedJoin
<1>6. z = Cost(it, a + b) - Cost(it, a) - Cost(it, b)
  BY <1>1, <1>3, <1>4, <1>5 DEF Cost
<1> QED BY <1>5, <1>6 DEF Within

\* The tax on a sum is the tax on its parts, to a cent.
LEMMA PercentJoin ==
  ASSUME NEW a \in Nat, NEW b \in Nat, NEW rate \in Nat
  PROVE  \E z \in Int : /\ z = Percent(a + b, rate) - Percent(a, rate) - Percent(b, rate)
                        /\ -1 <= z /\ z <= 1
<1>1. PICK x \in Nat, y \in Nat : x = a * rate /\ y = b * rate
  BY TimesNat
<1>2. (a + b) * rate = x + y
  BY <1>1
<1>3. PICK z \in Int : z = HalfEven(x + y, 100) - HalfEven(x, 100) - HalfEven(y, 100) /\ -1 <= z /\ z <= 1
  BY RoundedJoin
<1> QED BY <1>1, <1>2, <1>3 DEF Percent

\* Of a line of an order, what is left: its price, the metal of a karat in it,
\* its stone, and what the metal cost.
PriceLeft == [it \in ItemSet |-> Unit(it).price * (it.qty - it.refunded)]
GramsLeft(k) == [it \in ItemSet |-> IF Unit(it).karat = k THEN Unit(it).grams * (it.qty - it.refunded) ELSE 0]
StoneLeft == [it \in ItemSet |-> Unit(it).stone * (it.qty - it.refunded)]
CostLeft == [it \in ItemSet |-> Cost(it, it.qty - it.refunded)]

\* They are numbers.
LEMMA LeftOf ==
  ASSUME NEW it \in ItemSet
  PROVE  /\ PriceLeft[it] \in Nat /\ StoneLeft[it] \in Nat /\ CostLeft[it] \in Nat
         /\ \A k \in KaratSet : GramsLeft(k)[it] \in Nat
<1>1. PICK p, g, s, q : p = Unit(it).price /\ g = Unit(it).grams /\ s = Unit(it).stone /\ q = it.qty - it.refunded
  OBVIOUS
<1>2. it.unit \in DOMAIN Catalogue /\ q \in Nat
  BY <1>1 DEF ItemSet
<1>3. p \in Nat /\ g \in Nat /\ s \in Nat
  BY <1>1, <1>2, UnitTypes
<1>4. p * q \in Nat /\ g * q \in Nat /\ s * q \in Nat /\ Cost(it, q) \in Nat
  BY <1>2, <1>3, TimesNat, CostNat
<1>5. PriceLeft[it] = p * q /\ StoneLeft[it] = s * q /\ CostLeft[it] = Cost(it, q)
  BY <1>1 DEF PriceLeft, StoneLeft, CostLeft
<1>6. \A k : GramsLeft(k)[it] = IF Unit(it).karat = k THEN g * q ELSE 0
  BY <1>1 DEF GramsLeft
<1> QED BY <1>4, <1>5, <1>6

\* What is left of a line is a number.
LEMMA LeftMeasures ==
  /\ Measure(PriceLeft, ItemSet) /\ Measure(StoneLeft, ItemSet) /\ Measure(CostLeft, ItemSet)
  /\ \A k \in KaratSet : Measure(GramsLeft(k), ItemSet)
BY LeftOf DEF Measure

\* The sums over what is left, as sums of these.
LEMMA LeftTotals ==
  ASSUME NEW items \in Seq(ItemSet)
  PROVE  /\ Remaining(items) = SumOver(PriceLeft, items)
         /\ \A k : Total(items, LAMBDA it : IF Unit(it).karat = k THEN Unit(it).grams * (it.qty - it.refunded) ELSE 0)
                     = SumOver(GramsLeft(k), items)
         /\ Total(items, LAMBDA it : Unit(it).stone * (it.qty - it.refunded)) = SumOver(StoneLeft, items)
         /\ Total(items, LAMBDA it : Cost(it, it.qty - it.refunded)) = SumOver(CostLeft, items)
<1>1. \A i \in DOMAIN items : items[i] \in ItemSet
  OBVIOUS
<1>2. Remaining(items) = SumOver(PriceLeft, items)
  <2>1. [i \in DOMAIN items |-> PriceLeft[items[i]]]
          = [i \in DOMAIN items |-> Unit(items[i]).price * (items[i].qty - items[i].refunded)]
    BY <1>1 DEF PriceLeft
  <2> QED BY <2>1 DEF Remaining, Total, SumOver
<1>3. ASSUME NEW k
      PROVE Total(items, LAMBDA it : IF Unit(it).karat = k THEN Unit(it).grams * (it.qty - it.refunded) ELSE 0)
              = SumOver(GramsLeft(k), items)
  <2>1. [i \in DOMAIN items |-> GramsLeft(k)[items[i]]]
          = [i \in DOMAIN items |-> IF Unit(items[i]).karat = k
                                    THEN Unit(items[i]).grams * (items[i].qty - items[i].refunded) ELSE 0]
    BY <1>1 DEF GramsLeft
  <2> QED BY <2>1 DEF Total, SumOver
<1>4. Total(items, LAMBDA it : Unit(it).stone * (it.qty - it.refunded)) = SumOver(StoneLeft, items)
  <2>1. [i \in DOMAIN items |-> StoneLeft[items[i]]]
          = [i \in DOMAIN items |-> Unit(items[i]).stone * (items[i].qty - items[i].refunded)]
    BY <1>1 DEF StoneLeft
  <2> QED BY <2>1 DEF Total, SumOver
<1>5. Total(items, LAMBDA it : Cost(it, it.qty - it.refunded)) = SumOver(CostLeft, items)
  <2>1. [i \in DOMAIN items |-> CostLeft[items[i]]]
          = [i \in DOMAIN items |-> Cost(items[i], items[i].qty - items[i].refunded)]
    BY <1>1 DEF CostLeft
  <2> QED BY <2>1 DEF Total, SumOver
<1> QED BY <1>2, <1>3, <1>4, <1>5

\* Nothing of an order is refunded.
Whole(items) == \A i \in DOMAIN items : items[i].refunded = 0

\* All of an order that was just sold is left.
LEMMA LeftWhole ==
  ASSUME NEW items \in Seq(ItemSet), Whole(items)
  PROVE  /\ Total(items, LAMBDA it : Unit(it).stone * it.qty) = SumOver(StoneLeft, items)
         /\ \A k : Total(items, LAMBDA it : IF Unit(it).karat = k THEN Unit(it).grams * it.qty ELSE 0)
                     = SumOver(GramsLeft(k), items)
         /\ Total(items, LAMBDA it : IF Unit(it).karat = "K18" THEN Cost(it, it.qty) ELSE 0)
              + Total(items, LAMBDA it : IF Unit(it).karat = "K21" THEN Cost(it, it.qty) ELSE 0)
              = SumOver(CostLeft, items)
<1>1. ASSUME NEW i \in DOMAIN items PROVE items[i] \in ItemSet /\ items[i].qty - items[i].refunded = items[i].qty
  <2>1. items[i] \in ItemSet
    OBVIOUS
  <2>2. items[i].qty \in Nat /\ items[i].refunded = 0
    BY <2>1 DEF ItemSet, Whole
  <2> QED BY <2>1, <2>2
<1>2. Total(items, LAMBDA it : Unit(it).stone * it.qty) = SumOver(StoneLeft, items)
  <2>1. [i \in DOMAIN items |-> StoneLeft[items[i]]] = [i \in DOMAIN items |-> Unit(items[i]).stone * items[i].qty]
    BY <1>1 DEF StoneLeft
  <2> QED BY <2>1 DEF Total, SumOver
<1>3. ASSUME NEW k
      PROVE Total(items, LAMBDA it : IF Unit(it).karat = k THEN Unit(it).grams * it.qty ELSE 0) = SumOver(GramsLeft(k), items)
  <2>1. [i \in DOMAIN items |-> GramsLeft(k)[items[i]]]
          = [i \in DOMAIN items |-> IF Unit(items[i]).karat = k THEN Unit(items[i]).grams * items[i].qty ELSE 0]
    BY <1>1 DEF GramsLeft
  <2> QED BY <2>1 DEF Total, SumOver
<1>4. Total(items, LAMBDA it : IF Unit(it).karat = "K18" THEN Cost(it, it.qty) ELSE 0)
        + Total(items, LAMBDA it : IF Unit(it).karat = "K21" THEN Cost(it, it.qty) ELSE 0)
        = SumOver(CostLeft, items)
  <2>1. PICK u, v, w : /\ u = [i \in DOMAIN items |-> IF Unit(items[i]).karat = "K18" THEN Cost(items[i], items[i].qty) ELSE 0]
                       /\ v = [i \in DOMAIN items |-> IF Unit(items[i]).karat = "K21" THEN Cost(items[i], items[i].qty) ELSE 0]
                       /\ w = [i \in DOMAIN items |-> CostLeft[items[i]]]
    OBVIOUS
  <2>2. PICK n \in Nat : n = Len(items) /\ DOMAIN items = 1..n
    OBVIOUS
  <2>3. ASSUME NEW i \in 1..n PROVE u[i] \in Int /\ v[i] \in Int /\ w[i] = u[i] + v[i]
    <3>1. PICK c, k : c = Cost(items[i], items[i].qty) /\ k = Unit(items[i]).karat
      OBVIOUS
    <3>2. items[i] \in ItemSet /\ items[i].qty - items[i].refunded = items[i].qty
      BY <1>1, <2>2
    <3>3. items[i].unit \in DOMAIN Catalogue /\ items[i].qty \in Nat
      BY <3>2 DEF ItemSet
    <3>4. c \in Nat /\ k \in {"K18", "K21"}
      BY <3>1, <3>3, CostNat, UnitTypes DEF KaratSet
    <3>5. u[i] = (IF k = "K18" THEN c ELSE 0) /\ v[i] = (IF k = "K21" THEN c ELSE 0)
      BY <2>1, <2>2, <3>1
    <3>6. w[i] = c
      BY <2>1, <2>2, <3>1, <3>2 DEF CostLeft
    <3> QED BY <3>4, <3>5, <3>6
  <2>4. SumTo(w, n) = SumTo(u, n) + SumTo(v, n)
    BY <2>3, RowPlus
  <2> QED BY <2>1, <2>2, <2>4 DEF Total, SumOver
<1> QED BY <1>2, <1>3, <1>4

\* Some units of a line refunded.
LEMMA LeftTakes ==
  ASSUME NEW it \in ItemSet, NEW qty \in 1..(it.qty - it.refunded), NEW m, m = [it EXCEPT !.refunded = @ + qty]
  PROVE  /\ m \in ItemSet /\ qty \in Nat /\ m.unit = it.unit
         /\ PriceLeft[m] = PriceLeft[it] - Unit(it).price * qty
         /\ StoneLeft[m] = StoneLeft[it] - Unit(it).stone * qty
         /\ \A k \in KaratSet : GramsLeft(k)[m] = GramsLeft(k)[it] - (IF Unit(it).karat = k THEN Unit(it).grams * qty ELSE 0)
         /\ Within(CostLeft[it] - CostLeft[m] - Cost(it, qty), 1)
<1>1. PICK p, g, s, q, r : /\ p = Unit(it).price /\ g = Unit(it).grams /\ s = Unit(it).stone
                           /\ q = it.qty - it.refunded /\ r = q - qty
  OBVIOUS
<1>2. /\ it.unit \in DOMAIN Catalogue /\ it.qty \in Nat /\ it.refunded \in Nat /\ it.refunded <= it.qty
      /\ it = [unit |-> it.unit, qty |-> it.qty, refunded |-> it.refunded]
  BY DEF ItemSet
<1>3. q \in Nat /\ qty \in Nat /\ r \in Nat /\ q = r + qty /\ it.refunded + qty \in Nat /\ it.refunded + qty <= it.qty
  BY <1>1, <1>2
<1>4. m = [unit |-> it.unit, qty |-> it.qty, refunded |-> it.refunded + qty] /\ m \in ItemSet
  BY <1>2, <1>3 DEF ItemSet
<1>5. m.unit = it.unit /\ m.qty - m.refunded = r /\ Unit(m) = Unit(it) /\ \A x : Cost(m, x) = Cost(it, x)
  BY <1>1, <1>2, <1>4 DEF Unit, Cost
<1>6. p \in Nat /\ g \in Nat /\ s \in Nat
  BY <1>1, <1>2, UnitTypes
<1>7. p * q = p * r + p * qty /\ g * q = g * r + g * qty /\ s * q = s * r + s * qty
  BY <1>3, <1>6
<1>8. PICK a, b, c, d, e, h \in Nat : a = p * r /\ b = g * r /\ c = s * r /\ d = p * qty /\ e = g * qty /\ h = s * qty
  BY <1>3, <1>6, TimesNat
<1>9. PriceLeft[m] = a /\ PriceLeft[it] = a + d /\ StoneLeft[m] = c /\ StoneLeft[it] = c + h
  BY <1>1, <1>4, <1>5, <1>7, <1>8 DEF PriceLeft, StoneLeft
<1>10. \A k : /\ GramsLeft(k)[m] = (IF Unit(it).karat = k THEN b ELSE 0)
              /\ GramsLeft(k)[it] = (IF Unit(it).karat = k THEN b + e ELSE 0)
  BY <1>1, <1>4, <1>5, <1>7, <1>8 DEF GramsLeft
<1>11. CostLeft[it] = Cost(it, r + qty) /\ CostLeft[m] = Cost(it, r)
  BY <1>1, <1>3, <1>4, <1>5 DEF CostLeft
<1>12. Within(Cost(it, r + qty) - Cost(it, r) - Cost(it, qty), 1)
  BY <1>2, <1>3, CostJoin
<1> QED BY <1>1, <1>3, <1>4, <1>5, <1>8, <1>9, <1>10, <1>11, <1>12

-----------------------------------------------------------------------------
(* What the lines of a sale and of a refund come to.                        *)

\* The accounts of what is sold.
Revenue == {"SALES_REVENUE", "MAKING_CHARGE_REVENUE"}
\* f counts a line in dollars by its amount where its account is one of A.
Dollars(f, A) == \A a \in Accounts, x \in Int : f[Usd(a, x)] = IF a \in A THEN x ELSE 0

\* What an order's units are made for, its stones, and the metal of a karat in them.
MakingOf(items) == Total(items, LAMBDA it : Unit(it).making * it.qty)
StonesOf(items) == Total(items, LAMBDA it : Unit(it).stone * it.qty)
MetalCost(items, k) == Total(items, LAMBDA it : IF Unit(it).karat = k THEN Cost(it, it.qty) ELSE 0)
MetalGrams(items, k) == Total(items, LAMBDA it : IF Unit(it).karat = k THEN Unit(it).grams * it.qty ELSE 0)

\* A line in dollars counts for its own account, and in no weight.
LEMMA DollarsIs == (\A A : Dollars(BaseIn(A), A)) /\ \A a : \A k \in KaratSet : Dollars(GramsIn(a, k), {})
BY OfUsd DEF Dollars

\* A line in dollars that is left out when there is nothing to say.
LEMMA DollarWhen ==
  ASSUME NEW f, Measure(f, LineSet), NEW A, Dollars(f, A), NEW acct \in Accounts, NEW amount \in Int,
         NEW c \in BOOLEAN, c \/ amount = 0
  PROVE  AddsUp(f, When(c, Usd(acct, amount)), IF acct \in A THEN amount ELSE 0)
<1>1. PICK l : l = Usd(acct, amount)
  OBVIOUS
<1>2. l \in LineSet /\ f[l] = IF acct \in A THEN amount ELSE 0
  BY <1>1, UsdLine DEF Dollars
<1>3. AddsUp(f, When(c, l), IF c THEN f[l] ELSE 0)
  BY <1>2, AddsWhen
<1>4. (IF c THEN f[l] ELSE 0) = IF acct \in A THEN amount ELSE 0
  BY <1>2
<1> QED BY <1>1, <1>3, <1>4

\* A line written only above zero counts the same when it is left out.
LEMMA DollarAbove ==
  ASSUME NEW f, Measure(f, LineSet), NEW A, Dollars(f, A), NEW acct \in Accounts, NEW amount \in Int,
         NEW x \in Nat, x = 0 => amount = 0
  PROVE  AddsUp(f, When(x > 0, Usd(acct, amount)), IF acct \in A THEN amount ELSE 0)
<1>1. PICK c : c = (x > 0)
  OBVIOUS
<1>2. c \in BOOLEAN
  BY <1>1
<1>3. c \/ amount = 0
  <2>1. x > 0 \/ amount = 0
    OBVIOUS
  <2>2. CASE x > 0
    BY ONLY <1>1, <2>2, Zenon
  <2> QED BY <2>1, <2>2
<1>4. AddsUp(f, When(c, Usd(acct, amount)), IF acct \in A THEN amount ELSE 0)
  BY <1>2, <1>3, DollarWhen
<1> QED BY <1>1, <1>4

\* The lines of the stones: their cost, and nothing else of what is measured.
LEMMA StonesAdd ==
  ASSUME NEW f, Measure(f, LineSet), NEW A, Dollars(f, A), "STONE_INVENTORY" \notin A, NEW x \in Int
  PROVE  AddsUp(f, Stones(x), IF "STONE_COGS" \in A THEN x ELSE 0)
<1>1. PICK y \in Int : y = -x
  OBVIOUS
<1>2. PICK c : c = (x # 0)
  OBVIOUS
<1>3. c \in BOOLEAN /\ (c \/ x = 0) /\ (c \/ y = 0)
  <2>1. x # 0 \/ (x = 0 /\ y = 0)
    BY <1>1
  <2> QED BY ONLY <1>2, <2>1, Zenon
<1>4. AddsUp(f, When(c, Usd("STONE_COGS", x)), IF "STONE_COGS" \in A THEN x ELSE 0)
  BY <1>3, Chart, DollarWhen
<1>5. AddsUp(f, When(c, Usd("STONE_INVENTORY", y)), 0)
  <2>1. AddsUp(f, When(c, Usd("STONE_INVENTORY", y)), IF "STONE_INVENTORY" \in A THEN y ELSE 0)
    BY <1>3, Chart, DollarWhen
  <2> QED BY <2>1
<1>6. AddsUp(f, Stones(x), (IF "STONE_COGS" \in A THEN x ELSE 0) + 0)
  BY <1>1, <1>2, <1>4, <1>5, AddsJoin DEF Stones
<1>7. (IF "STONE_COGS" \in A THEN x ELSE 0) + 0 = IF "STONE_COGS" \in A THEN x ELSE 0
  OBVIOUS
<1> QED BY <1>6, <1>7

\* The metal of a karat in a sale: its cost and its grams.
LEMMA SoldMoves ==
  ASSUME NEW items \in Seq(ItemSet), NEW k \in KaratSet, NEW c, NEW g,
         c = MetalCost(items, k), g = MetalGrams(items, k)
  PROVE  /\ c \in Nat /\ g \in Nat
         /\ AddsUp(BaseIn({"METAL_COGS"}), SoldMetal(items, k), c)
         /\ \A A : "METAL_COGS" \notin A /\ "METAL_INVENTORY" \notin A => AddsUp(BaseIn(A), SoldMetal(items, k), 0)
         /\ \A j \in KaratSet : AddsUp(GramsIn("METAL_INVENTORY", j), SoldMetal(items, k), IF j = k THEN -g ELSE 0)
<1>1. c \in Nat /\ g \in Nat
  BY MetalTotals DEF MetalCost, MetalGrams
<1>2. PICK x \in Int, y \in Int : x = -c /\ y = -g
  BY <1>1
<1>6. y + g = 0
  BY <1>1, <1>2
<1>3. PICK l, m : l = Metal("METAL_COGS", c, g, k) /\ m = Metal("METAL_INVENTORY", x, y, k)
  OBVIOUS
<1>4. CASE \E i \in DOMAIN items : Unit(items[i]).karat = k
  <2>1. SoldMetal(items, k) = <<l, m>>
    BY <1>2, <1>3, <1>4 DEF SoldMetal, MetalCost, MetalGrams
  <2>2. l \in LineSet /\ m \in LineSet
    BY <1>1, <1>3, Chart, MetalLine
  <2>3. /\ \A A : /\ BaseIn(A)[l] = IF "METAL_COGS" \in A THEN c ELSE 0
                  /\ BaseIn(A)[m] = IF "METAL_INVENTORY" \in A THEN x ELSE 0
        /\ \A a, j : /\ GramsIn(a, j)[l] = IF a = "METAL_COGS" /\ j = k THEN g ELSE 0
                     /\ GramsIn(a, j)[m] = IF a = "METAL_INVENTORY" /\ j = k THEN y ELSE 0
    BY <1>1, <1>3, Chart, OfMetal
  <2>4. \A A : AddsUp(BaseIn(A), <<l, m>>, BaseIn(A)[l] + BaseIn(A)[m])
    BY <2>2, AddsTwo, Measures
  <2>5. \A a, j : AddsUp(GramsIn(a, j), <<l, m>>, GramsIn(a, j)[l] + GramsIn(a, j)[m])
    BY <2>2, AddsTwo, Measures
  <2>6. BaseIn({"METAL_COGS"})[l] + BaseIn({"METAL_COGS"})[m] = c
    BY <1>1, <2>3
  <2>7. \A A : "METAL_COGS" \notin A /\ "METAL_INVENTORY" \notin A => BaseIn(A)[l] + BaseIn(A)[m] = 0
    BY <2>3
  <2>8. \A j : GramsIn("METAL_INVENTORY", j)[l] + GramsIn("METAL_INVENTORY", j)[m] = IF j = k THEN y ELSE 0
    BY <2>3
  <2>9. AddsUp(BaseIn({"METAL_COGS"}), <<l, m>>, c)
    BY <2>4, <2>6
  <2>10. \A A : "METAL_COGS" \notin A /\ "METAL_INVENTORY" \notin A => AddsUp(BaseIn(A), <<l, m>>, 0)
    BY <2>4, <2>7
  <2>11. \A j \in KaratSet : AddsUp(GramsIn("METAL_INVENTORY", j), <<l, m>>, IF j = k THEN y ELSE 0)
    BY <2>5, <2>8
  <2> QED BY <1>1, <1>2, <2>1, <2>9, <2>10, <2>11
<1>5. CASE ~\E i \in DOMAIN items : Unit(items[i]).karat = k
  <2>1. SoldMetal(items, k) = <<>>
    BY <1>5 DEF SoldMetal
  <2>2. PICK n \in Nat : n = Len(items) /\ DOMAIN items = 1..n
    OBVIOUS
  <2>3. PICK u, v : /\ u = [i \in DOMAIN items |-> IF Unit(items[i]).karat = k THEN Cost(items[i], items[i].qty) ELSE 0]
                    /\ v = [i \in DOMAIN items |-> IF Unit(items[i]).karat = k THEN Unit(items[i]).grams * items[i].qty ELSE 0]
    OBVIOUS
  <2>4. \A i \in 1..n : u[i] = 0 /\ v[i] = 0
    BY <1>5, <2>2, <2>3
  <2>5. SumTo(u, n) = 0 /\ SumTo(v, n) = 0
    BY <2>4, RowZero
  <2>6. c = 0 /\ g = 0
    BY <2>2, <2>3, <2>5 DEF Total, MetalCost, MetalGrams
  <2>7. \A f : AddsUp(f, SoldMetal(items, k), 0)
    BY <2>1, AddsNone
  <2>8. \A j : (IF j = k THEN -g ELSE 0) = 0
    <3>1. y = 0
      BY <1>1, <1>6, <2>6
    <3> QED BY <1>2, <3>1
  <2> QED BY <1>1, <2>6, <2>7, <2>8
<1> QED BY <1>4, <1>5

\* What a sale comes to in the accounts of A, given what its metal comes to.
LEMMA SaleAdds ==
  ASSUME NEW o \in OrderSet, NEW f, Measure(f, LineSet), NEW A, Dollars(f, A),
         A \subseteq Revenue \cup {"STONE_COGS", "METAL_COGS"},
         NEW d, NEW e, AddsUp(f, SoldMetal(o.items, "K18"), d), AddsUp(f, SoldMetal(o.items, "K21"), e),
         NEW making, making = MakingOf(o.items), NEW stone, stone = StonesOf(o.items)
  PROVE  /\ making \in Nat /\ stone \in Nat /\ o.subtotal \in Nat /\ d \in Int /\ e \in Int
         /\ AddsUp(f, SaleLines(o),
                   (IF "SALES_REVENUE" \in A THEN making - o.subtotal ELSE 0)
                     + (IF "MAKING_CHARGE_REVENUE" \in A THEN -making ELSE 0)
                     + (d + e) + (IF "STONE_COGS" \in A THEN stone ELSE 0))
<1>1. PICK ss :
    /\ ss = [i \in DOMAIN Karats |-> SoldMetal(o.items, Karats[i])]
    /\ SaleLines(o) =
         ((((<<Usd(Till(o.pay), o.total), Usd("SALES_REVENUE", making - o.subtotal)>>
             \o When(making > 0, Usd("MAKING_CHARGE_REVENUE", -making)))
            \o When(o.vat > 0, Usd("VAT_PAYABLE", -o.vat)))
           \o When(o.discount > 0, Usd("SALES_DISCOUNTS", o.discount)))
          \o FlattenSeq(ss))
         \o Stones(stone)
  BY SaleParts DEF MakingOf, StonesOf
<1>2. /\ o.items \in Seq(ItemSet) /\ o.pay \in {"CASH", "CARD", "CREDIT"}
      /\ o.total \in Int /\ o.subtotal \in Nat /\ o.vat \in Nat /\ o.discount \in Nat
  BY DEF OrderSet
<1>3. making \in Nat /\ stone \in Nat /\ d \in Int /\ e \in Int
  BY <1>2, ItemTotals DEF AddsUp, MakingOf, StonesOf
<1>4. PICK r \in Int, n \in Int, v \in Int : r = making - o.subtotal /\ n = -making /\ v = -o.vat
  BY <1>2, <1>3
<1>5. PICK w \in Int : w = o.discount
  BY <1>2
<1>7. (making = 0 => n = 0) /\ (o.vat = 0 => v = 0) /\ (o.discount = 0 => w = 0)
  BY <1>2, <1>3, <1>4, <1>5
<1>8. AddsUp(f, <<Usd(Till(o.pay), o.total), Usd("SALES_REVENUE", r)>>, IF "SALES_REVENUE" \in A THEN r ELSE 0)
  <2>1. PICK l, m : l = Usd(Till(o.pay), o.total) /\ m = Usd("SALES_REVENUE", r)
    OBVIOUS
  <2>2. Till(o.pay) \in Accounts /\ Till(o.pay) \notin A
    BY <1>2, Chart DEF Till, Revenue
  <2>3. l \in LineSet /\ m \in LineSet /\ f[l] = 0 /\ f[m] = IF "SALES_REVENUE" \in A THEN r ELSE 0
    BY <1>2, <2>1, <2>2, Chart, UsdLine DEF Dollars
  <2>4. AddsUp(f, <<l, m>>, f[l] + f[m])
    BY <2>3, AddsTwo
  <2>5. f[l] + f[m] = IF "SALES_REVENUE" \in A THEN r ELSE 0
    BY <2>3
  <2> QED BY <2>1, <2>4, <2>5
<1>9. AddsUp(f, When(making > 0, Usd("MAKING_CHARGE_REVENUE", n)), IF "MAKING_CHARGE_REVENUE" \in A THEN n ELSE 0)
  BY <1>2, <1>3, <1>7, Chart, DollarAbove
<1>10. AddsUp(f, When(o.vat > 0, Usd("VAT_PAYABLE", v)), 0)
  <2>1. AddsUp(f, When(o.vat > 0, Usd("VAT_PAYABLE", v)), IF "VAT_PAYABLE" \in A THEN v ELSE 0)
    BY <1>2, <1>3, <1>7, Chart, DollarAbove
  <2>2. "VAT_PAYABLE" \notin A
    BY DEF Revenue
  <2> QED BY <2>1, <2>2
<1>11. AddsUp(f, When(o.discount > 0, Usd("SALES_DISCOUNTS", w)), 0)
  <2>1. AddsUp(f, When(o.discount > 0, Usd("SALES_DISCOUNTS", w)), IF "SALES_DISCOUNTS" \in A THEN w ELSE 0)
    BY <1>2, <1>3, <1>7, Chart, DollarAbove
  <2>2. "SALES_DISCOUNTS" \notin A
    BY DEF Revenue
  <2> QED BY <2>1, <2>2
<1>12. AddsUp(f, FlattenSeq(ss), d + e)
  <2>1. DOMAIN Karats = 1..2 /\ Karats[1] = "K18" /\ Karats[2] = "K21"
    BY DEF Karats
  <2>2. DOMAIN ss = DOMAIN Karats /\ ss[1] = SoldMetal(o.items, "K18") /\ ss[2] = SoldMetal(o.items, "K21")
    BY <1>1, <2>1
  <2>3. ss \in Seq(Seq(LineSet))
    <3>1. ss[1] \in Seq(LineSet) /\ ss[2] \in Seq(LineSet)
      BY <2>2 DEF AddsUp
    <3>2. \A i \in 1..2 : ss[i] \in Seq(LineSet)
      BY <3>1
    <3>3. ss = [i \in 1..2 |-> ss[i]]
      BY <1>1, <2>1
    <3> QED BY <3>2, <3>3
  <2> QED BY <2>2, <2>3, AddsKarats
<1>13. AddsUp(f, Stones(stone), IF "STONE_COGS" \in A THEN stone ELSE 0)
  <2>1. "STONE_INVENTORY" \notin A /\ stone \in Int
    BY <1>3 DEF Revenue
  <2> QED BY <2>1, StonesAdd
<1>14. PICK p, q, s : /\ p = (IF "SALES_REVENUE" \in A THEN r ELSE 0)
                      /\ q = (IF "MAKING_CHARGE_REVENUE" \in A THEN n ELSE 0)
                      /\ s = (IF "STONE_COGS" \in A THEN stone ELSE 0)
  OBVIOUS
<1>15. AddsUp(f, SaleLines(o), ((((p + q) + 0) + 0) + (d + e)) + s)
  <2>1. PICK H, B, C, D, F, E :
          /\ H = <<Usd(Till(o.pay), o.total), Usd("SALES_REVENUE", r)>>
          /\ B = When(making > 0, Usd("MAKING_CHARGE_REVENUE", n)) /\ C = When(o.vat > 0, Usd("VAT_PAYABLE", v))
          /\ D = When(o.discount > 0, Usd("SALES_DISCOUNTS", w)) /\ F = FlattenSeq(ss) /\ E = Stones(stone)
    OBVIOUS
  <2>2. SaleLines(o) = ((((H \o B) \o C) \o D) \o F) \o E
    BY <1>1, <1>4, <1>5, <2>1
  <2>3. /\ AddsUp(f, H, p) /\ AddsUp(f, B, q) /\ AddsUp(f, C, 0) /\ AddsUp(f, D, 0)
        /\ AddsUp(f, F, d + e) /\ AddsUp(f, E, s)
    BY <1>8, <1>9, <1>10, <1>11, <1>12, <1>13, <1>14, <2>1
  <2>4. AddsUp(f, (H \o B) \o C, (p + q) + 0)
    BY <2>3, AddsJoin
  <2>5. AddsUp(f, (((H \o B) \o C) \o D) \o F, (((p + q) + 0) + 0) + (d + e))
    BY <2>3, <2>4, AddsJoin
  <2>6. AddsUp(f, ((((H \o B) \o C) \o D) \o F) \o E, ((((p + q) + 0) + 0) + (d + e)) + s)
    BY <2>3, <2>5, AddsJoin
  <2> QED BY <2>2, <2>6
<1>16. p \in Int /\ q \in Int /\ s \in Int
  BY <1>3, <1>14
<1>17. ((((p + q) + 0) + 0) + (d + e)) + s = p + q + (d + e) + s
  BY <1>3, <1>16
<1> QED BY <1>2, <1>3, <1>4, <1>14, <1>15, <1>17

\* What a sale writes, by what is left of its lines.
LEMMA SaleMoves ==
  ASSUME NEW o \in OrderSet, Whole(o.items), NEW s, s = SaleLines(o)
  PROVE  /\ AddsUp(BaseIn(Revenue), s, -o.subtotal)
         /\ AddsUp(BaseIn({"STONE_COGS"}), s, SumOver(StoneLeft, o.items))
         /\ AddsUp(BaseIn({"METAL_COGS"}), s, SumOver(CostLeft, o.items))
         /\ \A k \in KaratSet : AddsUp(GramsIn("METAL_INVENTORY", k), s, -SumOver(GramsLeft(k), o.items))
<1>1. o.items \in Seq(ItemSet) /\ o.subtotal \in Nat
  BY DEF OrderSet
<1>2. PICK making, stone, c, d, g, h :
        /\ making = MakingOf(o.items) /\ stone = StonesOf(o.items)
        /\ c = MetalCost(o.items, "K18") /\ d = MetalCost(o.items, "K21")
        /\ g = MetalGrams(o.items, "K18") /\ h = MetalGrams(o.items, "K21")
  OBVIOUS
<1>3. /\ stone = SumOver(StoneLeft, o.items) /\ c + d = SumOver(CostLeft, o.items)
      /\ g = SumOver(GramsLeft("K18"), o.items) /\ h = SumOver(GramsLeft("K21"), o.items)
  BY <1>1, <1>2, LeftWhole DEF StonesOf, MetalCost, MetalGrams
<1>4. KaratSet = {"K18", "K21"} /\ "K18" \in KaratSet /\ "K21" \in KaratSet
  BY DEF KaratSet
<1>5. /\ c \in Nat /\ g \in Nat /\ d \in Nat /\ h \in Nat
      /\ AddsUp(BaseIn({"METAL_COGS"}), SoldMetal(o.items, "K18"), c)
      /\ AddsUp(BaseIn({"METAL_COGS"}), SoldMetal(o.items, "K21"), d)
  BY <1>1, <1>2, <1>4, SoldMoves
<1>6. ASSUME NEW A, A \in {Revenue, {"STONE_COGS"}}
      PROVE  AddsUp(BaseIn(A), SoldMetal(o.items, "K18"), 0) /\ AddsUp(BaseIn(A), SoldMetal(o.items, "K21"), 0)
  <2>1. "METAL_COGS" \notin A /\ "METAL_INVENTORY" \notin A
    BY <1>6 DEF Revenue
  <2> QED BY <1>1, <1>2, <1>4, <2>1, SoldMoves
<1>7. ASSUME NEW f, Measure(f, LineSet), NEW A, Dollars(f, A),
             A \subseteq Revenue \cup {"STONE_COGS", "METAL_COGS"},
             NEW x, NEW y, AddsUp(f, SoldMetal(o.items, "K18"), x), AddsUp(f, SoldMetal(o.items, "K21"), y)
      PROVE  /\ making \in Nat /\ stone \in Nat /\ x \in Int /\ y \in Int
             /\ AddsUp(f, s, (IF "SALES_REVENUE" \in A THEN making - o.subtotal ELSE 0)
                               + (IF "MAKING_CHARGE_REVENUE" \in A THEN -making ELSE 0)
                               + (x + y) + (IF "STONE_COGS" \in A THEN stone ELSE 0))
  BY <1>2, <1>7, SaleAdds
<1>8. making \in Nat /\ stone \in Nat
  BY <1>1, <1>2, ItemTotals DEF MakingOf, StonesOf
<1>9. AddsUp(BaseIn(Revenue), s, -o.subtotal)
  <2>1. AddsUp(BaseIn(Revenue), s, (IF "SALES_REVENUE" \in Revenue THEN making - o.subtotal ELSE 0)
                               + (IF "MAKING_CHARGE_REVENUE" \in Revenue THEN -making ELSE 0)
                               + (0 + 0) + (IF "STONE_COGS" \in Revenue THEN stone ELSE 0))
    BY <1>6, <1>7, Measures, DollarsIs
  <2>2. (IF "SALES_REVENUE" \in Revenue THEN making - o.subtotal ELSE 0)
           + (IF "MAKING_CHARGE_REVENUE" \in Revenue THEN -making ELSE 0)
           + (0 + 0) + (IF "STONE_COGS" \in Revenue THEN stone ELSE 0) = -o.subtotal
    BY <1>1, <1>8 DEF Revenue
  <2> QED BY <2>1, <2>2
<1>10. AddsUp(BaseIn({"STONE_COGS"}), s, stone)
  <2>1. AddsUp(BaseIn({"STONE_COGS"}), s, (IF "SALES_REVENUE" \in {"STONE_COGS"} THEN making - o.subtotal ELSE 0)
                               + (IF "MAKING_CHARGE_REVENUE" \in {"STONE_COGS"} THEN -making ELSE 0)
                               + (0 + 0) + (IF "STONE_COGS" \in {"STONE_COGS"} THEN stone ELSE 0))
    BY <1>6, <1>7, Measures, DollarsIs
  <2>2. (IF "SALES_REVENUE" \in {"STONE_COGS"} THEN making - o.subtotal ELSE 0)
           + (IF "MAKING_CHARGE_REVENUE" \in {"STONE_COGS"} THEN -making ELSE 0)
           + (0 + 0) + (IF "STONE_COGS" \in {"STONE_COGS"} THEN stone ELSE 0) = stone
    BY <1>8
  <2> QED BY <2>1, <2>2
<1>11. AddsUp(BaseIn({"METAL_COGS"}), s, c + d)
  <2>1. AddsUp(BaseIn({"METAL_COGS"}), s, (IF "SALES_REVENUE" \in {"METAL_COGS"} THEN making - o.subtotal ELSE 0)
                               + (IF "MAKING_CHARGE_REVENUE" \in {"METAL_COGS"} THEN -making ELSE 0)
                               + (c + d) + (IF "STONE_COGS" \in {"METAL_COGS"} THEN stone ELSE 0))
    BY <1>5, <1>7, Measures, DollarsIs
  <2>2. (IF "SALES_REVENUE" \in {"METAL_COGS"} THEN making - o.subtotal ELSE 0)
           + (IF "MAKING_CHARGE_REVENUE" \in {"METAL_COGS"} THEN -making ELSE 0)
           + (c + d) + (IF "STONE_COGS" \in {"METAL_COGS"} THEN stone ELSE 0) = c + d
    BY <1>5
  <2> QED BY <2>1, <2>2
<1>12. ASSUME NEW k \in KaratSet PROVE AddsUp(GramsIn("METAL_INVENTORY", k), s, -SumOver(GramsLeft(k), o.items))
  <2>1. PICK x \in Int, y \in Int : x = (IF k = "K18" THEN -g ELSE 0) /\ y = (IF k = "K21" THEN -h ELSE 0)
    BY <1>5
  <2>2. /\ AddsUp(GramsIn("METAL_INVENTORY", k), SoldMetal(o.items, "K18"), x)
        /\ AddsUp(GramsIn("METAL_INVENTORY", k), SoldMetal(o.items, "K21"), y)
    BY <1>1, <1>2, <1>4, <2>1, SoldMoves
  <2>3. AddsUp(GramsIn("METAL_INVENTORY", k), s, (IF "SALES_REVENUE" \in {} THEN making - o.subtotal ELSE 0)
                               + (IF "MAKING_CHARGE_REVENUE" \in {} THEN -making ELSE 0)
                               + (x + y) + (IF "STONE_COGS" \in {} THEN stone ELSE 0))
    BY <1>7, <2>2, Measures, DollarsIs
  <2>4. (IF "SALES_REVENUE" \in {} THEN making - o.subtotal ELSE 0)
           + (IF "MAKING_CHARGE_REVENUE" \in {} THEN -making ELSE 0)
           + (x + y) + (IF "STONE_COGS" \in {} THEN stone ELSE 0) = x + y
    BY <2>1
  <2>5. x + y = -SumOver(GramsLeft(k), o.items)
    <3>1. CASE k = "K18"
      BY <1>3, <1>5, <2>1, <3>1
    <3>2. CASE k = "K21"
      BY <1>3, <1>5, <2>1, <3>2
    <3> QED BY <1>4, <3>1, <3>2
  <2> QED BY <2>3, <2>4, <2>5
<1> QED BY <1>3, <1>9, <1>10, <1>11, <1>12

\* What a refund writes, for the units it takes back.
LEMMA RefundMoves ==
  ASSUME NEW o \in OrderSet, NEW i \in DOMAIN o.items, NEW qty \in Nat, NEW rate \in Nat,
         NEW s, s = RefundLines(o, i, qty, rate), NEW it, it = o.items[i],
         NEW value, value = Unit(it).price * qty
  PROVE  /\ value \in Nat /\ Percent(value, rate) \in Nat /\ Slice(o, value) \in Nat
         /\ AddsUp(BaseIn(Revenue), s, value)
         /\ AddsUp(BaseIn({"STONE_COGS"}), s, -(Unit(it).stone * qty))
         /\ AddsUp(BaseIn({"METAL_COGS"}), s, -Cost(it, qty))
         /\ \A k \in KaratSet : AddsUp(GramsIn("METAL_INVENTORY", k), s,
                                       IF Unit(it).karat = k THEN Unit(it).grams * qty ELSE 0)
         /\ AddsUp(BaseIn({"CASH"}), s, Slice(o, value) - value - Percent(value, rate))
<1>1. PICK tax, making, slice, cost, grams, stone :
        RefundShape(o, i, qty, rate, it, value, tax, making, slice, cost, grams, stone)
  <2>1. PICK jt, worth, tax, making, slice, cost, grams, stone :
          RefundShape(o, i, qty, rate, jt, worth, tax, making, slice, cost, grams, stone)
    BY RefundParts
  <2>2. jt = it /\ worth = value
    BY <2>1 DEF RefundShape
  <2> QED BY <2>1, <2>2
<1>2. /\ tax = Percent(value, rate) /\ making = Unit(it).making * qty /\ slice = Slice(o, value) /\ cost = Cost(it, qty)
      /\ grams = Unit(it).grams * qty /\ stone = -(Unit(it).stone * qty)
      /\ s = (((<<Usd("SALES_REVENUE", value - making), Usd("VAT_PAYABLE", tax)>>
                \o When(making > 0, Usd("MAKING_CHARGE_REVENUE", making)))
               \o <<Usd("CASH", slice - value - tax), Metal("METAL_INVENTORY", cost, grams, Unit(it).karat),
                    Metal("METAL_COGS", -cost, -grams, Unit(it).karat)>>)
              \o When(slice > 0, Usd("SALES_DISCOUNTS", -slice)))
             \o Stones(stone)
  BY <1>1 DEF RefundShape
<1>3. it.unit \in DOMAIN Catalogue /\ o.subtotal \in Nat /\ o.discount \in Nat
  <2>1. o.items \in Seq(ItemSet) /\ o.subtotal \in Nat /\ o.discount \in Nat
    BY DEF OrderSet
  <2>2. o.items[i] \in ItemSet
    BY <2>1
  <2> QED BY <2>1, <2>2 DEF ItemSet
<1>4. PICK k : k = Unit(it).karat /\ k \in KaratSet
  BY <1>3, UnitTypes
<1>5. value \in Nat /\ making \in Nat /\ grams \in Nat /\ cost \in Nat /\ stone \in Int
  <2>1. PICK p, q, g, t : p = Unit(it).price /\ q = Unit(it).making /\ g = Unit(it).grams /\ t = Unit(it).stone
    OBVIOUS
  <2>2. p \in Nat /\ q \in Nat /\ g \in Nat /\ t \in Nat
    BY <1>3, <2>1, UnitTypes
  <2>3. p * qty \in Nat /\ q * qty \in Nat /\ g * qty \in Nat /\ t * qty \in Nat
    BY <2>2, TimesNat
  <2>4. -(t * qty) \in Int
    BY <2>3
  <2> QED BY <1>2, <1>3, <2>1, <2>3, <2>4, CostNat
<1>6. tax \in Nat /\ slice \in Nat
  <2>1. tax \in Nat
    BY <1>2, <1>5, PercentNat
  <2>2. ASSUME o.subtotal > 0 PROVE HalfEven(o.discount * value, o.subtotal) \in Nat
    <3>1. PICK d, b : d = o.discount /\ b = o.subtotal
      OBVIOUS
    <3>2. d \in Nat /\ b \in Nat \ {0}
      BY <1>3, <2>2, <3>1
    <3>3. d * value \in Nat
      BY <1>5, <3>2, TimesNat
    <3> QED BY <3>1, <3>2, <3>3, RoundedNat
  <2> QED BY <1>2, <2>1, <2>2 DEF Slice
<1>7. PICK r \in Int, x \in Int, c \in Int, g \in Int, d \in Int :
        r = value - making /\ x = slice - value - tax /\ c = -cost /\ g = -grams /\ d = -slice /\ d + slice = 0
  BY <1>5, <1>6
<1>8. PICK l, m : l = Metal("METAL_INVENTORY", cost, grams, k) /\ m = Metal("METAL_COGS", c, g, k)
  OBVIOUS
<1>9. /\ l \in LineSet /\ m \in LineSet
      /\ \A A : /\ BaseIn(A)[l] = IF "METAL_INVENTORY" \in A THEN cost ELSE 0
                /\ BaseIn(A)[m] = IF "METAL_COGS" \in A THEN c ELSE 0
      /\ \A a, j : /\ GramsIn(a, j)[l] = IF a = "METAL_INVENTORY" /\ j = k THEN grams ELSE 0
                   /\ GramsIn(a, j)[m] = IF a = "METAL_COGS" /\ j = k THEN g ELSE 0
  <2>1. cost \in Int /\ grams \in Int
    BY <1>5
  <2> QED BY <1>4, <1>7, <1>8, <2>1, Chart, MetalLine, OfMetal
<1>10. ASSUME NEW f, Measure(f, LineSet), NEW A, Dollars(f, A),
              A \subseteq Revenue \cup {"STONE_COGS", "METAL_COGS", "CASH"}
       PROVE  AddsUp(f, s, (IF "SALES_REVENUE" \in A THEN r ELSE 0) + (IF "MAKING_CHARGE_REVENUE" \in A THEN making ELSE 0)
                             + ((IF "CASH" \in A THEN x ELSE 0) + f[l] + f[m])
                             + (IF "STONE_COGS" \in A THEN stone ELSE 0))
  <2>1. PICK H, B, M, D, E :
          /\ H = <<Usd("SALES_REVENUE", r), Usd("VAT_PAYABLE", tax)>>
          /\ B = When(making > 0, Usd("MAKING_CHARGE_REVENUE", making))
          /\ M = <<Usd("CASH", x), l, m>> /\ D = When(slice > 0, Usd("SALES_DISCOUNTS", d)) /\ E = Stones(stone)
    OBVIOUS
  <2>2. s = (((H \o B) \o M) \o D) \o E
    BY <1>2, <1>4, <1>7, <1>8, <2>1
  <2>3. "VAT_PAYABLE" \notin A /\ "SALES_DISCOUNTS" \notin A /\ "STONE_INVENTORY" \notin A
    BY <1>10 DEF Revenue
  <2>4. PICK p, q, u, v : /\ p = (IF "SALES_REVENUE" \in A THEN r ELSE 0)
                          /\ q = (IF "MAKING_CHARGE_REVENUE" \in A THEN making ELSE 0)
                          /\ u = (IF "CASH" \in A THEN x ELSE 0) /\ v = (IF "STONE_COGS" \in A THEN stone ELSE 0)
    OBVIOUS
  <2>5. p \in Int /\ q \in Int /\ u \in Int /\ v \in Int /\ f[l] \in Int /\ f[m] \in Int
    BY <1>5, <1>7, <1>9, <1>10, <2>4 DEF Measure
  <2>6. AddsUp(f, H, p)
    <3>1. PICK a, b : a = Usd("SALES_REVENUE", r) /\ b = Usd("VAT_PAYABLE", tax)
      OBVIOUS
    <3>2. a \in LineSet /\ b \in LineSet /\ f[a] = p /\ f[b] = 0
      BY <1>6, <1>7, <1>10, <2>3, <2>4, <3>1, Chart, UsdLine DEF Dollars
    <3>3. AddsUp(f, <<a, b>>, f[a] + f[b])
      BY <1>10, <3>2, AddsTwo
    <3>4. f[a] + f[b] = p
      BY <2>5, <3>2
    <3> QED BY <2>1, <3>1, <3>3, <3>4
  <2>7. AddsUp(f, B, q)
    <3>1. making \in Int /\ making \in Nat /\ (making = 0 => making = 0)
      BY <1>5
    <3>2. AddsUp(f, When(making > 0, Usd("MAKING_CHARGE_REVENUE", making)),
                 IF "MAKING_CHARGE_REVENUE" \in A THEN making ELSE 0)
      BY <1>10, <3>1, Chart, DollarAbove
    <3> QED BY <2>1, <2>4, <3>2
  <2>8. AddsUp(f, M, u + f[l] + f[m])
    <3>1. PICK a : a = Usd("CASH", x)
      OBVIOUS
    <3>2. a \in LineSet /\ f[a] = u
      BY <1>7, <1>10, <2>4, <3>1, Chart, UsdLine DEF Dollars
    <3>3. AddsUp(f, <<a, l, m>>, f[a] + f[l] + f[m])
      BY <1>9, <1>10, <3>2, AddsThree
    <3> QED BY <2>1, <3>1, <3>2, <3>3
  <2>9. AddsUp(f, D, 0)
    <3>1. d \in Int /\ d + slice = 0 /\ slice \in Nat
      BY <1>6, <1>7
    <3>4. slice = 0 => d = 0
      BY ONLY <3>1
    <3>2. AddsUp(f, When(slice > 0, Usd("SALES_DISCOUNTS", d)), IF "SALES_DISCOUNTS" \in A THEN d ELSE 0)
      BY <1>10, <3>1, <3>4, Chart, DollarAbove
    <3> QED BY <2>1, <2>3, <3>2
  <2>10. AddsUp(f, E, v)
    BY <1>5, <1>10, <2>1, <2>3, <2>4, StonesAdd
  <2>11. AddsUp(f, (H \o B) \o M, (p + q) + (u + f[l] + f[m]))
    BY <1>10, <2>6, <2>7, <2>8, AddsJoin
  <2>12. AddsUp(f, ((((H \o B) \o M) \o D) \o E), (((p + q) + (u + f[l] + f[m])) + 0) + v)
    BY <1>10, <2>9, <2>10, <2>11, AddsJoin
  <2>13. (((p + q) + (u + f[l] + f[m])) + 0) + v = p + q + (u + f[l] + f[m]) + v
    BY <2>5
  <2> QED BY <2>2, <2>4, <2>12, <2>13
<1>11. AddsUp(BaseIn(Revenue), s, value)
  <2>1. PICK f : f = BaseIn(Revenue)
    OBVIOUS
  <2>2. /\ "SALES_REVENUE" \in Revenue /\ "MAKING_CHARGE_REVENUE" \in Revenue /\ "CASH" \notin Revenue
        /\ "STONE_COGS" \notin Revenue /\ "METAL_INVENTORY" \notin Revenue /\ "METAL_COGS" \notin Revenue
    BY DEF Revenue
  <2>3. f[l] = 0 /\ f[m] = 0
    BY <1>9, <2>1, <2>2
  <2>4. AddsUp(f, s, r + making + (0 + f[l] + f[m]) + 0)
    BY <1>10, <2>1, <2>2, Measures, DollarsIs
  <2>5. r + making + (0 + f[l] + f[m]) + 0 = value
    BY <1>5, <1>7, <2>3
  <2> QED BY <2>1, <2>4, <2>5
<1>12. AddsUp(BaseIn({"STONE_COGS"}), s, stone)
  <2>1. PICK f, A : f = BaseIn(A) /\ A = {"STONE_COGS"}
    OBVIOUS
  <2>2. /\ "SALES_REVENUE" \notin A /\ "MAKING_CHARGE_REVENUE" \notin A /\ "CASH" \notin A
        /\ "STONE_COGS" \in A /\ "METAL_INVENTORY" \notin A /\ "METAL_COGS" \notin A
    BY <2>1
  <2>3. f[l] = 0 /\ f[m] = 0
    BY <1>9, <2>1, <2>2
  <2>4. AddsUp(f, s, 0 + 0 + (0 + f[l] + f[m]) + stone)
    BY <1>10, <2>1, <2>2, Measures, DollarsIs
  <2>5. 0 + 0 + (0 + f[l] + f[m]) + stone = stone
    BY <1>5, <2>3
  <2> QED BY <2>1, <2>4, <2>5
<1>13. AddsUp(BaseIn({"METAL_COGS"}), s, c)
  <2>1. PICK f, A : f = BaseIn(A) /\ A = {"METAL_COGS"}
    OBVIOUS
  <2>2. /\ "SALES_REVENUE" \notin A /\ "MAKING_CHARGE_REVENUE" \notin A /\ "CASH" \notin A
        /\ "STONE_COGS" \notin A /\ "METAL_INVENTORY" \notin A /\ "METAL_COGS" \in A
    BY <2>1
  <2>3. f[l] = 0 /\ f[m] = c
    BY <1>9, <2>1, <2>2
  <2>4. AddsUp(f, s, 0 + 0 + (0 + f[l] + f[m]) + 0)
    BY <1>10, <2>1, <2>2, Measures, DollarsIs
  <2>5. 0 + 0 + (0 + f[l] + f[m]) + 0 = c
    BY <1>7, <2>3
  <2> QED BY <2>1, <2>4, <2>5
<1>14. ASSUME NEW j \in KaratSet PROVE AddsUp(GramsIn("METAL_INVENTORY", j), s, IF k = j THEN grams ELSE 0)
  <2>1. PICK f, A : f = GramsIn("METAL_INVENTORY", j) /\ A = {}
    OBVIOUS
  <2>2. /\ "SALES_REVENUE" \notin A /\ "MAKING_CHARGE_REVENUE" \notin A /\ "CASH" \notin A
        /\ "STONE_COGS" \notin A /\ A \subseteq Revenue
    BY <2>1
  <2>3. f[l] = (IF k = j THEN grams ELSE 0) /\ f[m] = 0
    BY <1>9, <2>1
  <2>4. AddsUp(f, s, 0 + 0 + (0 + f[l] + f[m]) + 0)
    BY <1>10, <2>1, <2>2, Measures, DollarsIs
  <2>5. 0 + 0 + (0 + f[l] + f[m]) + 0 = IF k = j THEN grams ELSE 0
    BY <1>5, <2>3
  <2> QED BY <2>1, <2>4, <2>5
<1>15. AddsUp(BaseIn({"CASH"}), s, x)
  <2>1. PICK f, A : f = BaseIn(A) /\ A = {"CASH"}
    OBVIOUS
  <2>2. /\ "SALES_REVENUE" \notin A /\ "MAKING_CHARGE_REVENUE" \notin A /\ "CASH" \in A
        /\ "STONE_COGS" \notin A /\ "METAL_INVENTORY" \notin A /\ "METAL_COGS" \notin A
    BY <2>1
  <2>3. f[l] = 0 /\ f[m] = 0
    BY <1>9, <2>1, <2>2
  <2>4. AddsUp(f, s, 0 + 0 + (x + f[l] + f[m]) + 0)
    BY <1>10, <2>1, <2>2, Measures, DollarsIs
  <2>5. 0 + 0 + (x + f[l] + f[m]) + 0 = x
    BY <1>7, <2>3
  <2> QED BY <2>1, <2>4, <2>5
<1> QED BY <1>2, <1>4, <1>5, <1>6, <1>7, <1>11, <1>12, <1>13, <1>14, <1>15

\* The lines of the refund of `qty` of the line `it`, and what that is worth.
RefundOfLine(o, i, qty, rate, s, it, value) ==
  /\ o \in OrderSet /\ i \in DOMAIN o.items /\ qty \in Nat /\ rate \in Nat
  /\ s = RefundLines(o, i, qty, rate) /\ it = o.items[i] /\ value = Unit(it).price * qty
TakesBack(s, it, qty, value) ==
  /\ AddsUp(BaseIn(Revenue), s, value) /\ AddsUp(BaseIn({"STONE_COGS"}), s, -(Unit(it).stone * qty))
  /\ AddsUp(BaseIn({"METAL_COGS"}), s, -Cost(it, qty))
  /\ \A k \in KaratSet : AddsUp(GramsIn("METAL_INVENTORY", k), s, IF Unit(it).karat = k THEN Unit(it).grams * qty ELSE 0)
TakesCash(o, s, value, tax) ==
  /\ value \in Nat /\ tax \in Nat /\ Slice(o, value) \in Nat
  /\ AddsUp(BaseIn({"CASH"}), s, Slice(o, value) - value - tax)

\* What a refund writes on the accounts of the sale, and on the cash account.
LEMMA RefundCash ==
  ASSUME NEW o, NEW i, NEW qty, NEW rate, NEW s, NEW it, NEW value, RefundOfLine(o, i, qty, rate, s, it, value)
  PROVE  TakesBack(s, it, qty, value) /\ TakesCash(o, s, value, Percent(value, rate))
<1>1. /\ o \in OrderSet /\ i \in DOMAIN o.items /\ qty \in Nat /\ rate \in Nat
      /\ s = RefundLines(o, i, qty, rate) /\ it = o.items[i] /\ value = Unit(it).price * qty
  BY DEF RefundOfLine
<1>2. TakesBack(s, it, qty, value)
  BY <1>1, RefundMoves DEF TakesBack
<1>3. TakesCash(o, s, value, Percent(value, rate))
  BY <1>1, RefundMoves DEF TakesCash
<1> QED BY <1>2, <1>3

-----------------------------------------------------------------------------
(* What the documents about an order keep true of the books.                *)

\* The totals of an order, from what is left of its lines.
OrderSums(o) ==
  /\ o.subtotal = SumOver(PriceLeft, o.items)
  /\ o.total = o.subtotal + Percent(o.subtotal, o.vatPercent) - Percent(o.subtotal, o.percent)
  /\ o.discount = Percent(o.subtotal, o.percent)

\* Counts the refunds of an order.
RefundOf(n) == [e \in EntrySet |-> IF e.source = <<"ORDER_REFUND", n>> THEN 1 ELSE 0]
\* What the books say of an order is what is left of its lines.
LeftOver(n, o, j) ==
  /\ Moved(BaseIn(Revenue), About(n), j) + SumOver(PriceLeft, o.items) = 0
  /\ Moved(BaseIn({"STONE_COGS"}), About(n), j) = SumOver(StoneLeft, o.items)
  /\ Within(Moved(BaseIn({"METAL_COGS"}), About(n), j) - SumOver(CostLeft, o.items), SumOver(RefundOf(n), j))
  /\ \A k \in KaratSet :
       Moved(GramsIn("METAL_INVENTORY", k), About(n), j) + SumOver(GramsLeft(k), o.items) = 0

\* A measure that a reversal undoes.
Reverses(f) == Measure(f, LineSet) /\ \A l \in LineSet : f[Opposite(l)] + f[l] = 0
\* Nothing was written about an order but its sale.
AsSold(n, j) ==
  \A i \in DOMAIN j : j[i].source = <<"ORDER", n>> =>
    \A f : Reverses(f) => Moved(f, About(n), j) = SumOver(f, j[i].lines)
\* The sale was reversed.
Cancelled(n, j) == \E i \in DOMAIN j : j[i].source = <<"VOID", n>>

\* The books and the totals of an order, as long as its sale stands and after.
OrderKept(n, o, j) ==
  IF Cancelled(n, j)
  THEN o.status \in {"VOIDED", "REFUNDED"} /\ \A f : Reverses(f) => Moved(f, About(n), j) = 0
  ELSE OrderSums(o) /\ LeftOver(n, o, j) /\ (o.status = "COMPLETED" => AsSold(n, j))

\* Only documents about orders that are there are in the books.
NoOther(os, j) == \A i \in DOMAIN j, m \in Nat : j[i].source \in About(m) => m \in DOMAIN os
RefundsKept == NoOther(orders, journal) /\ \A n \in DOMAIN orders : OrderKept(n, orders[n], journal)
RefundsInv == PostingsInv /\ RefundsKept

\* The sums of the reports are undone by a reversal.
LEMMA ReversesIs == (\A A : Reverses(BaseIn(A))) /\ \A a, k : Reverses(GramsIn(a, k))
BY Measures, OppositeLine DEF Reverses

\* The documents of different orders, and of no order.
LEMMA AboutIs ==
  /\ \A s, n : <<s>> \notin About(n)
  /\ \A n, m, s : <<s, m>> \in About(n) => m = n
  /\ \A n : <<"ORDER", n>> \in About(n) /\ <<"ORDER_REFUND", n>> \in About(n) /\ <<"VOID", n>> \in About(n)
<1>1. \A s, t, n : <<s>> # <<t, n>>
  <2> SUFFICES ASSUME NEW s, NEW t, NEW n, <<s>> = <<t, n>> PROVE FALSE
    OBVIOUS
  <2>1. Len(<<s>>) = 1 /\ Len(<<t, n>>) = 2
    OBVIOUS
  <2> QED BY <2>1
<1>2. \A s, t, m, n : <<s, m>> = <<t, n>> => m = n
  OBVIOUS
<1> QED BY <1>1, <1>2 DEF About

\* The count of the refunds is a measure.
LEMMA RefundOfMeasure ==
  ASSUME NEW n
  PROVE  /\ Measure(RefundOf(n), EntrySet)
         /\ \A e \in EntrySet : RefundOf(n)[e] = IF e.source = <<"ORDER_REFUND", n>> THEN 1 ELSE 0
BY DEF RefundOf, Measure

\* A journal with one more entry.
LEMMA OneMore ==
  ASSUME NEW j \in Seq(EntrySet), NEW e \in EntrySet
  PROVE  /\ DOMAIN Append(j, e) = DOMAIN j \cup {Len(j) + 1} /\ Append(j, e)[Len(j) + 1] = e
         /\ \A i \in DOMAIN j : Append(j, e)[i] = j[i]
         /\ \A n : Cancelled(n, Append(j, e)) <=> (Cancelled(n, j) \/ e.source = <<"VOID", n>>)
         /\ \A n : SumOver(RefundOf(n), Append(j, e))
                     = SumOver(RefundOf(n), j) + (IF e.source = <<"ORDER_REFUND", n>> THEN 1 ELSE 0)
         /\ \A n : SumOver(RefundOf(n), j) \in Nat
<1>1. /\ DOMAIN Append(j, e) = DOMAIN j \cup {Len(j) + 1} /\ Append(j, e)[Len(j) + 1] = e
      /\ \A i \in DOMAIN j : Append(j, e)[i] = j[i]
  OBVIOUS
<1>2. \A n : Cancelled(n, Append(j, e)) <=> (Cancelled(n, j) \/ e.source = <<"VOID", n>>)
  BY <1>1 DEF Cancelled
<1>3. ASSUME NEW n
      PROVE  SumOver(RefundOf(n), Append(j, e)) = SumOver(RefundOf(n), j) + (IF e.source = <<"ORDER_REFUND", n>> THEN 1 ELSE 0)
  BY RefundOfMeasure, OverAppend
<1>4. ASSUME NEW n PROVE SumOver(RefundOf(n), j) \in Nat
  <2>1. \A x \in EntrySet : RefundOf(n)[x] \in Nat
    BY RefundOfMeasure
  <2> QED BY <2>1, OverNat
<1> QED BY <1>1, <1>2, <1>3, <1>4

\* The entry of another document changes nothing for an order.
LEMMA KeptElsewhere ==
  ASSUME NEW j \in Seq(EntrySet), NEW e \in EntrySet, NEW n, NEW o, e.source \notin About(n), OrderKept(n, o, j)
  PROVE  OrderKept(n, o, Append(j, e))
<1>1. PICK t : t = Append(j, e)
  OBVIOUS
<1>2. e.source # <<"VOID", n>> /\ e.source # <<"ORDER", n>> /\ e.source # <<"ORDER_REFUND", n>>
  BY AboutIs
<1>3. Cancelled(n, t) <=> Cancelled(n, j)
  BY <1>1, <1>2, OneMore
<1>4. \A f : Measure(f, LineSet) => Moved(f, About(n), t) = Moved(f, About(n), j)
  BY <1>1, MovedAppend
<1>5. SumOver(RefundOf(n), t) = SumOver(RefundOf(n), j)
  <2>1. PICK r : r = SumOver(RefundOf(n), j)
    OBVIOUS
  <2>2. r \in Nat /\ SumOver(RefundOf(n), t) = r + 0
    BY <1>1, <1>2, <2>1, OneMore
  <2> QED BY <2>1, <2>2
<1>6. AsSold(n, j) => AsSold(n, t)
  <2> SUFFICES ASSUME AsSold(n, j), NEW i \in DOMAIN t, t[i].source = <<"ORDER", n>>, NEW f, Reverses(f)
               PROVE  Moved(f, About(n), t) = SumOver(f, t[i].lines)
    BY DEF AsSold
  <2>1. i \in DOMAIN j /\ t[i] = j[i]
    BY <1>1, <1>2, OneMore
  <2>2. Moved(f, About(n), j) = SumOver(f, j[i].lines)
    BY <2>1 DEF AsSold
  <2> QED BY <1>4, <2>1, <2>2 DEF Reverses
<1>7. LeftOver(n, o, j) => LeftOver(n, o, t)
  BY <1>4, <1>5, Measures DEF LeftOver
<1>8. (\A f : Reverses(f) => Moved(f, About(n), j) = 0) => (\A f : Reverses(f) => Moved(f, About(n), t) = 0)
  BY <1>4 DEF Reverses
<1> QED BY <1>1, <1>3, <1>6, <1>7, <1>8 DEF OrderKept

\* An order after a refund: its lines, and its totals from what is left of them.
LEMMA RefundedIs ==
  ASSUME NEW o \in OrderSet, NEW i \in DOMAIN o.items, NEW qty \in 1..(o.items[i].qty - o.items[i].refunded),
         NEW rate \in VatRates, NEW left, left = Refunded(o, i, qty, rate)
  PROVE  /\ left \in OrderSet /\ left.status # "COMPLETED" /\ OrderSums(left) /\ i \in DOMAIN left.items
         /\ left.items = [o.items EXCEPT ![i] = [o.items[i] EXCEPT !.refunded = @ + qty]]
         /\ left.percent = o.percent /\ left.vatPercent = o.vatPercent
         /\ left.handed = o.handed + o.total - left.total
         /\ left.retaxed = (o.retaxed \/ rate # o.vatPercent)
<1>1. left \in OrderSet /\ left.status # "COMPLETED" /\ i \in DOMAIN left.items
  BY RefundedType
<1>2. PICK items : items = [o.items EXCEPT ![i].refunded = @ + qty]
  OBVIOUS
<1>3. PICK s, t, d : s = Remaining(items) /\ t = Percent(s, o.vatPercent) /\ d = Percent(s, o.percent)
  OBVIOUS
<1>4. PICK n, h, b, st :
        /\ n = s + t - d /\ h = o.handed + o.total - n /\ b = (o.retaxed \/ rate # o.vatPercent)
        /\ st = IF \A j \in DOMAIN items : items[j].refunded >= items[j].qty THEN "REFUNDED" ELSE "PARTIALLY_REFUNDED"
  OBVIOUS
<1>5. left = [o EXCEPT !.items = items, !.subtotal = s, !.vat = t, !.discount = d, !.total = n,
                       !.handed = h, !.retaxed = b, !.status = st]
  <2>1. Refunded(o, i, qty, rate) =
        [o EXCEPT !.items = items, !.subtotal = s, !.vat = t, !.discount = d, !.total = n,
                  !.handed = o.handed + o.total - n, !.retaxed = (o.retaxed \/ rate # o.vatPercent), !.status = st]
    BY <1>2, <1>3, <1>4 DEF Refunded
  <2> QED BY <1>4, <2>1
<1>6. o = [pay |-> o.pay, status |-> o.status, vatPercent |-> o.vatPercent, percent |-> o.percent, items |-> o.items,
           subtotal |-> o.subtotal, vat |-> o.vat, discount |-> o.discount, total |-> o.total,
           handed |-> o.handed, retaxed |-> o.retaxed]
  BY DEF OrderSet
<1>7. /\ left.items = items /\ left.subtotal = s /\ left.discount = d /\ left.total = n /\ left.handed = h
      /\ left.retaxed = b /\ left.percent = o.percent /\ left.vatPercent = o.vatPercent
  BY ONLY <1>5, <1>6
<1>9. items = [o.items EXCEPT ![i] = [o.items[i] EXCEPT !.refunded = @ + qty]]
  BY <1>2
<1>10. items \in Seq(ItemSet)
  BY <1>1, <1>7 DEF OrderSet
<1>11. s = SumOver(PriceLeft, items)
  BY <1>3, <1>10, LeftTotals
<1>12. OrderSums(left)
  BY <1>3, <1>4, <1>7, <1>11 DEF OrderSums
<1> QED BY <1>1, <1>4, <1>7, <1>9, <1>12

\* A refund takes out of the books what it takes off the order.
LEMMA RefundLeaves ==
  ASSUME NEW j \in Seq(EntrySet), NEW e \in EntrySet, NEW n, NEW o \in OrderSet, NEW i \in DOMAIN o.items,
         NEW qty \in 1..(o.items[i].qty - o.items[i].refunded), NEW rate \in VatRates,
         NEW left, left = Refunded(o, i, qty, rate),
         e.source = <<"ORDER_REFUND", n>>, e.lines = RefundLines(left, i, qty, rate),
         ~Cancelled(n, j), OrderKept(n, o, j)
  PROVE  OrderKept(n, left, Append(j, e))
<1>1. PICK t, s : t = Append(j, e) /\ s = e.lines
  OBVIOUS
<1>2. /\ left \in OrderSet /\ left.status # "COMPLETED" /\ OrderSums(left) /\ i \in DOMAIN left.items
      /\ o.items \in Seq(ItemSet)
  <2>1. o.items \in Seq(ItemSet)
    BY DEF OrderSet
  <2>2. left \in OrderSet /\ left.status # "COMPLETED" /\ i \in DOMAIN left.items
    BY RefundedType
  <2>3. OrderSums(left)
    BY RefundedIs
  <2> QED BY <2>1, <2>2, <2>3
<1>3. PICK it, m : it = o.items[i] /\ m = [it EXCEPT !.refunded = @ + qty] /\ left.items = [o.items EXCEPT ![i] = m]
  <2>1. left.items = [o.items EXCEPT ![i] = [o.items[i] EXCEPT !.refunded = @ + qty]]
    BY RefundedIs
  <2> QED BY <2>1
<1>4. it \in ItemSet /\ left.items[i] = m
  BY <1>2, <1>3
<1>5. /\ m \in ItemSet /\ qty \in Nat /\ m.unit = it.unit
      /\ PriceLeft[m] = PriceLeft[it] - Unit(it).price * qty
      /\ StoneLeft[m] = StoneLeft[it] - Unit(it).stone * qty
      /\ \A k \in KaratSet : GramsLeft(k)[m] = GramsLeft(k)[it] - (IF Unit(it).karat = k THEN Unit(it).grams * qty ELSE 0)
      /\ Within(CostLeft[it] - CostLeft[m] - Cost(it, qty), 1)
  <2>1. qty \in 1..(it.qty - it.refunded)
    BY <1>3
  <2> QED BY <1>3, <1>4, <2>1, LeftTakes
<1>6. rate \in Nat
  <2>1. rate \in 0..100
    BY RateAssumption
  <2> QED BY <2>1
<1>7. Unit(m) = Unit(it) /\ \A x : Cost(m, x) = Cost(it, x)
  BY <1>5 DEF Unit, Cost
<1>8. PICK v, w, c : v = Unit(it).price * qty /\ w = Unit(it).stone * qty /\ c = Cost(it, qty)
  OBVIOUS
<1>9. /\ AddsUp(BaseIn(Revenue), s, v) /\ AddsUp(BaseIn({"STONE_COGS"}), s, -w)
      /\ AddsUp(BaseIn({"METAL_COGS"}), s, -c)
      /\ \A k \in KaratSet : AddsUp(GramsIn("METAL_INVENTORY", k), s, IF Unit(it).karat = k THEN Unit(it).grams * qty ELSE 0)
  <2>1. /\ AddsUp(BaseIn(Revenue), s, Unit(m).price * qty) /\ AddsUp(BaseIn({"STONE_COGS"}), s, -(Unit(m).stone * qty))
        /\ AddsUp(BaseIn({"METAL_COGS"}), s, -Cost(m, qty))
        /\ \A k \in KaratSet : AddsUp(GramsIn("METAL_INVENTORY", k), s, IF Unit(m).karat = k THEN Unit(m).grams * qty ELSE 0)
    <3>1. PICK u : u = Unit(m).price * qty
      OBVIOUS
    <3>2. RefundOfLine(left, i, qty, rate, s, m, u)
      BY <1>1, <1>2, <1>4, <1>5, <1>6, <3>1 DEF RefundOfLine
    <3>3. TakesBack(s, m, qty, u)
      BY ONLY <3>2, RefundCash
    <3> QED BY <3>1, <3>3 DEF TakesBack
  <2> QED BY <1>7, <1>8, <2>1
<1>10. v \in Nat /\ w \in Nat /\ c \in Nat
  <2>1. PICK p, q : p = Unit(it).price /\ q = Unit(it).stone
    OBVIOUS
  <2>2. it.unit \in DOMAIN Catalogue
    BY <1>4 DEF ItemSet
  <2>3. p \in Nat /\ q \in Nat
    BY <2>1, <2>2, UnitTypes
  <2> QED BY <1>5, <1>8, <2>1, <2>2, <2>3, TimesNat, CostNat
<1>11. ASSUME NEW f, Measure(f, ItemSet)
       PROVE  /\ SumOver(f, left.items) = (SumOver(f, o.items) - f[it]) + f[m]
              /\ SumOver(f, o.items) \in Int /\ f[it] \in Int /\ f[m] \in Int
  <2>1. SumOver(f, o.items) \in Int
    BY <1>2, <1>11, OverType
  <2>2. SumOver(f, left.items) = (SumOver(f, o.items) - f[o.items[i]]) + f[m]
    <3>1. PICK u : u = o.items
      OBVIOUS
    <3>2. /\ u \in Seq(ItemSet) /\ i \in DOMAIN u /\ m \in ItemSet /\ Measure(f, ItemSet)
          /\ left.items = [u EXCEPT ![i] = m]
      BY <1>2, <1>3, <1>5, <1>11, <3>1
    <3>3. SumOver(f, left.items) = (SumOver(f, u) - f[u[i]]) + f[m]
      BY ONLY <3>2, OverExcept
    <3> QED BY <3>1, <3>3
  <2> QED BY <1>3, <1>4, <1>5, <1>11, <2>1, <2>2 DEF Measure
<1>12. ASSUME NEW f, NEW a, Measure(f, LineSet), AddsUp(f, s, a)
       PROVE  /\ Moved(f, About(n), t) = Moved(f, About(n), j) + a
              /\ Moved(f, About(n), j) \in Int /\ a \in Int
  <2>1. Moved(f, About(n), j) \in Int
    BY <1>12, MovedType
  <2>3. e.source \in About(n)
    BY AboutIs
  <2>2. Moved(f, About(n), t) = Moved(f, About(n), j) + SumOver(f, s)
    BY <1>1, <1>12, <2>3, MovedAppend
  <2> QED BY <1>12, <2>1, <2>2 DEF AddsUp
<1>13. LeftOver(n, o, j)
  BY DEF OrderKept
<1>14. Moved(BaseIn(Revenue), About(n), t) + SumOver(PriceLeft, left.items) = 0
  <2>1. PICK x, y, p, q, g, h : /\ x = Moved(BaseIn(Revenue), About(n), j) /\ y = Moved(BaseIn(Revenue), About(n), t)
                                /\ p = SumOver(PriceLeft, o.items) /\ q = SumOver(PriceLeft, left.items)
                                /\ g = PriceLeft[it] /\ h = PriceLeft[m]
    OBVIOUS
  <2>2. y = x + v /\ x \in Int
    BY <1>9, <1>12, <2>1, Measures
  <2>3. q = (p - g) + h /\ p \in Int /\ g \in Int /\ h \in Int
    BY <1>11, <2>1, LeftMeasures
  <2>4. x + p = 0 /\ h = g - v
    BY <1>5, <1>8, <1>13, <2>1 DEF LeftOver
  <2>5. y + q = 0
    BY ONLY <1>10, <2>2, <2>3, <2>4
  <2> QED BY <2>1, <2>5
<1>15. Moved(BaseIn({"STONE_COGS"}), About(n), t) = SumOver(StoneLeft, left.items)
  <2>1. PICK x, y, p, q, g, h, u :
          /\ x = Moved(BaseIn({"STONE_COGS"}), About(n), j) /\ y = Moved(BaseIn({"STONE_COGS"}), About(n), t)
          /\ p = SumOver(StoneLeft, o.items) /\ q = SumOver(StoneLeft, left.items)
          /\ g = StoneLeft[it] /\ h = StoneLeft[m] /\ u = -w
    OBVIOUS
  <2>2. y = x + u /\ x \in Int
    BY <1>9, <1>12, <2>1, Measures
  <2>3. q = (p - g) + h /\ p \in Int /\ g \in Int /\ h \in Int
    BY <1>11, <2>1, LeftMeasures
  <2>4. x = p /\ h = g - w /\ u = -w
    BY <1>5, <1>8, <1>13, <2>1 DEF LeftOver
  <2>5. y = q
    BY ONLY <1>10, <2>2, <2>3, <2>4
  <2> QED BY <2>1, <2>5
<1>16. Within(Moved(BaseIn({"METAL_COGS"}), About(n), t) - SumOver(CostLeft, left.items), SumOver(RefundOf(n), t))
  <2>1. PICK x, y, p, q, g, h, u, r :
          /\ x = Moved(BaseIn({"METAL_COGS"}), About(n), j) /\ y = Moved(BaseIn({"METAL_COGS"}), About(n), t)
          /\ p = SumOver(CostLeft, o.items) /\ q = SumOver(CostLeft, left.items)
          /\ g = CostLeft[it] /\ h = CostLeft[m] /\ u = -c /\ r = SumOver(RefundOf(n), j)
    OBVIOUS
  <2>2. y = x + u /\ x \in Int
    BY <1>9, <1>12, <2>1, Measures
  <2>3. q = (p - g) + h /\ p \in Int /\ g \in Int /\ h \in Int
    BY <1>11, <2>1, LeftMeasures
  <2>4. Within(x - p, r) /\ Within(g - h - c, 1) /\ u = -c
    BY <1>5, <1>8, <1>13, <2>1 DEF LeftOver
  <2>5. r \in Nat /\ SumOver(RefundOf(n), t) = r + 1
    BY <1>1, <2>1, OneMore
  <2>6. Within(y - q, r + 1)
    <3>1. r \in Nat /\ c \in Nat
      BY <1>10, <2>5
    <3>2. PICK a \in Int, b \in Int : a = x - p /\ b = g - h - c
      BY ONLY <2>2, <2>3, <3>1
    <3>3. -r <= a /\ a <= r /\ -1 <= b /\ b <= 1
      BY <2>4, <3>2 DEF Within
    <3>4. y - q = a + b
      BY ONLY <2>2, <2>3, <2>4, <3>1, <3>2
    <3>5. -(r + 1) <= a + b /\ a + b <= r + 1
      BY ONLY <3>1, <3>2, <3>3
    <3> QED BY <3>4, <3>5 DEF Within
  <2> QED BY <2>1, <2>5, <2>6
<1>17. ASSUME NEW k \in KaratSet PROVE Moved(GramsIn("METAL_INVENTORY", k), About(n), t) + SumOver(GramsLeft(k), left.items) = 0
  <2>1. PICK x, y, p, q, g, h, u :
          /\ x = Moved(GramsIn("METAL_INVENTORY", k), About(n), j) /\ y = Moved(GramsIn("METAL_INVENTORY", k), About(n), t)
          /\ p = SumOver(GramsLeft(k), o.items) /\ q = SumOver(GramsLeft(k), left.items)
          /\ g = GramsLeft(k)[it] /\ h = GramsLeft(k)[m] /\ u = IF Unit(it).karat = k THEN Unit(it).grams * qty ELSE 0
    OBVIOUS
  <2>2. y = x + u /\ x \in Int /\ u \in Int
    BY <1>9, <1>12, <2>1, Measures
  <2>3. q = (p - g) + h /\ p \in Int /\ g \in Int /\ h \in Int
    BY <1>11, <2>1, LeftMeasures
  <2>4. x + p = 0 /\ h = g - u
    BY <1>5, <1>13, <2>1 DEF LeftOver
  <2>5. y + q = 0
    BY ONLY <2>2, <2>3, <2>4
  <2> QED BY <2>1, <2>5
<1>18. ~Cancelled(n, t)
  <2>1. e.source # <<"VOID", n>>
    OBVIOUS
  <2> QED BY <1>1, <2>1, OneMore
<1> QED BY <1>1, <1>2, <1>14, <1>15, <1>16, <1>17, <1>18 DEF OrderKept, LeftOver

\* A void takes out of the books all that the sale wrote.
LEMMA UndoLeaves ==
  ASSUME NEW j \in Seq(EntrySet), NEW e \in EntrySet, NEW n, NEW i \in DOMAIN j, j[i].source = <<"ORDER", n>>,
         e.source = <<"VOID", n>>, e.lines = Negated(j[i].lines), AsSold(n, j),
         NEW left, left.status \in {"VOIDED", "REFUNDED"}
  PROVE  OrderKept(n, left, Append(j, e))
<1>1. PICK t : t = Append(j, e)
  OBVIOUS
<1>2. Cancelled(n, t)
  BY <1>1, OneMore
<1>3. ASSUME NEW f, Reverses(f) PROVE Moved(f, About(n), t) = 0
  <2>1. PICK x, y, z : x = Moved(f, About(n), j) /\ y = SumOver(f, j[i].lines) /\ z = SumOver(f, e.lines)
    OBVIOUS
  <2>2. x = y
    BY <1>3, <2>1 DEF AsSold
  <2>3. Measure(f, LineSet) /\ \A l \in LineSet : f[Opposite(l)] + f[l] = 0
    BY <1>3 DEF Reverses
  <2>4. j[i].lines \in Seq(LineSet)
    <3>1. j[i] \in EntrySet
      OBVIOUS
    <3> QED BY <3>1 DEF EntrySet
  <2>5. z + y = 0
    BY <2>1, <2>3, <2>4, NegatedAdds
  <2>6. x \in Int
    BY <2>1, <2>3, MovedType
  <2>7. e.lines \in Seq(LineSet)
    BY DEF EntrySet
  <2>8. z \in Int
    BY <2>1, <2>3, <2>7, OverType
  <2>9. e.source \in About(n)
    BY AboutIs
  <2>10. Moved(f, About(n), t) = x + z
    BY <1>1, <2>1, <2>3, <2>9, MovedAppend
  <2>11. x + z = 0
    BY ONLY <2>2, <2>5, <2>6, <2>8
  <2> QED BY <2>10, <2>11
<1> QED BY <1>1, <1>2, <1>3 DEF OrderKept

\* An order as it is made: whole, with its totals.
LEMMA NewOrderIs ==
  ASSUME NEW cart \in Carts, NEW pay \in Tills, NEW percent \in Discounts, NEW rate \in VatRates, NEW o,
         o = NewOrder(cart, pay, percent, rate)
  PROVE  o \in OrderSet /\ Whole(o.items) /\ OrderSums(o)
<1>1. o \in OrderSet
  BY NewOrderType
<1>2. PICK subtotal, items :
        /\ subtotal = Total(cart, LAMBDA it : Unit(it).price * it.qty)
        /\ items = [i \in DOMAIN cart |-> [unit |-> cart[i].unit, qty |-> cart[i].qty, refunded |-> 0]]
  OBVIOUS
<1>3. PICK tax, discount : tax = Percent(subtotal, rate) /\ discount = Percent(subtotal, percent)
  OBVIOUS
<1>4. o = [pay |-> pay, status |-> "COMPLETED", vatPercent |-> rate, percent |-> percent,
           items |-> items, subtotal |-> subtotal, vat |-> tax, discount |-> discount,
           total |-> subtotal + tax - discount, handed |-> 0, retaxed |-> FALSE]
  BY <1>2, <1>3 DEF NewOrder
<1>5. Whole(o.items)
  <2>1. \A i \in DOMAIN items : items[i].refunded = 0
    BY <1>2
  <2>2. o.items = items
    BY ONLY <1>4
  <2> QED BY <2>1, <2>2 DEF Whole
<1>6. subtotal = SumOver(PriceLeft, items)
  <2>1. items \in Seq(ItemSet)
    BY <1>1, <1>4 DEF OrderSet
  <2>2. DOMAIN items = DOMAIN cart /\ Len(items) = Len(cart)
    <3>1. cart \in Seq([unit : DOMAIN Catalogue, qty : Nat])
      BY SaleAssumption
    <3>2. PICK k : k = Len(cart) /\ k \in Nat /\ DOMAIN cart = 1..k
      BY <3>1
    <3>3. DOMAIN items = 1..k
      BY <1>2, <3>2
    <3>4. Len(items) = k
      BY <2>1, <3>2, <3>3
    <3> QED BY <3>2, <3>3, <3>4
  <2>3. ASSUME NEW i \in DOMAIN cart PROVE PriceLeft[items[i]] = Unit(cart[i]).price * cart[i].qty
    <3>1. items[i] \in ItemSet
      BY <2>1, <2>2
    <3>2. items[i].unit = cart[i].unit /\ items[i].qty = cart[i].qty /\ items[i].refunded = 0
      BY <1>2
    <3>3. items[i].qty \in Nat
      BY <3>1 DEF ItemSet
    <3>4. items[i].qty - items[i].refunded = cart[i].qty
      BY <3>2, <3>3
    <3>5. Unit(items[i]) = Unit(cart[i])
      BY <3>2 DEF Unit
    <3> QED BY <3>1, <3>4, <3>5 DEF PriceLeft
  <2>4. [i \in DOMAIN items |-> PriceLeft[items[i]]] = [i \in DOMAIN cart |-> Unit(cart[i]).price * cart[i].qty]
    BY <2>2, <2>3
  <2> QED BY <1>2, <2>2, <2>4 DEF Total, SumOver
<1>7. /\ o.items = items /\ o.subtotal = subtotal /\ o.discount = discount /\ o.total = subtotal + tax - discount
      /\ o.vatPercent = rate /\ o.percent = percent
  BY ONLY <1>4
<1> QED BY <1>1, <1>3, <1>5, <1>6, <1>7 DEF OrderSums

\* A sale writes what is left of its lines, which is all of them.
LEMMA SaleLeaves ==
  ASSUME NEW j \in Seq(EntrySet), NEW e \in EntrySet, NEW n, \A i \in DOMAIN j : j[i].source \notin About(n),
         NEW o \in OrderSet, Whole(o.items), OrderSums(o), e.source = <<"ORDER", n>>, e.lines = SaleLines(o)
  PROVE  OrderKept(n, o, Append(j, e))
<1>1. PICK t, s : t = Append(j, e) /\ s = e.lines
  OBVIOUS
<1>2. e.source \in About(n)
  BY AboutIs
<1>3. ASSUME NEW f, Measure(f, LineSet) PROVE Moved(f, About(n), t) = SumOver(f, s)
  <2>1. Moved(f, About(n), j) = 0
    BY <1>3, MovedNothing
  <2>2. s \in Seq(LineSet)
    BY <1>1 DEF EntrySet
  <2>3. SumOver(f, s) \in Int
    BY <1>3, <2>2, OverType
  <2>4. Moved(f, About(n), t) = 0 + SumOver(f, s)
    BY <1>1, <1>2, <1>3, <2>1, MovedAppend
  <2> QED BY <2>3, <2>4
<1>4. ~Cancelled(n, t)
  <2>1. ~Cancelled(n, j)
    BY AboutIs DEF Cancelled
  <2>2. e.source # <<"VOID", n>>
    OBVIOUS
  <2> QED BY <1>1, <2>1, <2>2, OneMore
<1>5. AsSold(n, t)
  <2> SUFFICES ASSUME NEW i \in DOMAIN t, t[i].source = <<"ORDER", n>>, NEW f, Reverses(f)
               PROVE  Moved(f, About(n), t) = SumOver(f, t[i].lines)
    BY DEF AsSold
  <2>1. i = Len(j) + 1
    <3>1. ASSUME i \in DOMAIN j PROVE FALSE
      <4>1. j[i].source = <<"ORDER", n>>
        BY <1>1, <3>1, OneMore
      <4> QED BY <3>1, <4>1, AboutIs
    <3> QED BY <1>1, <3>1, OneMore
  <2>2. t[i] = e
    BY <1>1, <2>1, OneMore
  <2> QED BY <1>1, <1>3, <2>2 DEF Reverses
<1>6. /\ AddsUp(BaseIn(Revenue), s, -o.subtotal)
      /\ AddsUp(BaseIn({"STONE_COGS"}), s, SumOver(StoneLeft, o.items))
      /\ AddsUp(BaseIn({"METAL_COGS"}), s, SumOver(CostLeft, o.items))
      /\ \A k \in KaratSet : AddsUp(GramsIn("METAL_INVENTORY", k), s, -SumOver(GramsLeft(k), o.items))
  BY <1>1, SaleMoves
<1>7. /\ Moved(BaseIn(Revenue), About(n), t) = -o.subtotal
      /\ Moved(BaseIn({"STONE_COGS"}), About(n), t) = SumOver(StoneLeft, o.items)
      /\ Moved(BaseIn({"METAL_COGS"}), About(n), t) = SumOver(CostLeft, o.items)
      /\ \A k \in KaratSet : Moved(GramsIn("METAL_INVENTORY", k), About(n), t) = -SumOver(GramsLeft(k), o.items)
  BY <1>3, <1>6, Measures DEF AddsUp
<1>8. o.items \in Seq(ItemSet) /\ o.subtotal \in Nat /\ o.subtotal = SumOver(PriceLeft, o.items)
  BY DEF OrderSet, OrderSums
<1>9. Moved(BaseIn(Revenue), About(n), t) + SumOver(PriceLeft, o.items) = 0
  BY <1>7, <1>8
<1>10. ASSUME NEW k \in KaratSet PROVE Moved(GramsIn("METAL_INVENTORY", k), About(n), t) + SumOver(GramsLeft(k), o.items) = 0
  <2>1. PICK x, y : x = Moved(GramsIn("METAL_INVENTORY", k), About(n), t) /\ y = SumOver(GramsLeft(k), o.items)
    OBVIOUS
  <2>2. y \in Int
    BY <1>8, <2>1, LeftMeasures, OverType
  <2>3. x = -y
    BY <1>7, <2>1
  <2>4. x + y = 0
    BY ONLY <2>2, <2>3
  <2> QED BY <2>1, <2>4
<1>11. Within(Moved(BaseIn({"METAL_COGS"}), About(n), t) - SumOver(CostLeft, o.items), SumOver(RefundOf(n), t))
  <2>1. PICK x, r : x = SumOver(CostLeft, o.items) /\ r = SumOver(RefundOf(n), t)
    OBVIOUS
  <2>2. x \in Int
    BY <1>8, <2>1, LeftMeasures, OverType
  <2>3. r \in Nat
    <3>1. t \in Seq(EntrySet)
      BY <1>1
    <3> QED BY <2>1, <3>1, OneMore
  <2>4. Within(x - x, r)
    BY ONLY <2>2, <2>3 DEF Within
  <2> QED BY <1>7, <2>1, <2>4
<1> QED BY <1>1, <1>4, <1>5, <1>7, <1>9, <1>10, <1>11 DEF OrderKept, LeftOver

-----------------------------------------------------------------------------
(* Every step keeps it.                                                     *)

\* A document is let in and leaves an entry, or nothing.
LEMMA PostMade ==
  ASSUME PostingsInv', NEW source, NEW lines, NEW os, NEW ow, NEW bs, NEW cs, Post(source, lines, os, ow, bs, cs)
  PROVE  \/ UNCHANGED <<journal, orders>>
         \/ /\ orders' = os
            /\ \E e \in EntrySet : e.source = source /\ e.lines = lines /\ journal' = Append(journal, e)
<1>1. CASE Valid(lines)
  <2>1. PICK e : e = [day |-> today, source |-> source, lines |-> lines]
    OBVIOUS
  <2>2. e.source = source /\ e.lines = lines
    BY <2>1
  <2>3. journal' = Append(journal, e) /\ orders' = os
    BY <1>1, <2>1 DEF Post
  <2>4. journal' \in Seq(EntrySet)
    BY DEF PostingsInv, PostingsTyped, Balanced
  <2>5. journal'[Len(journal')] = e /\ Len(journal') \in 1..Len(journal')
    BY <2>3, <2>4
  <2>6. e \in EntrySet
    BY <2>4, <2>5
  <2> QED BY <2>2, <2>3, <2>6
<1>2. CASE ~Valid(lines)
  BY <1>2, PostRefused
<1> QED BY <1>1, <1>2

\* A document that is not about an order.
LEMMA OtherRefunds ==
  ASSUME RefundsInv, PostingsInv', NEW s, NEW lines, NEW ow, NEW bs, NEW cs, Post(<<s>>, lines, orders, ow, bs, cs)
  PROVE  RefundsKept'
<1>1. CASE UNCHANGED <<journal, orders>>
  BY <1>1 DEF RefundsInv, RefundsKept
<1>2. CASE \E e \in EntrySet : e.source = <<s>> /\ journal' = Append(journal, e) /\ orders' = orders
  <2>1. PICK e \in EntrySet : e.source = <<s>> /\ journal' = Append(journal, e) /\ orders' = orders
    BY <1>2
  <2>2. journal \in Seq(EntrySet)
    BY DEF RefundsInv, PostingsInv, PostingsTyped, Balanced
  <2>3. NoOther(orders, journal')
    <3> SUFFICES ASSUME NEW i \in DOMAIN journal', NEW m \in Nat, journal'[i].source \in About(m) PROVE m \in DOMAIN orders
      BY DEF NoOther
    <3>1. i \in DOMAIN journal /\ journal'[i] = journal[i]
      BY <2>1, <2>2, OneMore, AboutIs
    <3> QED BY <3>1 DEF RefundsInv, RefundsKept, NoOther
  <2>4. ASSUME NEW n \in DOMAIN orders PROVE OrderKept(n, orders[n], journal')
    <3>1. OrderKept(n, orders[n], journal)
      BY DEF RefundsInv, RefundsKept
    <3>2. e.source \notin About(n)
      BY <2>1, AboutIs
    <3> QED BY <2>1, <2>2, <3>1, <3>2, KeptElsewhere
  <2> QED BY <2>1, <2>3, <2>4 DEF RefundsKept
<1> QED BY <1>1, <1>2, PostMade

\* An order that is there already: refunded or undone.
LEMMA SameOrders ==
  ASSUME RefundsInv, PostingsInv', NEW n \in DOMAIN orders, NEW source \in About(n), NEW e \in EntrySet, e.source = source,
         journal' = Append(journal, e), NEW left, orders' = [orders EXCEPT ![n] = left],
         OrderKept(n, left, journal')
  PROVE  RefundsKept'
<1>1. journal \in Seq(EntrySet) /\ orders \in Seq(OrderSet) /\ n \in Nat
  BY DEF RefundsInv, PostingsInv, PostingsTyped, Balanced
<1>2. /\ DOMAIN orders' = DOMAIN orders /\ orders'[n] = left
      /\ \A m \in DOMAIN orders \ {n} : orders'[m] = orders[m]
  BY <1>1
<1>3. NoOther(orders', journal')
  <2> SUFFICES ASSUME NEW i \in DOMAIN journal', NEW m \in Nat, journal'[i].source \in About(m) PROVE m \in DOMAIN orders'
    BY DEF NoOther
  <2>1. CASE i \in DOMAIN journal
    <3>1. journal'[i] = journal[i]
      BY <1>1, <2>1, OneMore
    <3> QED BY <1>2, <2>1, <3>1 DEF RefundsInv, RefundsKept, NoOther
  <2>2. CASE i \notin DOMAIN journal
    <3>1. journal'[i] = e
      BY <1>1, <2>2, OneMore
    <3>2. m = n
      BY <3>1, AboutIs DEF About
    <3> QED BY <1>2, <3>2
  <2> QED BY <2>1, <2>2
<1>4. ASSUME NEW m \in DOMAIN orders' PROVE OrderKept(m, orders'[m], journal')
  <2>1. CASE m = n
    BY <1>2, <2>1
  <2>2. CASE m # n
    <3>1. OrderKept(m, orders[m], journal) /\ orders'[m] = orders[m]
      BY <1>2, <2>2 DEF RefundsInv, RefundsKept
    <3>2. e.source \notin About(m)
      BY <2>2, AboutIs DEF About
    <3> QED BY <1>1, <3>1, <3>2, KeptElsewhere
  <2> QED BY <2>1, <2>2
<1> QED BY <1>3, <1>4 DEF RefundsKept

\* POST /orders/{id}/items/{id}/refund.
LEMMA RefundRefunds ==
  ASSUME RefundsInv, PostingsInv', NEW n \in DOMAIN orders, NEW i \in DOMAIN orders[n].items, NEW qty, RefundItem(n, i, qty)
  PROVE  RefundsKept'
<1>1. PICK o, left, s : o = orders[n] /\ left = Refunded(o, i, qty, vat) /\ s = RefundLines(left, i, qty, vat)
  OBVIOUS
<1>2. /\ journal \in Seq(EntrySet) /\ orders \in Seq(OrderSet) /\ vat \in VatRates /\ OrderKept(n, o, journal)
  BY <1>1 DEF RefundsInv, PostingsInv, PostingsTyped, Balanced, RefundsKept
<1>3. o \in OrderSet /\ i \in DOMAIN o.items
  BY <1>1, <1>2
<1>4. qty \in 1..(o.items[i].qty - o.items[i].refunded) /\ o.status \in {"COMPLETED", "PARTIALLY_REFUNDED"}
  BY <1>1 DEF RefundItem
<1>5. ~Cancelled(n, journal)
  BY <1>2, <1>4 DEF OrderKept
<1>6. Post(<<"ORDER_REFUND", n>>, s, [orders EXCEPT ![n] = left], owed, bills, credits)
  BY <1>1 DEF RefundItem
<1>7. CASE UNCHANGED <<journal, orders>>
  BY <1>7 DEF RefundsInv, RefundsKept
<1>8. CASE /\ orders' = [orders EXCEPT ![n] = left]
           /\ \E e \in EntrySet : e.source = <<"ORDER_REFUND", n>> /\ e.lines = s /\ journal' = Append(journal, e)
  <2>1. PICK e \in EntrySet : e.source = <<"ORDER_REFUND", n>> /\ e.lines = s /\ journal' = Append(journal, e)
    BY <1>8
  <2>2. OrderKept(n, left, journal')
    BY <1>1, <1>2, <1>3, <1>4, <1>5, <2>1, RefundLeaves
  <2> QED BY <1>8, <2>1, <2>2, AboutIs, SameOrders
<1> QED BY <1>6, <1>7, <1>8, PostMade

\* POST /orders/{id}/void and /orders/{id}/refund.
LEMMA UndoRefunds ==
  ASSUME RefundsInv, PostingsInv', NEW n \in DOMAIN orders, NEW status \in {"VOIDED", "REFUNDED"}, Undo(n, status)
  PROVE  RefundsKept'
<1>1. PICK sale, s, left : /\ sale = (CHOOSE e \in Range(journal) : e.source = <<"ORDER", n>>)
                           /\ s = Negated(sale.lines) /\ left = [orders[n] EXCEPT !.status = status]
  OBVIOUS
<1>2. /\ journal \in Seq(EntrySet) /\ orders \in Seq(OrderSet) /\ OrderKept(n, orders[n], journal)
  BY DEF RefundsInv, PostingsInv, PostingsTyped, Balanced, RefundsKept
<1>3. PICK i \in DOMAIN journal : sale = journal[i] /\ journal[i].source = <<"ORDER", n>>
  <2>1. PICK k \in DOMAIN journal : journal[k].source = <<"ORDER", n>>
    BY DEF RefundsInv, PostingsInv, SalesKept
  <2>2. journal[k] \in Range(journal)
    BY DEF Range
  <2>3. sale \in Range(journal) /\ sale.source = <<"ORDER", n>>
    BY <1>1, <2>1, <2>2
  <2> QED BY <2>3 DEF Range
<1>4. orders[n].status = "COMPLETED"
  BY DEF Undo
<1>5. AsSold(n, journal)
  BY <1>2, <1>4 DEF OrderKept
<1>6. left.status = status
  <2>1. orders[n] \in OrderSet
    BY <1>2
  <2> QED BY <1>1, <2>1 DEF OrderSet
<1>7. Post(<<"VOID", n>>, s, [orders EXCEPT ![n] = left], owed, bills, credits)
  <2>1. [orders EXCEPT ![n].status = status] = [orders EXCEPT ![n] = left]
    BY <1>1
  <2> QED BY <1>1, <2>1 DEF Undo
<1>8. CASE UNCHANGED <<journal, orders>>
  BY <1>8 DEF RefundsInv, RefundsKept
<1>9. CASE /\ orders' = [orders EXCEPT ![n] = left]
           /\ \E e \in EntrySet : e.source = <<"VOID", n>> /\ e.lines = s /\ journal' = Append(journal, e)
  <2>1. PICK e \in EntrySet : e.source = <<"VOID", n>> /\ e.lines = s /\ journal' = Append(journal, e)
    BY <1>9
  <2>2. OrderKept(n, left, journal')
    <3>1. e.lines = Negated(journal[i].lines)
      BY <1>1, <1>3, <2>1
    <3>2. left.status \in {"VOIDED", "REFUNDED"}
      BY <1>6
    <3>3. /\ journal \in Seq(EntrySet) /\ e \in EntrySet /\ i \in DOMAIN journal /\ AsSold(n, journal)
          /\ journal[i].source = <<"ORDER", n>> /\ e.source = <<"VOID", n>>
      BY <1>2, <1>3, <1>5, <2>1
    <3>4. OrderKept(n, left, Append(journal, e))
      BY ONLY <3>1, <3>2, <3>3, UndoLeaves
    <3> QED BY <2>1, <3>4
  <2> QED BY <1>9, <2>1, <2>2, AboutIs, SameOrders
<1> QED BY <1>7, <1>8, <1>9, PostMade

\* POST /orders.
LEMMA SellRefunds ==
  ASSUME RefundsInv, PostingsInv', NEW cart \in Carts, NEW pay \in Tills, NEW percent \in Discounts, Sell(cart, pay, percent)
  PROVE  RefundsKept'
<1>1. PICK o, n, bs : /\ o = NewOrder(cart, pay, percent, vat) /\ n = Len(orders) + 1
                      /\ Post(<<"ORDER", n>>, SaleLines(o), Append(orders, o), owed, bs, credits)
  BY DEF Sell
<1>2. journal \in Seq(EntrySet) /\ orders \in Seq(OrderSet) /\ vat \in VatRates
  BY DEF RefundsInv, PostingsInv, PostingsTyped, Balanced
<1>3. o \in OrderSet /\ Whole(o.items) /\ OrderSums(o)
  BY <1>1, <1>2, NewOrderIs
<1>4. /\ n \in Nat /\ n \notin DOMAIN orders
      /\ DOMAIN Append(orders, o) = DOMAIN orders \cup {n} /\ Append(orders, o)[n] = o
      /\ \A m \in DOMAIN orders : Append(orders, o)[m] = orders[m] /\ m \in Nat
  BY <1>1, <1>2
<1>5. CASE UNCHANGED <<journal, orders>>
  BY <1>5 DEF RefundsInv, RefundsKept
<1>6. CASE /\ orders' = Append(orders, o)
           /\ \E e \in EntrySet : e.source = <<"ORDER", n>> /\ e.lines = SaleLines(o) /\ journal' = Append(journal, e)
  <2>1. PICK e \in EntrySet : e.source = <<"ORDER", n>> /\ e.lines = SaleLines(o) /\ journal' = Append(journal, e)
    BY <1>6
  <2>2. \A i \in DOMAIN journal : journal[i].source \notin About(n)
    BY <1>4 DEF RefundsInv, RefundsKept, NoOther
  <2>3. OrderKept(n, o, journal')
    BY <1>2, <1>3, <2>1, <2>2, SaleLeaves
  <2>4. NoOther(orders', journal')
    <3> SUFFICES ASSUME NEW i \in DOMAIN journal', NEW m \in Nat, journal'[i].source \in About(m) PROVE m \in DOMAIN orders'
      BY DEF NoOther
    <3>0. journal'[i].source \in About(m)
      OBVIOUS
    <3>1. CASE i \in DOMAIN journal
      <4>1. journal'[i] = journal[i]
        BY <1>2, <2>1, <3>1, OneMore
      <4> QED BY <1>4, <1>6, <3>1, <4>1 DEF RefundsInv, RefundsKept, NoOther
    <3>2. CASE i \notin DOMAIN journal
      <4>1. journal'[i] = e
        BY <1>2, <2>1, <3>2, OneMore
      <4>2. <<"ORDER", n>> \in About(m)
        BY <2>1, <3>0, <4>1
      <4>3. m = n
        BY <4>2, AboutIs
      <4> QED BY <1>4, <1>6, <4>3
    <3> QED BY <3>1, <3>2
  <2>5. ASSUME NEW m \in DOMAIN orders' PROVE OrderKept(m, orders'[m], journal')
    <3>1. CASE m = n
      BY <1>4, <1>6, <2>3, <3>1
    <3>2. CASE m # n
      <4>1. OrderKept(m, orders[m], journal) /\ orders'[m] = orders[m]
        BY <1>4, <1>6, <3>2 DEF RefundsInv, RefundsKept
      <4>2. e.source \in About(m) => m = n
        <5>1. \A x : x = <<"ORDER", n>> /\ x \in About(m) => n = m
          BY AboutIs
        <5> QED BY <2>1, <5>1
      <4>3. e.source \notin About(m)
        BY <3>2, <4>2
      <4> QED BY <1>2, <2>1, <4>1, <4>3, KeptElsewhere
    <3> QED BY <3>1, <3>2
  <2> QED BY <2>4, <2>5 DEF RefundsKept
<1>7. PICK source, s, os : source = <<"ORDER", n>> /\ s = SaleLines(o) /\ os = Append(orders, o)
  OBVIOUS
<1>8. Post(source, s, os, owed, bs, credits)
  BY <1>1, <1>7
<1>9. \/ UNCHANGED <<journal, orders>>
      \/ orders' = os /\ \E e \in EntrySet : e.source = source /\ e.lines = s /\ journal' = Append(journal, e)
  BY <1>8, PostMade
<1> QED BY <1>5, <1>6, <1>7, <1>9

\* Suppliers' documents.
LEMMA SupplyRefunds == ASSUME RefundsInv, PostingsInv', Supply PROVE RefundsKept'
<1>1. \A s, lines, ow, bs, cs : Post(<<s>>, lines, orders, ow, bs, cs) => RefundsKept'
  BY OtherRefunds
<1>2. \A s, lines : Plain(<<s>>, lines) => RefundsKept'
  BY <1>1 DEF Plain
<1>3. CASE \E p \in Deliveries : Deliver(p)
  BY <1>1, <1>3 DEF Deliver
<1>4. CASE \E unit \in DOMAIN owed, amount \in Amounts : PaySupplier(unit, amount)
  BY <1>1, <1>4 DEF PaySupplier
<1>5. CASE \E s \in Scraps : BuyBack(s) \/ WriteOff(s)
  BY <1>2, <1>5 DEF BuyBack, WriteOff
<1>6. CASE \E s, t \in Scraps : Melt(s, t)
  BY <1>2, <1>6 DEF Melt
<1> QED BY <1>3, <1>4, <1>5, <1>6 DEF Supply

\* Invoices, bills, settlements and transfers.
LEMMA AccountRefunds == ASSUME RefundsInv, PostingsInv', Account PROVE RefundsKept'
<1>1. \A s, lines, ow, bs, cs : Post(<<s>>, lines, orders, ow, bs, cs) => RefundsKept'
  BY OtherRefunds
<1>2. ASSUME NEW currency, NEW amount, NEW rate, Invoice(currency, amount, rate) PROVE RefundsKept'
  BY <1>1, <1>2 DEF Invoice
<1>3. ASSUME NEW currency, NEW amounts, NEW rate, NEW from, EnterBill(currency, amounts, rate, from) PROVE RefundsKept'
  <2>1. PICK s, lines, bs : Post(<<s>>, lines, orders, owed, bs, credits)
    BY <1>3 DEF EnterBill
  <2> QED BY <1>1, <2>1
<1>4. ASSUME NEW side, NEW currency, NEW amount, NEW tender, NEW rate, Settle(side, currency, amount, tender, rate)
      PROVE  RefundsKept'
  <2>1. PICK s, lines, bs, cs : Post(<<s>>, lines, orders, owed, bs, cs)
    BY <1>4 DEF Settle
  <2> QED BY <1>1, <2>1
<1>5. ASSUME NEW from, NEW to, NEW amount, NEW arrives, NEW rate, Transfer(from, to, amount, arrives, rate)
      PROVE  RefundsKept'
  <2>1. PICK s, lines : Plain(<<s>>, lines)
    BY <1>5 DEF Transfer
  <2> QED BY <1>1, <2>1 DEF Plain
<1> QED BY <1>2, <1>3, <1>4, <1>5 DEF Account

\* Every step keeps what the books say of the orders.
LEMMA RefundsStep == RefundsInv /\ [Next]_vars => RefundsInv'
<1> SUFFICES ASSUME RefundsInv, [Next]_vars PROVE RefundsInv'
  OBVIOUS
<1>1. PostingsInv'
  BY PostingsStep DEF RefundsInv
<1>2. CASE Trade
  <2>1. CASE \E cart \in Carts, pay \in Tills, percent \in Discounts : Sell(cart, pay, percent)
    BY <1>1, <2>1, SellRefunds DEF RefundsInv
  <2>2. CASE \E n \in DOMAIN orders : \E i \in DOMAIN orders[n].items :
               \E qty \in 1..orders[n].items[i].qty : RefundItem(n, i, qty)
    BY <1>1, <2>2, RefundRefunds DEF RefundsInv
  <2>3. CASE \E n \in DOMAIN orders, status \in {"VOIDED", "REFUNDED"} : Undo(n, status)
    BY <1>1, <2>3, UndoRefunds DEF RefundsInv
  <2> QED BY <1>2, <2>1, <2>2, <2>3 DEF Trade
<1>3. CASE Supply
  BY <1>1, <1>3, SupplyRefunds DEF RefundsInv
<1>4. CASE Account
  BY <1>1, <1>4, AccountRefunds DEF RefundsInv
<1>5. CASE UNCHANGED <<journal, orders>>
  BY <1>1, <1>5 DEF RefundsInv, RefundsKept
<1> QED BY <1>2, <1>3, <1>4, <1>5 DEF Next, NextDay, SetVat, vars

\* What the books say of the orders is kept whatever documents come.
LEMMA RefundsHold == Spec => []RefundsInv
<1>1. Init => RefundsInv
  <2> SUFFICES ASSUME Init PROVE RefundsInv
    OBVIOUS
  <2>1. journal = <<>> /\ orders = <<>>
    BY DEF Init
  <2>2. RefundsKept
    BY <2>1 DEF RefundsKept, NoOther
  <2> QED BY <2>2, PostingsStarts DEF RefundsInv
<1> QED BY <1>1, RefundsStep, PTL DEF Spec

-----------------------------------------------------------------------------
(* What undoing a sale leaves in the books.                                 *)

\* The refunds of an order, counted.
LEMMA RefundsIs == ASSUME journal \in Seq(EntrySet), NEW n PROVE Refunds(n) = SumOver(RefundOf(n), journal)
<1>1. \A i \in DOMAIN journal : journal[i] \in EntrySet
  OBVIOUS
<1>2. [i \in DOMAIN journal |-> RefundOf(n)[journal[i]]]
        = [i \in DOMAIN journal |-> IF journal[i].source = <<"ORDER_REFUND", n>> THEN 1 ELSE 0]
  BY <1>1 DEF RefundOf
<1> QED BY <1>2 DEF Refunds, Total, SumOver

\* What is kept of the orders says what refunds and voids leave behind.
LEMMA RefundsUndo == RefundsInv => RefundsUndoTheSale
<1> SUFFICES ASSUME RefundsInv, NEW n \in DOMAIN orders
             PROVE  IF Undone(n) THEN UndoneWhole(n) ELSE UndoneByLine(n)
  BY DEF RefundsUndoTheSale
<1>1. journal \in Seq(EntrySet) /\ orders \in Seq(OrderSet) /\ OrderKept(n, orders[n], journal)
  BY DEF RefundsInv, PostingsInv, PostingsTyped, Balanced, RefundsKept
<1>2. Undone(n) <=> Cancelled(n, journal)
  BY DEF Undone, Cancelled, Range
<1>3. PICK entries : entries = WrittenBy(About(n))
  OBVIOUS
<1>4. /\ \A A : Net(entries, 1..Days, A) = Moved(BaseIn(A), About(n), journal)
      /\ \A a, k : NetGrams(entries, 1..Days, a, k) = Moved(GramsIn(a, k), About(n), journal)
  BY <1>1, <1>3, WrittenIs
<1>5. CASE Undone(n)
  <2>1. \A f : Reverses(f) => Moved(f, About(n), journal) = 0
    BY <1>1, <1>2, <1>5 DEF OrderKept
  <2>2. \A A : Moved(BaseIn(A), About(n), journal) = 0
    BY <2>1, ReversesIs
  <2>3. \A a, k : Moved(GramsIn(a, k), About(n), journal) = 0
    BY <2>1, ReversesIs
  <2> QED BY <1>3, <1>4, <1>5, <2>2, <2>3 DEF UndoneWhole
<1>6. CASE ~Undone(n)
  <2>1. OrderSums(orders[n]) /\ LeftOver(n, orders[n], journal)
    BY <1>1, <1>2, <1>6 DEF OrderKept
  <2>2. PICK left : left = orders[n].items /\ left \in Seq(ItemSet)
    <3>1. orders[n] \in OrderSet
      BY <1>1
    <3> QED BY <3>1 DEF OrderSet
  <2>3. /\ \A k : Total(left, LAMBDA it : IF Unit(it).karat = k THEN Unit(it).grams * (it.qty - it.refunded) ELSE 0)
                    = SumOver(GramsLeft(k), left)
        /\ Total(left, LAMBDA it : Unit(it).stone * (it.qty - it.refunded)) = SumOver(StoneLeft, left)
        /\ Total(left, LAMBDA it : Cost(it, it.qty - it.refunded)) = SumOver(CostLeft, left)
    BY <2>2, LeftTotals
  <2>4. -Net(entries, 1..Days, {"SALES_REVENUE", "MAKING_CHARGE_REVENUE"}) = orders[n].subtotal
    <3>1. PICK x, y : x = Moved(BaseIn(Revenue), About(n), journal) /\ y = SumOver(PriceLeft, left)
      OBVIOUS
    <3>2. x \in Int /\ y \in Int
      BY <1>1, <2>2, <3>1, Measures, MovedType, LeftMeasures, OverType
    <3>3. x + y = 0 /\ y = orders[n].subtotal
      BY <2>1, <2>2, <3>1 DEF LeftOver, OrderSums
    <3>4. -x = y
      BY ONLY <3>2, <3>3
    <3> QED BY <1>4, <3>1, <3>3, <3>4 DEF Revenue
  <2>5. ASSUME NEW k \in KaratSet PROVE -NetGrams(entries, 1..Days, "METAL_INVENTORY", k) = SumOver(GramsLeft(k), left)
    <3>1. PICK x, y : x = Moved(GramsIn("METAL_INVENTORY", k), About(n), journal) /\ y = SumOver(GramsLeft(k), left)
      OBVIOUS
    <3>2. x \in Int /\ y \in Int
      BY <1>1, <2>2, <3>1, Measures, MovedType, LeftMeasures, OverType
    <3>3. x + y = 0
      BY <2>1, <2>2, <3>1 DEF LeftOver
    <3>4. -x = y
      BY ONLY <3>2, <3>3
    <3> QED BY <1>4, <3>1, <3>4
  <2>6. Net(entries, 1..Days, {"STONE_COGS"}) = SumOver(StoneLeft, left)
    BY <1>4, <2>1, <2>2 DEF LeftOver
  <2>7. Within(Net(entries, 1..Days, {"METAL_COGS"}) - SumOver(CostLeft, left), Refunds(n))
    BY <1>1, <1>4, <2>1, <2>2, RefundsIs DEF LeftOver
  <2>8. UndoneByLine(n)
    BY <1>3, <2>2, <2>3, <2>4, <2>5, <2>6, <2>7 DEF UndoneByLine
  <2> QED BY <1>6, <2>8
<1> QED BY <1>5, <1>6

\* Orders refunded by line, in full or voided: what create_order posted is undone
\* in the books by what refund_order_item, refund_order and void_order post, to
\* the cent of metal cost the property grants each refund.
THEOREM RefundsUndone == Spec => []RefundsUndoTheSale
BY RefundsHold, RefundsUndo, PTL

-----------------------------------------------------------------------------
(* What the till hands out.                                                 *)

\* The discount on what is refunded, rounded as the entry rounds it and as the
\* totals of the order do.
LEMMA SliceClose ==
  ASSUME NEW L \in Nat \ {0}, NEW v \in Nat, NEW p \in Nat, NEW a, a = Percent(L + v, p), NEW b, b = Percent(L, p),
         NEW s, s = HalfEven(b * v, L)
  PROVE  /\ a \in Int /\ b \in Int /\ s \in Int
         /\ \E g \in Int : g = L * ((s - a) + b) /\ -(3 * L + v) <= 2 * g /\ 2 * g <= 3 * L + v
<1>1. PICK S \in Nat \ {0} : S = L + v
  OBVIOUS
<1>2. PICK k \in Nat, m \in Nat : k = L * p /\ m = S * p
  BY <1>1, TimesNat
<1>3. a \in Int /\ 2 * (100 * a) <= 2 * m + 100 /\ 2 * m - 100 <= 2 * (100 * a)
  <2>1. a = HalfEven(m, 100)
    BY <1>1, <1>2 DEF Percent
  <2>2. m \in Int /\ 100 \in Nat \ {0}
    OBVIOUS
  <2>3. PICK h \in Int : h = HalfEven(m, 100) /\ 2 * (100 * h) <= 2 * m + 100 /\ 2 * m - 100 <= 2 * (100 * h)
    BY <2>2, Rounded
  <2> QED BY <2>1, <2>3
<1>4. b \in Int /\ 2 * (100 * b) <= 2 * k + 100 /\ 2 * k - 100 <= 2 * (100 * b)
  <2>1. b = HalfEven(k, 100)
    BY <1>2 DEF Percent
  <2>2. k \in Int /\ 100 \in Nat \ {0}
    OBVIOUS
  <2>3. PICK h \in Int : h = HalfEven(k, 100) /\ 2 * (100 * h) <= 2 * k + 100 /\ 2 * k - 100 <= 2 * (100 * h)
    BY <2>2, Rounded
  <2> QED BY <2>1, <2>3
<1>5. PICK x \in Int : x = b * v
  <2>1. b * v \in Int
    BY <1>4
  <2> QED BY <2>1
<1>6. s \in Int /\ 2 * (L * s) <= 2 * x + L /\ 2 * x - L <= 2 * (L * s)
  <2>1. s = HalfEven(x, L)
    BY <1>5
  <2> QED BY <2>1, Rounded
<1>7. PICK w \in Int, y \in Int, z \in Int, q \in Int, r \in Int :
        w = L * s /\ y = L * a /\ z = L * b /\ q = S * b /\ r = S * k
  <2>1. L * s \in Int /\ L * a \in Int /\ L * b \in Int /\ S * b \in Int /\ S * k \in Int
    BY ONLY L \in Nat, <1>1, <1>2, <1>3, <1>4, <1>6
  <2> QED BY <2>1
<1>8. q = z + x
  BY <1>1, <1>4, <1>5, <1>7
<1>9. L * m = r
  BY <1>1, <1>2, <1>7
<1>10. 200 * y <= 2 * r + 100 * L /\ 2 * r - 100 * L <= 200 * y
  <2>1. (200 * a) * L <= (2 * m + 100) * L /\ (2 * m - 100) * L <= (200 * a) * L
    <3>1. 200 * a <= 2 * m + 100 /\ 2 * m - 100 <= 200 * a /\ 200 * a \in Int /\ 2 * m + 100 \in Int /\ 2 * m - 100 \in Int
      BY <1>3
    <3> QED BY <3>1, TimesAtMost
  <2>2. (200 * a) * L = 200 * y /\ (2 * m + 100) * L = 2 * r + 100 * L /\ (2 * m - 100) * L = 2 * r - 100 * L
    BY <1>3, <1>7, <1>9
  <2> QED BY <2>1, <2>2
<1>11. 200 * q <= 2 * r + 100 * S /\ 2 * r - 100 * S <= 200 * q
  <2>1. (200 * b) * S <= (2 * k + 100) * S /\ (2 * k - 100) * S <= (200 * b) * S
    <3>1. 200 * b <= 2 * k + 100 /\ 2 * k - 100 <= 200 * b /\ 200 * b \in Int /\ 2 * k + 100 \in Int /\ 2 * k - 100 \in Int
      BY <1>4
    <3> QED BY <3>1, TimesAtMost
  <2>2. (200 * b) * S = 200 * q /\ (2 * k + 100) * S = 2 * r + 100 * S /\ (2 * k - 100) * S = 2 * r - 100 * S
    BY <1>4, <1>7
  <2> QED BY <2>1, <2>2
<1>12. PICK g \in Int : g = (w - y) + z
  OBVIOUS
<1>13. g = L * ((s - a) + b)
  BY <1>3, <1>4, <1>6, <1>7, <1>12
<1>14. -(3 * L + v) <= 2 * g /\ 2 * g <= 3 * L + v
  BY ONLY <1>1, <1>5, <1>6, <1>7, <1>8, <1>10, <1>11, <1>12
<1> QED BY <1>3, <1>4, <1>6, <1>13, <1>14

\* What a refund writes on the cash account against what the customer is handed.
LEMMA RefundHands ==
  ASSUME NEW S \in Nat, NEW L \in Nat, NEW v \in Nat, S = L + v, NEW q \in Nat, NEW p \in Nat,
         NEW s, s = IF L > 0 THEN HalfEven(Percent(L, p) * v, L) ELSE 0,
         NEW gap, gap = ((S + Percent(S, q) - Percent(S, p)) - (L + Percent(L, q) - Percent(L, p)))
                          + (s - v - Percent(v, q))
  PROVE  IF p = 0 THEN Within(gap, 1) ELSE L = 0 \/ Within(2 * L * gap, 5 * L + v)
<1>1. PICK t \in Int : t = Percent(S, q) - Percent(L, q) - Percent(v, q) /\ -1 <= t /\ t <= 1
  <2>1. PICK t \in Int : t = Percent(L + v, q) - Percent(L, q) - Percent(v, q) /\ -1 <= t /\ t <= 1
    BY ONLY L \in Nat, v \in Nat, q \in Nat, PercentJoin
  <2>2. Percent(L + v, q) = Percent(S, q)
    OBVIOUS
  <2> QED BY <2>1, <2>2
<1>2. PICK a, b : a = Percent(S, p) /\ b = Percent(L, p)
  OBVIOUS
<1>3. PICK c, d, e : c = Percent(S, q) /\ d = Percent(L, q) /\ e = Percent(v, q)
  OBVIOUS
<1>4. a \in Int /\ b \in Int /\ c \in Int /\ d \in Int /\ e \in Int
  <2>1. a \in Nat /\ b \in Nat /\ c \in Nat /\ d \in Nat /\ e \in Nat
    BY <1>2, <1>3, PercentNat
  <2> QED BY <2>1
<1>5. s \in Int
  <2>1. CASE L > 0
    <3>1. b * v \in Int /\ L \in Nat \ {0}
      BY <1>4, <2>1
    <3> QED BY <1>2, <2>1, <3>1, Rounded
  <2> QED BY <2>1
<1>6. gap = t + ((s - a) + b) /\ gap \in Int
  <2>1. gap = ((S + c - a) - (L + d - b)) + (s - v - e) /\ t = c - d - e
    BY <1>1, <1>2, <1>3
  <2> QED BY ONLY <1>4, <1>5, <2>1, S = L + v, L \in Nat, v \in Nat
<1>7. CASE p = 0
  <2>1. a = 0 /\ b = 0
    <3>1. S * 0 = 0 /\ L * 0 = 0
      OBVIOUS
    <3>2. HalfEven(0, 100) = 0
      BY RoundedExact
    <3> QED BY <1>2, <1>7, <3>1, <3>2 DEF Percent
  <2>2. s = 0
    <3>1. CASE L > 0
      <4>1. b * v = 0 /\ L \in Nat \ {0}
        BY <2>1, <3>1
      <4> QED BY <1>2, <3>1, <4>1, RoundedExact
    <3> QED BY <3>1
  <2>3. gap = t
    BY <1>1, <1>6, <2>1, <2>2
  <2> QED BY <1>1, <1>7, <2>3 DEF Within
<1>8. CASE p # 0 /\ L > 0
  <2>1. L \in Nat \ {0} /\ s = HalfEven(b * v, L) /\ a = Percent(L + v, p)
    BY <1>2, <1>8
  <2>2. PICK g \in Int : g = L * ((s - a) + b) /\ -(3 * L + v) <= 2 * g /\ 2 * g <= 3 * L + v
    BY <1>2, <2>1, SliceClose
  <2>3. PICK h \in Int : h = L * t
    BY <1>1
  <2>4. -L <= h /\ h <= L
    <3>1. CASE t = 0
      BY <2>3, <3>1
    <3>2. CASE t = 1
      BY <2>3, <3>2
    <3>3. CASE t = -1
      BY <2>3, <3>3
    <3> QED BY <1>1, <3>1, <3>2, <3>3
  <2>5. L * gap = h + g
    BY <1>1, <1>4, <1>5, <1>6, <2>2, <2>3
  <2>6. 2 * L * gap = 2 * h + 2 * g
    <3>1. 2 * L * gap = 2 * (L * gap)
      BY <1>6
    <3> QED BY <2>5, <3>1
  <2>7. Within(2 * h + 2 * g, 5 * L + v)
    BY ONLY <2>2, <2>4, L \in Nat, v \in Nat, <2>3 DEF Within
  <2> QED BY <1>8, <2>6, <2>7
<1> QED BY <1>7, <1>8

\* What a refund may leave between its entry and the till.
Hands(o, left, gap) ==
  IF o.percent = 0 THEN Within(gap, 1)
  ELSE left.subtotal = 0 \/ Within(2 * left.subtotal * gap, 5 * left.subtotal + (o.subtotal - left.subtotal))

\* What the refunds of an order wrote on the cash account.
CashOf(n, j) == Moved(BaseIn({"CASH"}), {<<"ORDER_REFUND", n>>}, j)

\* The gap of an order before and after a step.
LEMMA TillGapIs ==
  ASSUME journal \in Seq(EntrySet), journal' \in Seq(EntrySet), NEW n
  PROVE  /\ TillGap(n) = orders[n].handed + CashOf(n, journal)
         /\ TillGap(n)' = orders'[n].handed + CashOf(n, journal')
<1>1. PICK T : T = {<<"ORDER_REFUND", n>>}
  OBVIOUS
<1>2. TillGap(n) = orders[n].handed + Net(Only(T, journal), 1..Days, {"CASH"})
  BY <1>1 DEF TillGap, WrittenBy, Only, Blank
<1>3. TillGap(n)' = orders'[n].handed + Net(Only(T, journal'), 1..Days, {"CASH"})
  BY <1>1 DEF TillGap, WrittenBy, Only, Blank
<1>4. Only(T, journal) \in Seq(EntrySet) /\ Only(T, journal') \in Seq(EntrySet)
  BY OnlyIs
<1>5. /\ Net(Only(T, journal), 1..Days, {"CASH"}) = Moved(BaseIn({"CASH"}), T, journal)
      /\ Net(Only(T, journal'), 1..Days, {"CASH"}) = Moved(BaseIn({"CASH"}), T, journal')
  BY <1>4, NetIs DEF Moved
<1> QED BY <1>1, <1>2, <1>3, <1>5 DEF CashOf

\* A refund: what its entry takes from the cash account and what the till gives.
LEMMA RefundGap ==
  ASSUME NEW j \in Seq(EntrySet), NEW e \in EntrySet, NEW n, NEW o \in OrderSet, NEW i \in DOMAIN o.items,
         NEW qty \in 1..(o.items[i].qty - o.items[i].refunded), NEW rate \in VatRates,
         NEW left, left = Refunded(o, i, qty, rate),
         e.source = <<"ORDER_REFUND", n>>, e.lines = RefundLines(left, i, qty, rate),
         OrderSums(o), ~left.retaxed,
         NEW gap, gap = (left.handed + CashOf(n, Append(j, e))) - (o.handed + CashOf(n, j))
  PROVE  Hands(o, left, gap)
<1>1. PICK t, s : t = Append(j, e) /\ s = e.lines
  OBVIOUS
<1>2. left \in OrderSet /\ i \in DOMAIN left.items /\ o.items \in Seq(ItemSet)
  <2>1. o.items \in Seq(ItemSet)
    BY DEF OrderSet
  <2>2. left \in OrderSet /\ i \in DOMAIN left.items
    BY RefundedType
  <2> QED BY <2>1, <2>2
<1>3. /\ OrderSums(left) /\ left.percent = o.percent /\ left.vatPercent = o.vatPercent
      /\ left.handed = o.handed + o.total - left.total
      /\ left.retaxed = (o.retaxed \/ rate # o.vatPercent)
      /\ left.items = [o.items EXCEPT ![i] = [o.items[i] EXCEPT !.refunded = @ + qty]]
  BY RefundedIs
<1>4. rate = o.vatPercent
  BY <1>3
<1>5. PICK it, m : it = o.items[i] /\ m = [it EXCEPT !.refunded = @ + qty] /\ left.items = [o.items EXCEPT ![i] = m]
  BY <1>3
<1>6. it \in ItemSet /\ left.items[i] = m
  BY <1>2, <1>5
<1>7. m \in ItemSet /\ qty \in Nat /\ m.unit = it.unit /\ PriceLeft[m] = PriceLeft[it] - Unit(it).price * qty
  <2>1. qty \in 1..(it.qty - it.refunded)
    BY <1>5
  <2> QED BY <1>5, <1>6, <2>1, LeftTakes
<1>8. rate \in Nat
  <2>1. rate \in 0..100
    BY RateAssumption
  <2> QED BY ONLY <2>1
<1>9. PICK v : v = Unit(m).price * qty
  OBVIOUS
<1>10. v \in Nat /\ Percent(v, rate) \in Nat /\ Slice(left, v) \in Nat
       /\ AddsUp(BaseIn({"CASH"}), s, Slice(left, v) - v - Percent(v, rate))
  <2>1. RefundOfLine(left, i, qty, rate, s, m, v)
    BY <1>1, <1>2, <1>6, <1>7, <1>8, <1>9 DEF RefundOfLine
  <2>2. TakesCash(left, s, v, Percent(v, rate))
    BY ONLY <2>1, RefundCash
  <2> QED BY <2>2 DEF TakesCash
<1>11. PICK S, L, q, p, z, d :
         /\ S = o.subtotal /\ L = left.subtotal /\ q = rate /\ p = o.percent /\ z = Slice(left, v) /\ d = Percent(v, q)
  OBVIOUS
<1>12. S \in Nat /\ L \in Nat /\ q \in Nat /\ p \in Nat /\ o.handed \in Int /\ o.total \in Int /\ left.total \in Int
  <2>1. S \in Nat /\ o.handed \in Int /\ o.total \in Int /\ p \in Nat
    BY <1>11 DEF OrderSet
  <2>2. L \in Nat /\ left.total \in Int
    BY <1>2, <1>11 DEF OrderSet
  <2> QED BY <1>8, <1>11, <2>1, <2>2
<1>13. S = L + v
  <2>1. PICK x, y, a, b : x = SumOver(PriceLeft, o.items) /\ y = SumOver(PriceLeft, left.items)
                          /\ a = PriceLeft[it] /\ b = PriceLeft[m]
    OBVIOUS
  <2>2. S = x /\ L = y
    BY <1>3, <1>11, <2>1 DEF OrderSums
  <2>3. y = (x - a) + b
    <3>1. Measure(PriceLeft, ItemSet)
      BY LeftMeasures
    <3>2. SumOver(PriceLeft, left.items) = (SumOver(PriceLeft, o.items) - PriceLeft[o.items[i]]) + PriceLeft[m]
      <4>1. PICK u : u = o.items
        OBVIOUS
      <4>2. u \in Seq(ItemSet) /\ i \in DOMAIN u /\ m \in ItemSet /\ left.items = [u EXCEPT ![i] = m]
        BY <1>2, <1>5, <1>7, <4>1
      <4>3. SumOver(PriceLeft, [u EXCEPT ![i] = m]) = (SumOver(PriceLeft, u) - PriceLeft[u[i]]) + PriceLeft[m]
        BY ONLY <3>1, <4>2, OverExcept
      <4> QED BY ONLY <4>1, <4>2, <4>3
    <3> QED BY <1>5, <2>1, <3>2
  <2>4. Unit(m) = Unit(it)
    BY <1>7 DEF Unit
  <2>5. b = a - v
    BY <1>7, <1>9, <2>1, <2>4
  <2>6. a \in Int
    BY <1>6, <2>1, LeftMeasures DEF Measure
  <2> QED BY ONLY <1>10, <1>12, <2>2, <2>3, <2>5, <2>6
<1>14. /\ o.total = S + Percent(S, q) - Percent(S, p) /\ left.total = L + Percent(L, q) - Percent(L, p)
       /\ left.discount = Percent(L, p)
  BY <1>3, <1>4, <1>11 DEF OrderSums
<1>15. z = IF L > 0 THEN HalfEven(Percent(L, p) * v, L) ELSE 0
  BY <1>11, <1>14 DEF Slice
<1>16. PICK x, y : x \in Int /\ x = CashOf(n, j) /\ y = CashOf(n, t)
  <2>1. CashOf(n, j) \in Int
    BY Measures, MovedType DEF CashOf
  <2> QED BY <2>1
<1>17. y = x + (z - v - d)
  <2>1. e.source \in {<<"ORDER_REFUND", n>>}
    OBVIOUS
  <2>2. Measure(BaseIn({"CASH"}), LineSet)
    BY Measures
  <2>3. y = x + SumOver(BaseIn({"CASH"}), s)
    BY <1>1, <1>16, <2>1, <2>2, MovedAppend DEF CashOf
  <2> QED BY <1>10, <1>11, <2>3 DEF AddsUp
<1>18. z \in Int /\ d \in Int
  BY <1>10, <1>11
<1>19. gap = (o.total - left.total) + (z - v - d)
  <2>1. PICK h, g, b, c : h = o.handed /\ g = left.handed /\ b = o.total /\ c = left.total
    OBVIOUS
  <2>2. gap = (g + y) - (h + x) /\ g = h + b - c
    BY <1>1, <1>3, <1>16, <2>1
  <2>3. h \in Int /\ b \in Int /\ c \in Int
    BY <1>12, <2>1
  <2>4. gap = (b - c) + (z - v - d)
    BY ONLY <1>10, <1>16, <1>17, <1>18, <2>2, <2>3
  <2> QED BY <2>1, <2>4
<1>20. gap = ((S + Percent(S, q) - Percent(S, p)) - (L + Percent(L, q) - Percent(L, p))) + (z - v - Percent(v, q))
  BY <1>11, <1>14, <1>19
<1>21. IF p = 0 THEN Within(gap, 1) ELSE L = 0 \/ Within(2 * L * gap, 5 * L + v)
  BY ONLY <1>10, <1>12, <1>13, <1>15, <1>20, RefundHands
<1>22. v = S - L
  BY ONLY <1>10, <1>12, <1>13
<1> QED BY <1>11, <1>21, <1>22 DEF Hands

\* A cancelled sale leaves the till and the refunds as they were.
LEMMA UndoneGap ==
  ASSUME NEW j \in Seq(EntrySet), NEW e \in EntrySet, NEW n, NEW o \in OrderSet, e.source = <<"VOID", n>>,
         NEW left \in OrderSet, left.handed = o.handed, left.subtotal = o.subtotal,
         NEW gap, gap = (left.handed + CashOf(n, Append(j, e))) - (o.handed + CashOf(n, j))
  PROVE  Hands(o, left, gap)
<1>1. e.source \notin {<<"ORDER_REFUND", n>>}
  OBVIOUS
<1>2. CashOf(n, Append(j, e)) = CashOf(n, j)
  BY <1>1, Measures, MovedAppend DEF CashOf
<1>3. PICK x \in Int : x = CashOf(n, j)
  <2>1. CashOf(n, j) \in Int
    BY Measures, MovedType DEF CashOf
  <2> QED BY <2>1
<1>4. PICK h \in Int, L \in Nat : h = o.handed /\ L = o.subtotal
  BY DEF OrderSet
<1>5. gap = 0
  <2>1. gap = (h + x) - (h + x)
    BY <1>2, <1>3, <1>4
  <2> QED BY ONLY <1>3, <1>4, <2>1
<1>6. Within(gap, 1)
  BY <1>5 DEF Within
<1>7. 2 * L * gap = 0 /\ L - L = 0
  BY <1>5
<1>8. Within(2 * L * gap, 5 * L + (L - L))
  BY <1>7 DEF Within
<1> QED BY <1>4, <1>6, <1>8 DEF Hands

-----------------------------------------------------------------------------
(* What a step hands out.                                                   *)

\* What a step may do to the order n.
Handed(n) == orders'[n] = orders[n] \/ orders'[n].retaxed \/ Hands(orders[n], orders'[n], TillGap(n)' - TillGap(n))

\* Every document but a refund of an order, or its end, leaves it as it was.
LEMMA OrdersStay ==
  ASSUME PostingsInv, PostingsInv', NEW n \in DOMAIN orders, NEW s, NEW lines, NEW ow, NEW bs, NEW cs, Post(<<s>>, lines, orders, ow, bs, cs)
  PROVE  Handed(n)
<1>1. orders' = orders
  BY PostMade
<1> QED BY <1>1 DEF Handed

\* POST /orders/{id}/items/{id}/refund.
LEMMA RefundHanded ==
  ASSUME RefundsInv, PostingsInv', NEW k \in DOMAIN orders, NEW n \in DOMAIN orders, NEW i \in DOMAIN orders[n].items,
         NEW qty, RefundItem(n, i, qty)
  PROVE  Handed(k)
<1>1. PICK o, left, s : o = orders[n] /\ left = Refunded(o, i, qty, vat) /\ s = RefundLines(left, i, qty, vat)
  OBVIOUS
<1>2. /\ journal \in Seq(EntrySet) /\ orders \in Seq(OrderSet) /\ vat \in VatRates /\ OrderKept(n, o, journal)
  BY <1>1 DEF RefundsInv, PostingsInv, PostingsTyped, Balanced, RefundsKept
<1>3. o \in OrderSet /\ i \in DOMAIN o.items
  BY <1>1, <1>2
<1>4. qty \in 1..(o.items[i].qty - o.items[i].refunded) /\ o.status \in {"COMPLETED", "PARTIALLY_REFUNDED"}
  BY <1>1 DEF RefundItem
<1>5. OrderSums(o)
  BY <1>2, <1>4 DEF OrderKept
<1>6. Post(<<"ORDER_REFUND", n>>, s, [orders EXCEPT ![n] = left], owed, bills, credits)
  BY <1>1 DEF RefundItem
<1>7. CASE UNCHANGED <<journal, orders>>
  BY <1>7 DEF Handed
<1>8. CASE /\ orders' = [orders EXCEPT ![n] = left]
           /\ \E e \in EntrySet : e.source = <<"ORDER_REFUND", n>> /\ e.lines = s /\ journal' = Append(journal, e)
  <2>1. PICK e \in EntrySet : e.source = <<"ORDER_REFUND", n>> /\ e.lines = s /\ journal' = Append(journal, e)
    BY <1>8
  <2>2. CASE k # n
    <3>1. orders'[k] = orders[k]
      BY <1>2, <1>8, <2>2
    <3> QED BY <3>1 DEF Handed
  <2>3. CASE k = n /\ ~left.retaxed
    <3>1. orders'[n] = left
      BY <1>2, <1>8
    <3>2. journal' \in Seq(EntrySet)
      BY <1>2, <2>1
    <3>3. PICK gap : gap = TillGap(n)' - TillGap(n)
      OBVIOUS
    <3>4. gap = (left.handed + CashOf(n, Append(journal, e))) - (o.handed + CashOf(n, journal))
      BY <1>1, <1>2, <2>1, <3>1, <3>2, <3>3, TillGapIs
    <3>5. Hands(o, left, gap)
      BY <1>1, <1>2, <1>3, <1>4, <1>5, <2>1, <2>3, <3>4, RefundGap
    <3> QED BY <1>1, <2>3, <3>1, <3>3, <3>5 DEF Handed
  <2>4. CASE k = n /\ left.retaxed
    <3>1. orders'[n] = left
      BY <1>2, <1>8
    <3> QED BY <2>4, <3>1 DEF Handed
  <2> QED BY <2>2, <2>3, <2>4
<1> QED BY <1>6, <1>7, <1>8, PostMade

\* POST /orders/{id}/void and /orders/{id}/refund.
LEMMA UndoHanded ==
  ASSUME RefundsInv, PostingsInv', NEW k \in DOMAIN orders, NEW n \in DOMAIN orders,
         NEW status \in {"VOIDED", "REFUNDED"}, Undo(n, status)
  PROVE  Handed(k)
<1>1. PICK sale, s, left : /\ sale = (CHOOSE e \in Range(journal) : e.source = <<"ORDER", n>>)
                           /\ s = Negated(sale.lines) /\ left = [orders[n] EXCEPT !.status = status]
  OBVIOUS
<1>2. journal \in Seq(EntrySet) /\ orders \in Seq(OrderSet)
  BY DEF RefundsInv, PostingsInv, PostingsTyped, Balanced
<1>3. orders[n] \in OrderSet
  BY <1>2
<1>4. left \in OrderSet /\ left.handed = orders[n].handed /\ left.subtotal = orders[n].subtotal
  BY <1>1, <1>3 DEF OrderSet
<1>5. Post(<<"VOID", n>>, s, [orders EXCEPT ![n] = left], owed, bills, credits)
  <2>1. [orders EXCEPT ![n].status = status] = [orders EXCEPT ![n] = left]
    BY <1>1
  <2> QED BY <1>1, <2>1 DEF Undo
<1>6. CASE UNCHANGED <<journal, orders>>
  BY <1>6 DEF Handed
<1>7. CASE /\ orders' = [orders EXCEPT ![n] = left]
           /\ \E e \in EntrySet : e.source = <<"VOID", n>> /\ e.lines = s /\ journal' = Append(journal, e)
  <2>1. PICK e \in EntrySet : e.source = <<"VOID", n>> /\ e.lines = s /\ journal' = Append(journal, e)
    BY <1>7
  <2>2. CASE k # n
    <3>1. orders'[k] = orders[k]
      BY <1>2, <1>7, <2>2
    <3> QED BY <3>1 DEF Handed
  <2>3. CASE k = n
    <3>1. orders'[n] = left
      BY <1>2, <1>7
    <3>2. journal' \in Seq(EntrySet)
      BY <1>2, <2>1
    <3>3. PICK gap, o : gap = TillGap(n)' - TillGap(n) /\ o = orders[n]
      OBVIOUS
    <3>4. gap = (left.handed + CashOf(n, Append(journal, e))) - (o.handed + CashOf(n, journal))
      BY <1>2, <2>1, <3>1, <3>2, <3>3, TillGapIs
    <3>5. Hands(o, left, gap)
      BY <1>2, <1>3, <1>4, <2>1, <3>3, <3>4, UndoneGap
    <3> QED BY <2>3, <3>1, <3>3, <3>5 DEF Handed
  <2> QED BY <2>2, <2>3
<1> QED BY <1>5, <1>6, <1>7, PostMade

\* Suppliers' documents are not about an order.
LEMMA SupplyHanded == ASSUME RefundsInv, PostingsInv', NEW k \in DOMAIN orders, Supply PROVE Handed(k)
<1>0. PostingsInv
  BY DEF RefundsInv
<1>1. \A s, lines, ow, bs, cs : Post(<<s>>, lines, orders, ow, bs, cs) => Handed(k)
  BY <1>0, OrdersStay
<1>2. \A s, lines : Plain(<<s>>, lines) => Handed(k)
  BY <1>1 DEF Plain
<1>3. CASE \E p \in Deliveries : Deliver(p)
  BY <1>1, <1>3 DEF Deliver
<1>4. CASE \E unit \in DOMAIN owed, amount \in Amounts : PaySupplier(unit, amount)
  BY <1>1, <1>4 DEF PaySupplier
<1>5. CASE \E s \in Scraps : BuyBack(s) \/ WriteOff(s)
  BY <1>2, <1>5 DEF BuyBack, WriteOff
<1>6. CASE \E s, t \in Scraps : Melt(s, t)
  BY <1>2, <1>6 DEF Melt
<1> QED BY <1>3, <1>4, <1>5, <1>6 DEF Supply

\* Nor are invoices, bills, settlements and transfers.
LEMMA AccountHanded == ASSUME RefundsInv, PostingsInv', NEW k \in DOMAIN orders, Account PROVE Handed(k)
<1>0. PostingsInv
  BY DEF RefundsInv
<1>1. \A s, lines, ow, bs, cs : Post(<<s>>, lines, orders, ow, bs, cs) => Handed(k)
  BY <1>0, OrdersStay
<1>2. ASSUME NEW currency, NEW amount, NEW rate, Invoice(currency, amount, rate) PROVE Handed(k)
  BY <1>1, <1>2 DEF Invoice
<1>3. ASSUME NEW currency, NEW amounts, NEW rate, NEW from, EnterBill(currency, amounts, rate, from) PROVE Handed(k)
  <2>1. PICK s, lines, bs : Post(<<s>>, lines, orders, owed, bs, credits)
    BY <1>3 DEF EnterBill
  <2> QED BY <1>1, <2>1
<1>4. ASSUME NEW side, NEW currency, NEW amount, NEW tender, NEW rate, Settle(side, currency, amount, tender, rate)
      PROVE  Handed(k)
  <2>1. PICK s, lines, bs, cs : Post(<<s>>, lines, orders, owed, bs, cs)
    BY <1>4 DEF Settle
  <2> QED BY <1>1, <2>1
<1>5. ASSUME NEW from, NEW to, NEW amount, NEW arrives, NEW rate, Transfer(from, to, amount, arrives, rate)
      PROVE  Handed(k)
  <2>1. PICK s, lines : Plain(<<s>>, lines)
    BY <1>5 DEF Transfer
  <2> QED BY <1>1, <2>1 DEF Plain
<1> QED BY <1>2, <1>3, <1>4, <1>5 DEF Account

\* Whatever the document, an order is handed what its refunds take.
LEMMA HandedStep == RefundsInv /\ [Next]_vars => \A n \in DOMAIN orders : Handed(n)
<1> SUFFICES ASSUME RefundsInv, [Next]_vars, NEW k \in DOMAIN orders PROVE Handed(k)
  OBVIOUS
<1>1. PostingsInv'
  BY PostingsStep DEF RefundsInv
<1>2. CASE Trade
  <2>1. CASE \E cart \in Carts, pay \in Tills, percent \in Discounts : Sell(cart, pay, percent)
    <3>1. PICK source, s, o, bs : Post(source, s, Append(orders, o), owed, bs, credits)
      BY <2>1 DEF Sell
    <3>2. PICK os : os = Append(orders, o)
      OBVIOUS
    <3>3. Post(source, s, os, owed, bs, credits)
      BY <3>1, <3>2
    <3>4. UNCHANGED <<journal, orders>> \/ orders' = os
      BY <1>1, <3>3, PostMade
    <3>5. orders \in Seq(OrderSet)
      BY DEF RefundsInv, PostingsInv, PostingsTyped
    <3>6. orders'[k] = orders[k]
      BY <3>2, <3>4, <3>5
    <3> QED BY <3>6 DEF Handed
  <2>2. CASE \E n \in DOMAIN orders : \E i \in DOMAIN orders[n].items :
               \E qty \in 1..orders[n].items[i].qty : RefundItem(n, i, qty)
    BY <1>1, <2>2, RefundHanded
  <2>3. CASE \E n \in DOMAIN orders, status \in {"VOIDED", "REFUNDED"} : Undo(n, status)
    BY <1>1, <2>3, UndoHanded
  <2> QED BY <1>2, <2>1, <2>2, <2>3 DEF Trade
<1>3. CASE Supply
  BY <1>1, <1>3, SupplyHanded
<1>4. CASE Account
  BY <1>1, <1>4, AccountHanded
<1>5. CASE UNCHANGED <<journal, orders>>
  BY <1>5 DEF Handed
<1> QED BY <1>2, <1>3, <1>4, <1>5 DEF Next, NextDay, SetVat, vars

\* POST /orders/{id}/items/{id}/refund: what the entry of a refund takes from
\* the cash account is what the till hands out, within the cents the property names.
THEOREM RefundsHandedOut == Spec => CashIsHandedOut
<1>1. ASSUME RefundsInv, [Next]_vars
      PROVE  \A n \in DOMAIN orders :
               LET left == orders'[n].subtotal
                   value == orders[n].subtotal - left
                   gap == TillGap(n)' - TillGap(n)
               IN  \/ orders'[n] = orders[n] \/ orders'[n].retaxed
                   \/ IF orders[n].percent = 0 THEN Within(gap, 1)
                      ELSE left = 0 \/ Within(2 * left * gap, 5 * left + value)
  BY <1>1, HandedStep DEF Handed, Hands
<1> QED BY <1>1, RefundsHold, PTL DEF Spec, CashIsHandedOut
=============================================================================
