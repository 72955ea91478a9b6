---------------------------- MODULE Office_proofs ----------------------------
(***************************************************************************)
(* What vouchers, overlapping verifications, updates of accounts and       *)
(* imports leave behind, for any number of staff, entries, handovers,      *)
(* accounts, files and requests.                                           *)
(*                                                                         *)
(* The statements of the books need only that every entry is balanced and  *)
(* has its lines on the chart; the cash book needs that the transactions   *)
(* beside the entries carry what the entries move (BooksInv).              *)
(*                                                                         *)
(* Each of the other three properties speaks of something a request read   *)
(* before it writes, so each needs an invariant about what the requests    *)
(* hold: HandingInv, UpdatesInv and ImportsInv.                            *)
(*                                                                         *)
(* The pages that read the tables of Portfolio rest on what the writers    *)
(* keep true of them (TablesInv), and on what a page knows while it reads  *)
(* one statement after another: BoardInv, DeskInv and ListsInv.            *)
(***************************************************************************)
EXTENDS BackOffice, Paise_proofs, FiniteSetTheorems, TLAPS

-----------------------------------------------------------------------------
(* The books. *)

Lines == [account : Accounts, debit : Int, credit : Int]
EntryRows == [date : Nat, lines : Seq(Lines)]
CashRecords == [date : Nat, type : {"inflow", "outflow"}, amount : Int]

BooksTyped ==
  /\ journal \in Seq(EntryRows)
  /\ \A i \in DOMAIN journal : Acceptable(journal[i].lines)
  /\ cash \in Seq(CashRecords)

\* Over any dates, what flowed in and out is what the cash and bank accounts moved.
CashFollows ==
  \A dates \in SUBSET Nat :
    Flow("inflow", dates) - Flow("outflow", dates)
      = Debited(Money, dates) - Credited(Money, dates)

\* No account is in the chart twice.
LEMMA ChartOnce ==
  /\ Len(Chart) = 10 /\ DOMAIN Chart = 1..10
  /\ \A i \in 1..10 : Chart[i] \in Accounts
  /\ \A i, j \in 1..10 : Chart[i] = Chart[j] => i = j
<1>1. Chart = <<"1001", "1002", "1100", "4001", "4002", "4003", "5007", "5001", "5004", "5099">>
  BY DEF Chart, Cash, Bank, Receivable, Interest, Fees, Penalties, Discount
<1>2. Len(Chart) = 10 /\ DOMAIN Chart = 1..10
  BY <1>1
<1>3. /\ Chart[1] = "1001" /\ Chart[2] = "1002" /\ Chart[3] = "1100" /\ Chart[4] = "4001"
      /\ Chart[5] = "4002" /\ Chart[6] = "4003" /\ Chart[7] = "5007" /\ Chart[8] = "5001"
      /\ Chart[9] = "5004" /\ Chart[10] = "5099"
  BY <1>1
<1>4. \A i \in 1..10 : \/ i = 1 \/ i = 2 \/ i = 3 \/ i = 4 \/ i = 5
                        \/ i = 6 \/ i = 7 \/ i = 8 \/ i = 9 \/ i = 10
  OBVIOUS
<1>5. \A i, j \in 1..10 : Chart[i] = Chart[j] => i = j
  BY <1>3, <1>4
<1> QED
  BY <1>2, <1>5 DEF Accounts

-----------------------------------------------------------------------------
\* What lines carry is an integer, and adds up over disjoint accounts.
LEMMA LinesAdd ==
  ASSUME NEW lines \in Seq(Lines)
  PROVE  /\ \A S : DebitsOn(S, lines) \in Int /\ CreditsOn(S, lines) \in Int
         /\ \A S, T : S \cap T = {} =>
              /\ DebitsOn(S \cup T, lines) = DebitsOn(S, lines) + DebitsOn(T, lines)
              /\ CreditsOn(S \cup T, lines) = CreditsOn(S, lines) + CreditsOn(T, lines)
<1>1. PICK n \in Nat : n = Len(lines)
  OBVIOUS
<1>2. DOMAIN lines = 1..n
  BY <1>1
<1>3. \A k \in 1..n : lines[k].debit \in Int /\ lines[k].credit \in Int
  <2>1. \A k \in 1..n : lines[k] \in Lines
    BY <1>2
  <2> QED
    BY <2>1 DEF Lines
<1> DEFINE d(S) == [k \in 1..n |-> IF lines[k].account \in S THEN lines[k].debit ELSE 0]
           c(S) == [k \in 1..n |-> IF lines[k].account \in S THEN lines[k].credit ELSE 0]
<1>4. ASSUME NEW S PROVE d(S) \in [1..n -> Int] /\ c(S) \in [1..n -> Int]
  BY <1>3
<1>5. ASSUME NEW S PROVE DebitsOn(S, lines) = Total(n, d(S)) /\ CreditsOn(S, lines) = Total(n, c(S))
  BY <1>1, <1>2 DEF DebitsOn, CreditsOn
<1>6. ASSUME NEW S, NEW T, S \cap T = {}
      PROVE  \A k \in 1..n : d(S \cup T)[k] = d(S)[k] + d(T)[k] /\ c(S \cup T)[k] = c(S)[k] + c(T)[k]
  BY <1>3, <1>6
<1> HIDE DEF d, c
<1>7. ASSUME NEW S PROVE DebitsOn(S, lines) \in Int /\ CreditsOn(S, lines) \in Int
  BY <1>4, <1>5, TotalType
<1>8. ASSUME NEW S, NEW T, S \cap T = {}
      PROVE  /\ DebitsOn(S \cup T, lines) = DebitsOn(S, lines) + DebitsOn(T, lines)
             /\ CreditsOn(S \cup T, lines) = CreditsOn(S, lines) + CreditsOn(T, lines)
  <2>0. \A i \in 1..n : d(S \cup T)[i] = d(S)[i] + d(T)[i] /\ c(S \cup T)[i] = c(S)[i] + c(T)[i]
    BY <1>6, <1>8, SMTT(60)
  <2>1. d(S \cup T) \in [1..n -> Int] /\ d(S) \in [1..n -> Int] /\ d(T) \in [1..n -> Int]
    BY <1>4
  <2>2. c(S \cup T) \in [1..n -> Int] /\ c(S) \in [1..n -> Int] /\ c(T) \in [1..n -> Int]
    BY <1>4
  <2>3. Total(n, d(S \cup T)) = Total(n, d(S)) + Total(n, d(T))
    BY <2>0, <2>1, TotalSum
  <2>4. Total(n, c(S \cup T)) = Total(n, c(S)) + Total(n, c(T))
    BY <2>0, <2>2, TotalSum
  <2> QED
    BY <2>3, <2>4, <1>5
<1> QED
  BY <1>7, <1>8

\* So does the turnover of entries, over disjoint accounts and over disjoint dates.
LEMMA TurnoverAdds ==
  ASSUME BooksTyped
  PROVE  /\ \A S, D : Debited(S, D) \in Int /\ Credited(S, D) \in Int
         /\ \A S, T, D : S \cap T = {} =>
              /\ Debited(S \cup T, D) = Debited(S, D) + Debited(T, D)
              /\ Credited(S \cup T, D) = Credited(S, D) + Credited(T, D)
         /\ \A S, D, E : D \cap E = {} =>
              /\ Debited(S, D \cup E) = Debited(S, D) + Debited(S, E)
              /\ Credited(S, D \cup E) = Credited(S, D) + Credited(S, E)
<1>1. PICK n \in Nat : n = Len(journal)
  BY DEF BooksTyped
<1>2. DOMAIN journal = 1..n
  BY <1>1 DEF BooksTyped
<1>3. \A i \in 1..n : journal[i].lines \in Seq(Lines)
  <2>1. \A i \in 1..n : journal[i] \in EntryRows
    BY <1>2 DEF BooksTyped
  <2> QED
    BY <2>1 DEF EntryRows
<1> DEFINE d(S, D) == [i \in 1..n |-> IF journal[i].date \in D THEN DebitsOn(S, journal[i].lines) ELSE 0]
           c(S, D) == [i \in 1..n |-> IF journal[i].date \in D THEN CreditsOn(S, journal[i].lines) ELSE 0]
<1>4. ASSUME NEW S, NEW D PROVE d(S, D) \in [1..n -> Int] /\ c(S, D) \in [1..n -> Int]
  BY <1>3, LinesAdd
<1>5. ASSUME NEW S, NEW D
      PROVE  Debited(S, D) = Total(n, d(S, D)) /\ Credited(S, D) = Total(n, c(S, D))
  BY <1>1, <1>2 DEF Debited, Credited
<1>6. ASSUME NEW S, NEW D PROVE Debited(S, D) \in Int /\ Credited(S, D) \in Int
  <2> HIDE DEF d, c
  <2> QED
    BY <1>4, <1>5, TotalType
<1>7. ASSUME NEW S, NEW T, NEW D, S \cap T = {}
      PROVE  /\ Debited(S \cup T, D) = Debited(S, D) + Debited(T, D)
             /\ Credited(S \cup T, D) = Credited(S, D) + Credited(T, D)
  <2>0. \A i \in 1..n : d(S \cup T, D)[i] = d(S, D)[i] + d(T, D)[i] /\ c(S \cup T, D)[i] = c(S, D)[i] + c(T, D)[i]
    BY <1>3, <1>7, LinesAdd, SMTT(60)
  <2> HIDE DEF d, c
  <2>1. d(S \cup T, D) \in [1..n -> Int] /\ d(S, D) \in [1..n -> Int] /\ d(T, D) \in [1..n -> Int]
    BY <1>4
  <2>2. c(S \cup T, D) \in [1..n -> Int] /\ c(S, D) \in [1..n -> Int] /\ c(T, D) \in [1..n -> Int]
    BY <1>4
  <2>3. Total(n, d(S \cup T, D)) = Total(n, d(S, D)) + Total(n, d(T, D))
    BY <2>0, <2>1, TotalSum
  <2>4. Total(n, c(S \cup T, D)) = Total(n, c(S, D)) + Total(n, c(T, D))
    BY <2>0, <2>2, TotalSum
  <2> QED
    BY <2>3, <2>4, <1>5
<1>8. ASSUME NEW S, NEW D, NEW E, D \cap E = {}
       PROVE  /\ Debited(S, D \cup E) = Debited(S, D) + Debited(S, E)
              /\ Credited(S, D \cup E) = Credited(S, D) + Credited(S, E)
  <2>0. \A i \in 1..n : d(S, D \cup E)[i] = d(S, D)[i] + d(S, E)[i] /\ c(S, D \cup E)[i] = c(S, D)[i] + c(S, E)[i]
    BY <1>3, <1>8, LinesAdd
  <2> HIDE DEF d, c
  <2>1. d(S, D \cup E) \in [1..n -> Int] /\ d(S, D) \in [1..n -> Int] /\ d(S, E) \in [1..n -> Int]
    BY <1>4
  <2>2. c(S, D \cup E) \in [1..n -> Int] /\ c(S, D) \in [1..n -> Int] /\ c(S, E) \in [1..n -> Int]
    BY <1>4
  <2>3. Total(n, d(S, D \cup E)) = Total(n, d(S, D)) + Total(n, d(S, E))
    BY <2>0, <2>1, TotalSum
  <2>4. Total(n, c(S, D \cup E)) = Total(n, c(S, D)) + Total(n, c(S, E))
    BY <2>0, <2>2, TotalSum
  <2> QED
    BY <2>3, <2>4, <1>5
<1> QED
  BY <1>6, <1>7, <1>8

\* Every entry is balanced, so over all accounts the debits are the credits.
LEMMA DoubleEntry ==
  ASSUME BooksTyped, NEW D
  PROVE  Debited(Accounts, D) = Credited(Accounts, D)
<1>1. \A i \in DOMAIN journal : DebitsOn(Accounts, journal[i].lines) = CreditsOn(Accounts, journal[i].lines)
  BY DEF BooksTyped, Acceptable, Debits, Credits
<1> QED
  BY <1>1 DEF Debited, Credited

-----------------------------------------------------------------------------
(* The statements. *)

\* The net movement of some accounts on some dates.
Net(S, D) == Debited(S, D) - Credited(S, D)

\* Nets over disjoint accounts, or over disjoint dates, add up.
LEMMA NetAdds ==
  ASSUME BooksTyped
  PROVE  /\ \A S, D : Net(S, D) \in Int
         /\ \A S, T, D : S \cap T = {} => Net(S \cup T, D) = Net(S, D) + Net(T, D)
         /\ \A S, D, E : D \cap E = {} => Net(S, D \cup E) = Net(S, D) + Net(S, E)
         /\ \A D : Net({}, D) = 0
         /\ \A S : Net(S, {}) = 0
<1>1. ASSUME NEW S, NEW D PROVE Debited(S, D) \in Int /\ Credited(S, D) \in Int
  BY TurnoverAdds
<1>2. ASSUME NEW S, NEW T, NEW D, S \cap T = {}
      PROVE  Net(S \cup T, D) = Net(S, D) + Net(T, D)
  <2>1. /\ Debited(S \cup T, D) = Debited(S, D) + Debited(T, D)
        /\ Credited(S \cup T, D) = Credited(S, D) + Credited(T, D)
    <3>1. \A X, Y, Z : X \cap Y = {} => /\ Debited(X \cup Y, Z) = Debited(X, Z) + Debited(Y, Z)
                                       /\ Credited(X \cup Y, Z) = Credited(X, Z) + Credited(Y, Z)
      BY TurnoverAdds
    <3>2. S \cap T = {}
      BY <1>2
    <3> QED
      BY <3>1, <3>2
  <2>2. PICK U : U = S \cup T
    OBVIOUS
  <2>3. /\ Debited(S, D) \in Int /\ Debited(T, D) \in Int /\ Debited(U, D) \in Int
        /\ Credited(S, D) \in Int /\ Credited(T, D) \in Int /\ Credited(U, D) \in Int
    BY <1>1
  <2> QED
    BY <2>1, <2>2, <2>3 DEF Net
<1>3. ASSUME NEW S, NEW D, NEW E, D \cap E = {}
      PROVE  Net(S, D \cup E) = Net(S, D) + Net(S, E)
  <2>1. /\ Debited(S, D \cup E) = Debited(S, D) + Debited(S, E)
        /\ Credited(S, D \cup E) = Credited(S, D) + Credited(S, E)
    <3>1. \A X, Y, Z : Y \cap Z = {} => /\ Debited(X, Y \cup Z) = Debited(X, Y) + Debited(X, Z)
                                       /\ Credited(X, Y \cup Z) = Credited(X, Y) + Credited(X, Z)
      BY TurnoverAdds
    <3>2. D \cap E = {}
      BY <1>3
    <3> QED
      BY <3>1, <3>2
  <2>2. PICK U : U = D \cup E
    OBVIOUS
  <2>3. /\ Debited(S, D) \in Int /\ Debited(S, E) \in Int /\ Debited(S, U) \in Int
        /\ Credited(S, D) \in Int /\ Credited(S, E) \in Int /\ Credited(S, U) \in Int
    BY <1>1
  <2> QED
    BY <2>1, <2>2, <2>3 DEF Net
<1>4. ASSUME NEW S, NEW D PROVE Net(S, D) \in Int
  BY <1>1 DEF Net
<1>5. ASSUME NEW D PROVE Net({}, D) = 0
  <2>1. Net({} \cup {}, D) = Net({}, D) + Net({}, D)
    BY <1>2
  <2>2. {} \cup {} = {}
    OBVIOUS
  <2> QED
    BY <1>4, <2>1, <2>2
<1>6. ASSUME NEW S PROVE Net(S, {}) = 0
  <2>1. Net(S, {} \cup {}) = Net(S, {}) + Net(S, {})
    BY <1>3
  <2>2. {} \cup {} = {}
    OBVIOUS
  <2> QED
    BY <1>4, <2>1, <2>2
<1> QED
  BY <1>2, <1>3, <1>4, <1>5, <1>6

\* Over all accounts the movements cancel.
LEMMA NetsCancel ==
  ASSUME BooksTyped, NEW D
  PROVE  Net(Accounts, D) = 0
BY DoubleEntry, TurnoverAdds DEF Net

\* The movement of some accounts is the sum over the chart.
OnChart(S, D) == [i \in 1..10 |-> IF Chart[i] \in S THEN Net({Chart[i]}, D) ELSE 0]

\* The balances of a set of accounts add up along the chart.
LEMMA ChartAddsUp ==
  ASSUME BooksTyped, NEW D, NEW S \in SUBSET Accounts
  PROVE  OnChart(S, D) \in [1..10 -> Int] /\ Total(10, OnChart(S, D)) = Net(S, D)
<1> DEFINE upTo(k) == {Chart[i] : i \in 1..k} \cap S
           s == [k \in 0..10 |-> Net(upTo(k), D)]
<1>1. OnChart(S, D) \in [1..10 -> Int]
  BY NetAdds DEF OnChart
<1>2. upTo(0) = {}
  OBVIOUS
<1>3. s[0] = 0
  BY <1>2, NetAdds
<1>4. upTo(10) = S
  BY ChartOnce DEF Accounts
<1>5. s[10] = Net(S, D)
  BY <1>4
<1>6. ASSUME NEW k \in 1..10 PROVE s[k] = s[k - 1] + OnChart(S, D)[k]
  <2>1. /\ k - 1 \in 0..10 /\ k \in 0..10 /\ s[k] = Net(upTo(k), D) /\ s[k - 1] = Net(upTo(k - 1), D)
        /\ OnChart(S, D)[k] = IF Chart[k] \in S THEN Net({Chart[k]}, D) ELSE 0
    BY DEF OnChart
  <2>2. Net(upTo(k - 1), D) \in Int
    BY NetAdds
  <2>3. \A i \in 1..k : i \in 1..(k - 1) \/ i = k
    OBVIOUS
  <2>4. k \in 1..k /\ \A i \in 1..(k - 1) : i \in 1..k /\ i # k /\ i \in 1..10
    OBVIOUS
  <2>5. {Chart[i] : i \in 1..k} = {Chart[i] : i \in 1..(k - 1)} \cup {Chart[k]}
    BY <2>3, <2>4
  <2>6. Chart[k] \notin {Chart[i] : i \in 1..(k - 1)}
    BY <2>4, ChartOnce
  <2>7. CASE Chart[k] \in S
    <3>1. upTo(k) = upTo(k - 1) \cup {Chart[k]} /\ upTo(k - 1) \cap {Chart[k]} = {}
      BY <2>5, <2>6, <2>7
    <3> HIDE DEF upTo
    <3>2. Net(upTo(k), D) = Net(upTo(k - 1), D) + Net({Chart[k]}, D)
      BY <3>1, NetAdds
    <3> QED
      BY <2>1, <2>7, <3>2
  <2>8. CASE Chart[k] \notin S
    <3>1. upTo(k) = upTo(k - 1)
      BY <2>5, <2>8
    <3> HIDE DEF upTo
    <3> QED
      BY <2>1, <2>2, <2>8, <3>1
  <2> QED
    BY <2>7, <2>8
<1> HIDE DEF s
<1>7. Total(10, OnChart(S, D)) = s[10]
  BY <1>1, <1>3, <1>6, TotalIs
<1> QED
  BY <1>1, <1>5, <1>7

\* Every account is of one of three categories, which have their normal sides.
LEMMA Categories ==
  /\ Accounts = OfCategory("asset") \cup (OfCategory("income") \cup OfCategory("expense"))
  /\ OfCategory("asset") \cap (OfCategory("income") \cup OfCategory("expense")) = {}
  /\ OfCategory("income") \cap OfCategory("expense") = {}
  /\ OfCategory("liability") = {} /\ OfCategory("equity") = {}
  /\ \A a \in OfCategory("asset") \cup OfCategory("expense") : DebitNormal(a)
  /\ \A a \in OfCategory("income") : ~DebitNormal(a)
<1>1. \A a : Category(a) \in {"asset", "income", "expense"}
  BY DEF Category
<1> QED
  BY <1>1 DEF OfCategory, DebitNormal

\* A balance is the net of the account, on the side it grows.
LEMMA BalanceIs ==
  ASSUME BooksTyped, NEW D, NEW a
  PROVE  Balance(a, D) = IF DebitNormal(a) THEN Net({a}, D) ELSE - Net({a}, D)
<1>1. Debited({a}, D) \in Int /\ Credited({a}, D) \in Int
  BY TurnoverAdds
<1> QED
  BY <1>1 DEF Balance, Net

\* The sum over a category is the movement of its accounts, on its normal side.
LEMMA SumOverIs ==
  ASSUME BooksTyped, NEW D
  PROVE  /\ SumOver("asset", D) = Net(OfCategory("asset"), D)
         /\ SumOver("expense", D) = Net(OfCategory("expense"), D)
         /\ SumOver("income", D) = - Net(OfCategory("income"), D)
         /\ SumOver("liability", D) = 0 /\ SumOver("equity", D) = 0
<1> DEFINE f(c) == [i \in 1..10 |-> IF Chart[i] \in OfCategory(c) THEN Balance(Chart[i], D) ELSE 0]
<1>1. ASSUME NEW c PROVE SumOver(c, D) = Total(10, f(c)) /\ OfCategory(c) \in SUBSET Accounts
  <2>1. \A i \in 1..10 : Chart[i] \in OfCategory(c) <=> Category(Chart[i]) = c
    BY ChartOnce DEF OfCategory
  <2>2. OfCategory(c) \in SUBSET Accounts
    BY DEF OfCategory
  <2> QED
    BY <2>1, <2>2, ChartOnce DEF SumOver
<1>2. ASSUME NEW c \in {"asset", "expense", "liability", "equity"}
      PROVE  SumOver(c, D) = Net(OfCategory(c), D)
  <2>1. \A a \in OfCategory(c) : DebitNormal(a)
    BY Categories
  <2>2. f(c) = OnChart(OfCategory(c), D)
    BY <2>1, BalanceIs DEF OnChart
  <2> HIDE DEF f
  <2> QED
    BY <1>1, <2>2, ChartAddsUp
<1>3. SumOver("income", D) = - Net(OfCategory("income"), D)
  <2> DEFINE g == OnChart(OfCategory("income"), D)
  <2>1. g \in [1..10 -> Int] /\ Total(10, g) = Net(OfCategory("income"), D)
    BY <1>1, ChartAddsUp
  <2>2. \A a : Net({a}, D) \in Int
    BY NetAdds
  <2>3. ASSUME NEW i \in 1..10 PROVE f("income")[i] = - g[i] /\ f("income")[i] \in Int
    <3>1. CASE Chart[i] \in OfCategory("income")
      <4>1. PICK a : a = Chart[i]
        OBVIOUS
      <4>2. Balance(a, D) = - Net({a}, D) /\ Net({a}, D) \in Int
        BY <2>2, <3>1, <4>1, Categories, BalanceIs
      <4>3. f("income")[i] = Balance(a, D) /\ g[i] = Net({a}, D)
        BY <3>1, <4>1 DEF OnChart
      <4> QED
        BY <4>2, <4>3
    <3>2. CASE Chart[i] \notin OfCategory("income")
      BY <3>2 DEF OnChart
    <3> QED
      BY <3>1, <3>2
  <2>4. f("income") \in [1..10 -> Int]
    BY <2>3
  <2> HIDE DEF f, g
  <2>5. Total(10, f("income")) = - Total(10, g)
    BY <2>1, <2>3, <2>4, TotalNegated
  <2> QED
    BY <1>1, <2>1, <2>5
<1> QED
  BY <1>2, <1>3, Categories, NetAdds

\* The columns of an account differ by its movement.
LEMMA ColumnIs ==
  ASSUME BooksTyped, NEW D, NEW a
  PROVE  /\ Column(a, "debit", D) \in Int /\ Column(a, "credit", D) \in Int
         /\ Column(a, "debit", D) = Column(a, "credit", D) + Net({a}, D)
<1>1. Net({a}, D) \in Int /\ DebitNormal(a) \in BOOLEAN
  BY NetAdds DEF DebitNormal
<1>2. PICK b : b = Balance(a, D)
  OBVIOUS
<1>3. b = IF DebitNormal(a) THEN Net({a}, D) ELSE - Net({a}, D)
  BY <1>2, BalanceIs
<1>4. b \in Int
  BY <1>1, <1>3
<1>5. /\ Column(a, "debit", D) = IF TRUE = (DebitNormal(a) = (b >= 0)) THEN Magnitude(b) ELSE 0
      /\ Column(a, "credit", D) = IF FALSE = (DebitNormal(a) = (b >= 0)) THEN Magnitude(b) ELSE 0
  <2>1. ("debit" = "debit") = TRUE /\ ("credit" = "debit") = FALSE
    OBVIOUS
  <2> QED
    BY <1>2, <2>1, Zenon DEF Column
<1>6. /\ TRUE = (DebitNormal(a) = (b >= 0)) <=> (DebitNormal(a) <=> b >= 0)
      /\ FALSE = (DebitNormal(a) = (b >= 0)) <=> ~(DebitNormal(a) <=> b >= 0)
  BY <1>1, <1>4 DEF DebitNormal
<1>7. CASE DebitNormal(a) <=> b >= 0
  <2>1. Column(a, "debit", D) = Magnitude(b) /\ Column(a, "credit", D) = 0
    BY <1>5, <1>6, <1>7, Zenon
  <2> QED
    BY <1>1, <1>3, <1>7, <2>1 DEF Magnitude
<1>8. CASE ~(DebitNormal(a) <=> b >= 0)
  <2>1. Column(a, "debit", D) = 0 /\ Column(a, "credit", D) = Magnitude(b)
    BY <1>5, <1>6, <1>8, Zenon
  <2> QED
    BY <1>1, <1>3, <1>8, <2>1 DEF Magnitude
<1> QED
  BY <1>7, <1>8

\* The trial balance balances.
LEMMA TrialBalanceBalances ==
  ASSUME BooksTyped, NEW date
  PROVE  TrialBalance(date).debit = TrialBalance(date).credit
<1> DEFINE D == UpTo(date)
           f == [i \in 1..10 |-> Column(Chart[i], "debit", D)]
           g == [i \in 1..10 |-> Column(Chart[i], "credit", D)]
           h == OnChart(Accounts, D)
<1>1. f \in [1..10 -> Int] /\ g \in [1..10 -> Int]
  BY ColumnIs
<1>2. TrialBalance(date).debit = Total(10, f) /\ TrialBalance(date).credit = Total(10, g)
  BY ChartOnce DEF TrialBalance
<1>3. \A i \in 1..10 : f[i] = g[i] + h[i]
  BY ColumnIs, ChartOnce DEF OnChart
<1>4. h \in [1..10 -> Int] /\ Total(10, h) = 0
  BY ChartAddsUp, NetsCancel
<1> HIDE DEF f, g, h
<1>5. \A n \in Nat : f \in [1..n -> Int] /\ g \in [1..n -> Int] /\ h \in [1..n -> Int]
                       /\ (\A i \in 1..n : f[i] = g[i] + h[i])
                     => Total(n, f) = Total(n, g) + Total(n, h)
  <2>1. PICK ff, gg, hh : ff = f /\ gg = g /\ hh = h
    OBVIOUS
  <2>2. ASSUME NEW n \in Nat, ff \in [1..n -> Int], gg \in [1..n -> Int], hh \in [1..n -> Int],
               \A i \in 1..n : ff[i] = gg[i] + hh[i]
        PROVE  Total(n, ff) = Total(n, gg) + Total(n, hh)
    BY <2>2, TotalSum
  <2> QED
    BY <2>1, <2>2
<1>6. Total(10, f) = Total(10, g) + Total(10, h)
  BY <1>1, <1>3, <1>4, <1>5
<1>7. Total(10, g) \in Int
  BY <1>1, TotalType
<1> QED
  BY <1>2, <1>4, <1>6, <1>7

\* The profit on some dates, which getProfitAndLoss shows and the balance sheet adds up.
Profit(D) == - Net(OfCategory("income"), D) - Net(OfCategory("expense"), D)

\* Profits over disjoint dates add up.
LEMMA ProfitIs ==
  ASSUME BooksTyped
  PROVE  /\ \A D : Profit(D) \in Int
         /\ Profit({}) = 0
         /\ \A D, E : D \cap E = {} => Profit(D \cup E) = Profit(D) + Profit(E)
         /\ \A first, last : NetProfit(first, last) = Profit(first..last)
         /\ \A date : Assets(date) = Profit(UpTo(date)) /\ LiabilitiesAndEquity(date) = Profit(UpTo(date))
<1>1. \A S, D : Net(S, D) \in Int
  BY NetAdds
<1>2. ASSUME NEW D PROVE Profit(D) \in Int
  BY <1>1 DEF Profit
<1>3. Profit({}) = 0
  BY NetAdds DEF Profit
<1>4. ASSUME NEW D, NEW E, D \cap E = {} PROVE Profit(D \cup E) = Profit(D) + Profit(E)
  <2>1. PICK i, x : i = OfCategory("income") /\ x = OfCategory("expense")
    OBVIOUS
  <2>2. PICK U : U = D \cup E
    OBVIOUS
  <2>3. \A X, Y, Z : Y \cap Z = {} => Net(X, Y \cup Z) = Net(X, Y) + Net(X, Z)
    BY NetAdds
  <2>4. D \cap E = {}
    BY <1>4
  <2>5. Net(i, U) = Net(i, D) + Net(i, E) /\ Net(x, U) = Net(x, D) + Net(x, E)
    BY <2>2, <2>3, <2>4
  <2>6. /\ Net(i, D) \in Int /\ Net(i, E) \in Int /\ Net(x, D) \in Int /\ Net(x, E) \in Int
    BY <1>1
  <2>7. /\ Profit(U) = - Net(i, U) - Net(x, U)
        /\ Profit(D) = - Net(i, D) - Net(x, D)
        /\ Profit(E) = - Net(i, E) - Net(x, E)
    BY <2>1 DEF Profit
  <2>8. Profit(U) = Profit(D) + Profit(E)
    BY <2>5, <2>6, <2>7
  <2> QED
    BY <2>2, <2>8
<1>5. ASSUME NEW first, NEW last PROVE NetProfit(first, last) = Profit(first..last)
  BY SumOverIs DEF NetProfit, Profit
<1>6. ASSUME NEW date
      PROVE  Assets(date) = Profit(UpTo(date)) /\ LiabilitiesAndEquity(date) = Profit(UpTo(date))
  <2>1. PICK D : D = UpTo(date)
    OBVIOUS
  <2>2. PICK a, i, x : a = OfCategory("asset") /\ i = OfCategory("income") /\ x = OfCategory("expense")
    OBVIOUS
  <2>3. /\ Accounts = a \cup (i \cup x) /\ a \cap (i \cup x) = {} /\ i \cap x = {}
    BY <2>2, Categories
  <2>4. \A X, Y, Z : X \cap Y = {} => Net(X \cup Y, Z) = Net(X, Z) + Net(Y, Z)
    BY NetAdds
  <2>5. Net(Accounts, D) = Net(a, D) + Net(i \cup x, D)
    BY <2>3, <2>4
  <2>6. Net(i \cup x, D) = Net(i, D) + Net(x, D)
    BY <2>3, <2>4
  <2>7. Net(a, D) \in Int /\ Net(i, D) \in Int /\ Net(x, D) \in Int /\ Net(Accounts, D) = 0
    BY <1>1, NetsCancel
  <2>8. Net(a, D) = - Net(i, D) - Net(x, D)
    BY <2>5, <2>6, <2>7
  <2>9. Assets(date) = Net(a, D) /\ Profit(UpTo(date)) = - Net(i, D) - Net(x, D)
    BY <2>1, <2>2, SumOverIs DEF Assets, Profit
  <2>10. LiabilitiesAndEquity(date) = 0 + 0 + (- Net(i, D)) - Net(x, D)
    BY <2>1, <2>2, SumOverIs DEF LiabilitiesAndEquity
  <2> QED
    BY <2>7, <2>8, <2>9, <2>10
<1> QED
  BY <1>2, <1>3, <1>4, <1>5, <1>6

\* The profit so far is the sum of the profits of the single days.
LEMMA ProfitsAddUp ==
  ASSUME BooksTyped, NEW date \in Nat
  PROVE  Profit(UpTo(date)) = Total(date + 1, [d \in 1..date + 1 |-> NetProfit(d - 1, d - 1)])
<1>1. PICK n \in Nat : n = date + 1
  OBVIOUS
<1> DEFINE f == [d \in 1..n |-> NetProfit(d - 1, d - 1)]
           s == [k \in 0..n |-> Profit(0..(k - 1))]
<1>2. \A d \in 1..n : f[d] = Profit({d - 1}) /\ f[d] \in Int
  <2>1. ASSUME NEW d \in 1..n PROVE f[d] = Profit({d - 1}) /\ f[d] \in Int
    <3>1. PICK D : D = (d - 1)..(d - 1)
      OBVIOUS
    <3>2. D = {d - 1}
      BY <3>1
    <3>3. f[d] = Profit(D)
      BY <3>1, ProfitIs
    <3>4. Profit(D) \in Int
      BY ProfitIs
    <3> QED
      BY <3>2, <3>3, <3>4
  <2> QED
    BY <2>1
<1>3. f \in [1..n -> Int]
  BY <1>2
<1>4. s[0] = 0
  <2>1. 0..(0 - 1) = {}
    OBVIOUS
  <2> QED
    BY <2>1, ProfitIs
<1>5. ASSUME NEW k \in 1..n PROVE s[k] = s[k - 1] + f[k]
  <2>1. s[k] = Profit(0..(k - 1)) /\ s[k - 1] = Profit(0..(k - 1 - 1)) /\ f[k] = Profit({k - 1})
    BY <1>2
  <2>2. PICK D, E, U : D = 0..(k - 1 - 1) /\ E = {k - 1} /\ U = 0..(k - 1)
    OBVIOUS
  <2>3. U = D \cup E /\ D \cap E = {}
    BY <2>2
  <2>4. Profit(U) = Profit(D) + Profit(E)
    BY <2>3, ProfitIs
  <2> QED
    BY <2>1, <2>2, <2>4
<1>6. s[n] = Profit(UpTo(date))
  <2>1. n - 1 = date
    BY <1>1
  <2> QED
    BY <2>1 DEF UpTo
<1> HIDE DEF f, s
<1>7. Total(n, f) = s[n]
  BY <1>3, <1>4, <1>5, TotalIs
<1> QED
  BY <1>1, <1>6, <1>7 DEF f

\* The statements agree on every date.
LEMMA TypedBooksAgree ==
  ASSUME BooksTyped
  PROVE  StatementsAgree
<1>1. Dates \in SUBSET Nat
  BY BooksAssumption DEF Dates
<1>2. ASSUME NEW date \in Dates
      PROVE  /\ TrialBalance(date).debit = TrialBalance(date).credit
             /\ Assets(date) = LiabilitiesAndEquity(date)
             /\ LiabilitiesAndEquity(date) =
                  Total(date + 1, [d \in 1..date + 1 |-> NetProfit(d - 1, d - 1)])
  <2>1. date \in Nat
    BY <1>1
  <2> QED
    BY <2>1, TrialBalanceBalances, ProfitIs, ProfitsAddUp
<1> QED
  BY <1>2 DEF StatementsAgree

-----------------------------------------------------------------------------
(* The cash book. *)

\* The transactions of one type on some dates.
FlowOf(records, type, D) ==
  Total(Len(records), [i \in DOMAIN records |->
    IF records[i].type = type /\ records[i].date \in D THEN records[i].amount ELSE 0])

\* What flows is an integer,
LEMMA FlowTyped ==
  ASSUME NEW records \in Seq(CashRecords), NEW type, NEW D
  PROVE  FlowOf(records, type, D) \in Int
<1>1. PICK n \in Nat : n = Len(records)
  OBVIOUS
<1> DEFINE f == [i \in 1..n |->
                   IF records[i].type = type /\ records[i].date \in D THEN records[i].amount ELSE 0]
<1>2. \A i \in 1..n : records[i].amount \in Int
  <2>1. \A i \in 1..n : records[i] \in CashRecords
    BY <1>1
  <2> QED
    BY <2>1 DEF CashRecords
<1>3. f \in [1..n -> Int] /\ FlowOf(records, type, D) = Total(n, f)
  BY <1>1, <1>2 DEF FlowOf
<1> HIDE DEF f
<1> QED
  BY <1>3, TotalType

\* and a record that is appended adds its amount on its date.
LEMMA FlowAppended ==
  ASSUME NEW records \in Seq(CashRecords), NEW r \in CashRecords, NEW type, NEW D
  PROVE  FlowOf(Append(records, r), type, D)
           = FlowOf(records, type, D) + (IF r.type = type /\ r.date \in D THEN r.amount ELSE 0)
<1>1. PICK n \in Nat : n = Len(records)
  OBVIOUS
<1>2. PICK more : more = Append(records, r)
  OBVIOUS
<1> DEFINE f == [i \in 1..n |->
                   IF records[i].type = type /\ records[i].date \in D THEN records[i].amount ELSE 0]
           g == [i \in 1..(n + 1) |->
                   IF more[i].type = type /\ more[i].date \in D THEN more[i].amount ELSE 0]
<1>3. /\ more \in Seq(CashRecords) /\ Len(more) = n + 1 /\ more[n + 1] = r
      /\ \A i \in 1..n : more[i] = records[i]
  BY <1>1, <1>2
<1>4. \A i \in 1..(n + 1) : more[i].amount \in Int
  <2>1. \A i \in 1..(n + 1) : more[i] \in CashRecords
    BY <1>3
  <2> QED
    BY <2>1 DEF CashRecords
<1>5. g \in [1..(n + 1) -> Int] /\ FlowOf(more, type, D) = Total(n + 1, g)
  BY <1>1, <1>3, <1>4 DEF FlowOf
<1>6. \A i \in 1..n : f[i] = g[i]
  BY <1>3
<1>7. f \in [1..n -> Int] /\ FlowOf(records, type, D) = Total(n, f)
  <2>1. \A i \in 1..n : records[i].amount \in Int
    BY <1>3, <1>4
  <2>2. f \in [1..n -> Int]
    BY <2>1
  <2>3. DOMAIN records = 1..n
    BY <1>1
  <2> QED
    BY <1>1, <2>2, <2>3 DEF FlowOf
<1>8. g[n + 1] = IF r.type = type /\ r.date \in D THEN r.amount ELSE 0
  BY <1>3
<1> HIDE DEF f, g
<1>9. Total(n + 1, g) = Total(n, f) + g[n + 1]
  BY <1>5, <1>6, <1>7, TotalAppend
<1> QED
  BY <1>2, <1>5, <1>7, <1>8, <1>9

\* While the cash transactions follow the journal, the cash book agrees with it.
LEMMA CashBookAgrees ==
  ASSUME BooksTyped, CashFollows
  PROVE  CashBookFollowsLedger
<1>1. ASSUME NEW D \in SUBSET Nat
      PROVE  Flow("inflow", D) - Flow("outflow", D) = Net(Money, D)
  BY CashFollows DEF CashFollows, Net
<1>2. ASSUME NEW D PROVE Flow("inflow", D) \in Int /\ Flow("outflow", D) \in Int
  <2>1. cash \in Seq(CashRecords)
    BY DEF BooksTyped
  <2> QED
    BY <2>1, FlowTyped DEF Flow, FlowOf
<1>3. ASSUME NEW day \in Nat \ {0}
      PROVE  /\ Opening(day) = Net(Money, UpTo(Stored(day) - 1))
             /\ Closing(day) = Net(Money, UpTo(Stored(day)))
  <2>1. PICK before, thatDay, all : /\ before = UpTo(Stored(day) - 1) /\ thatDay = {Stored(day)}
                                  /\ all = UpTo(Stored(day))
    OBVIOUS
  <2>2. before \in SUBSET Nat /\ thatDay \in SUBSET Nat /\ all = before \cup thatDay /\ before \cap thatDay = {}
    BY <2>1 DEF UpTo, Stored
  <2>3. Opening(day) = Net(Money, before)
    BY <1>1, <2>1, <2>2 DEF Opening
  <2>4. Closing(day) = Opening(day) + Flow("inflow", thatDay) - Flow("outflow", thatDay)
    BY <2>1 DEF Closing
  <2>5. Flow("inflow", thatDay) - Flow("outflow", thatDay) = Net(Money, thatDay)
    BY <1>1, <2>2
  <2>6. Net(Money, all) = Net(Money, before) + Net(Money, thatDay)
    <3>1. \A X, Y, Z : Y \cap Z = {} => Net(X, Y \cup Z) = Net(X, Y) + Net(X, Z)
      BY NetAdds
    <3> QED
      BY <2>2, <3>1
  <2>7. Net(Money, before) \in Int /\ Net(Money, thatDay) \in Int
    BY NetAdds
  <2>8. Flow("inflow", thatDay) \in Int /\ Flow("outflow", thatDay) \in Int
    BY <1>2
  <2>9. Closing(day) = Net(Money, all)
    BY <2>3, <2>4, <2>5, <2>6, <2>7, <2>8
  <2> QED
    BY <2>1, <2>3, <2>9
<1>4. ASSUME NEW D PROVE Net(Money, D) = Balance(Cash, D) + Balance(Bank, D)
  <2>0. Cash # Bank
    BY DEF Cash, Bank
  <2>1. {Cash} \cap {Bank} = {} /\ Money = {Cash} \cup {Bank}
    BY <2>0 DEF Money
  <2>2. Net(Money, D) = Net({Cash}, D) + Net({Bank}, D)
    <3>1. \A X, Y, Z : X \cap Y = {} => Net(X \cup Y, Z) = Net(X, Z) + Net(Y, Z)
      BY NetAdds
    <3>2. PICK c, b : c = {Cash} /\ b = {Bank}
      OBVIOUS
    <3>3. c \cap b = {}
      BY <2>1, <3>2
    <3>4. Net(c \cup b, D) = Net(c, D) + Net(b, D)
      BY <3>1, <3>3
    <3> QED
      BY <2>1, <3>2, <3>4
  <2>3. DebitNormal(Cash) /\ DebitNormal(Bank)
    <3>1. Category(Cash) = "asset"
      BY DEF Category, Cash, Bank, Receivable, Interest, Fees, Penalties
    <3>2. Category(Bank) = "asset"
      BY DEF Category, Cash, Bank, Receivable, Interest, Fees, Penalties
    <3> QED
      BY <3>1, <3>2 DEF DebitNormal
  <2> QED
    BY <2>2, <2>3, BalanceIs
<1>5. ASSUME NEW day \in Nat \ {0}
      PROVE  IncomeOn(day) - TakenBackOn(day) - SpentOn(day) = NetProfit(day - 1, day - 1)
  <2>1. PICK D : D = {Stored(day)}
    OBVIOUS
  <2>2. (day - 1)..(day - 1) = D
    BY <2>1 DEF Stored
  <2>3. NetProfit(day - 1, day - 1) = Profit(D)
    BY <2>2, ProfitIs
  <2>4. PICK i, x : i = OfCategory("income") /\ x = OfCategory("expense")
    OBVIOUS
  <2>5. /\ IncomeOn(day) = Credited(i, D) /\ TakenBackOn(day) = Debited(i, D)
        /\ SpentOn(day) = Net(x, D) /\ Profit(D) = - (Debited(i, D) - Credited(i, D)) - Net(x, D)
    BY <2>1, <2>4, SumOverIs DEF IncomeOn, TakenBackOn, SpentOn, Profit, Net
  <2>6. Debited(i, D) \in Int /\ Credited(i, D) \in Int /\ Net(x, D) \in Int
    BY TurnoverAdds, NetAdds
  <2> QED
    BY <2>3, <2>5, <2>6
<1>6. ASSUME NEW day \in Nat \ {0} PROVE Opening(day + 1) = Closing(day)
  <2>1. day + 1 \in Nat \ {0} /\ Stored(day + 1) - 1 = Stored(day)
    BY DEF Stored
  <2> QED
    BY <1>3, <2>1
<1>7. Days \subseteq Nat \ {0}
  BY BooksAssumption
<1>8. ASSUME NEW day \in Days
      PROVE  /\ Closing(day) = Balance(Cash, UpTo(Stored(day))) + Balance(Bank, UpTo(Stored(day)))
             /\ day + 1 \in Days => Opening(day + 1) = Closing(day)
             /\ IncomeOn(day) - TakenBackOn(day) - SpentOn(day) = NetProfit(day - 1, day - 1)
  <2>1. day \in Nat \ {0}
    BY <1>7
  <2> QED
    BY <2>1, <1>3, <1>4, <1>5, <1>6
<1> QED
  BY <1>8 DEF CashBookFollowsLedger

-----------------------------------------------------------------------------
(* Posting a voucher. *)

\* A journal and its turnover when an entry is posted.
LEMMA TurnoverAppended ==
  ASSUME BooksTyped, NEW e \in EntryRows, journal' = Append(journal, e), NEW S, NEW D
  PROVE  /\ Debited(S, D)' = Debited(S, D) + (IF e.date \in D THEN DebitsOn(S, e.lines) ELSE 0)
         /\ Credited(S, D)' = Credited(S, D) + (IF e.date \in D THEN CreditsOn(S, e.lines) ELSE 0)
<1>1. PICK j, m : j = journal /\ m = Append(journal, e)
  OBVIOUS
<1>2. PICK n \in Nat : n = Len(journal)
  BY DEF BooksTyped
<1>3. /\ j \in Seq(EntryRows) /\ m \in Seq(EntryRows) /\ Len(j) = n /\ Len(m) = n + 1
      /\ m[n + 1] = e /\ (\A i \in 1..n : m[i] = j[i]) /\ DOMAIN j = 1..n /\ DOMAIN m = 1..(n + 1)
  BY <1>1, <1>2 DEF BooksTyped
<1> DEFINE d == [i \in 1..n |-> IF j[i].date \in D THEN DebitsOn(S, j[i].lines) ELSE 0]
           c == [i \in 1..n |-> IF j[i].date \in D THEN CreditsOn(S, j[i].lines) ELSE 0]
           dd == [i \in 1..(n + 1) |-> IF m[i].date \in D THEN DebitsOn(S, m[i].lines) ELSE 0]
           cc == [i \in 1..(n + 1) |-> IF m[i].date \in D THEN CreditsOn(S, m[i].lines) ELSE 0]
<1>4. ASSUME NEW i \in 1..(n + 1) PROVE DebitsOn(S, m[i].lines) \in Int /\ CreditsOn(S, m[i].lines) \in Int
  <2>1. m[i] \in EntryRows
    BY <1>3
  <2>2. m[i].lines \in Seq(Lines)
    BY <2>1 DEF EntryRows
  <2> QED
    BY <2>2, LinesAdd
<1>5. dd \in [1..(n + 1) -> Int] /\ cc \in [1..(n + 1) -> Int]
  BY <1>4
<1>6. \A i \in 1..n : d[i] = dd[i] /\ c[i] = cc[i]
  BY <1>3
<1>7. d \in [1..n -> Int] /\ c \in [1..n -> Int]
  <2>1. \A i \in 1..n : DebitsOn(S, j[i].lines) \in Int /\ CreditsOn(S, j[i].lines) \in Int
    BY <1>3, <1>4
  <2> QED
    BY <2>1
<1>8. Debited(S, D) = Total(n, d) /\ Credited(S, D) = Total(n, c)
  BY <1>1, <1>2, <1>3 DEF Debited, Credited
<1>9. Debited(S, D)' = Total(n + 1, dd) /\ Credited(S, D)' = Total(n + 1, cc)
  <2>1. journal' = m
    BY <1>1
  <2>2. /\ Debited(S, D)' = Total(Len(journal'), [i \in DOMAIN journal' |->
             IF journal'[i].date \in D THEN DebitsOn(S, journal'[i].lines) ELSE 0])
        /\ Credited(S, D)' = Total(Len(journal'), [i \in DOMAIN journal' |->
             IF journal'[i].date \in D THEN CreditsOn(S, journal'[i].lines) ELSE 0])
    BY DEF Debited, Credited
  <2> QED
    BY <1>3, <2>1, <2>2
<1>10. /\ dd[n + 1] = IF e.date \in D THEN DebitsOn(S, e.lines) ELSE 0
      /\ cc[n + 1] = IF e.date \in D THEN CreditsOn(S, e.lines) ELSE 0
  BY <1>3
<1> HIDE DEF d, c, dd, cc
<1>11. Total(n + 1, dd) = Total(n, d) + dd[n + 1] /\ Total(n + 1, cc) = Total(n, c) + cc[n + 1]
  <2>1. n \in Nat
    BY <1>2
  <2> QED
    BY <2>1, <1>5, <1>6, <1>7, TotalAppend
<1> QED
  BY <1>8, <1>9, <1>10, <1>11

\* The net of the transactions moved by an amount on a date.
HasMoved(old, new, date, n) ==
  /\ new \in Seq(CashRecords)
  /\ \A D : FlowOf(new, "inflow", D) - FlowOf(new, "outflow", D)
              = FlowOf(old, "inflow", D) - FlowOf(old, "outflow", D) + (IF date \in D THEN n ELSE 0)

\* The transactions beside an entry carry what the entry moves.
LEMMA RowsFollow ==
  ASSUME NEW records \in Seq(CashRecords), NEW date \in Nat, NEW lines \in Seq(Lines)
  PROVE  HasMoved(records, records \o CashRows(date, lines), date,
                  DebitsOn(Money, lines) - CreditsOn(Money, lines))
<1>1. PICK in, out, rows : /\ in = DebitsOn(Money, lines) /\ out = CreditsOn(Money, lines)
                           /\ rows = CashRows(date, lines)
  OBVIOUS
<1>2. in \in Int /\ out \in Int
  BY <1>1, LinesAdd
<1> DEFINE r(type, n) == [date |-> date, type |-> type, amount |-> n]
<1>3. rows = CASE in > out -> <<r("inflow", in - out)>>
               [] out > in -> <<r("outflow", out - in)>>
               [] in = out /\ in > 0 -> <<r("inflow", in)>> \o <<r("outflow", out)>>
               [] OTHER -> <<>>
  BY <1>1 DEF CashRows
<1>4. \A n \in Int : r("inflow", n) \in CashRecords /\ r("outflow", n) \in CashRecords
  BY DEF CashRecords
<1>5. ASSUME NEW s \in Seq(CashRecords), NEW n \in Int, NEW D
      PROVE  /\ Append(s, r("inflow", n)) \in Seq(CashRecords)
             /\ Append(s, r("outflow", n)) \in Seq(CashRecords)
             /\ FlowOf(s, "inflow", D) \in Int /\ FlowOf(s, "outflow", D) \in Int
             /\ FlowOf(Append(s, r("inflow", n)), "inflow", D)
                  = FlowOf(s, "inflow", D) + (IF date \in D THEN n ELSE 0)
             /\ FlowOf(Append(s, r("inflow", n)), "outflow", D) = FlowOf(s, "outflow", D)
             /\ FlowOf(Append(s, r("outflow", n)), "inflow", D) = FlowOf(s, "inflow", D)
             /\ FlowOf(Append(s, r("outflow", n)), "outflow", D)
                  = FlowOf(s, "outflow", D) + (IF date \in D THEN n ELSE 0)
  <2>1. PICK i, o : i = r("inflow", n) /\ o = r("outflow", n)
    OBVIOUS
  <2>2. /\ i \in CashRecords /\ i.type = "inflow" /\ i.date = date /\ i.amount = n
        /\ o \in CashRecords /\ o.type = "outflow" /\ o.date = date /\ o.amount = n
    BY <1>4, <2>1
  <2>3. FlowOf(s, "inflow", D) \in Int /\ FlowOf(s, "outflow", D) \in Int
    BY FlowTyped
  <2>4. \A type : /\ FlowOf(Append(s, i), type, D) =
                       FlowOf(s, type, D) + (IF i.type = type /\ i.date \in D THEN i.amount ELSE 0)
                  /\ FlowOf(Append(s, o), type, D) =
                       FlowOf(s, type, D) + (IF o.type = type /\ o.date \in D THEN o.amount ELSE 0)
    BY <2>2, FlowAppended
  <2>5. Append(s, i) \in Seq(CashRecords) /\ Append(s, o) \in Seq(CashRecords)
    BY <2>2
  <2> HIDE DEF r
  <2> QED
    BY <2>1, <2>2, <2>3, <2>4, <2>5
<1> HIDE DEF r
<1>6. \A x : records \o <<x>> = Append(records, x)
  OBVIOUS
<1>7. ASSUME in > out
      PROVE  HasMoved(records, records \o rows, date, in - out)
  <2>1. PICK n \in Int : n = in - out
    BY <1>2
  <2>2. PICK new : new = Append(records, r("inflow", n))
    OBVIOUS
  <2>3. records \o rows = new
    BY <1>2, <1>3, <1>6, <1>7, <2>1, <2>2
  <2>4. new \in Seq(CashRecords)
    BY <1>5, <2>2
  <2>5. ASSUME NEW D
        PROVE  FlowOf(new, "inflow", D) - FlowOf(new, "outflow", D)
                 = FlowOf(records, "inflow", D) - FlowOf(records, "outflow", D)
                   + (IF date \in D THEN in - out ELSE 0)
    <3>1. /\ FlowOf(records, "inflow", D) \in Int /\ FlowOf(records, "outflow", D) \in Int
          /\ FlowOf(new, "inflow", D) = FlowOf(records, "inflow", D) + (IF date \in D THEN n ELSE 0)
          /\ FlowOf(new, "outflow", D) = FlowOf(records, "outflow", D)
      BY <1>5, <2>2
    <3> QED
      BY <2>1, <3>1
  <2> QED
    BY <2>3, <2>4, <2>5 DEF HasMoved
<1>8. ASSUME out > in
      PROVE  HasMoved(records, records \o rows, date, in - out)
  <2>1. PICK n \in Int : n = out - in
    BY <1>2
  <2>2. PICK new : new = Append(records, r("outflow", n))
    OBVIOUS
  <2>3. records \o rows = new
    BY <1>2, <1>3, <1>6, <1>8, <2>1, <2>2
  <2>4. new \in Seq(CashRecords)
    BY <1>5, <2>2
  <2>5. ASSUME NEW D
        PROVE  FlowOf(new, "inflow", D) - FlowOf(new, "outflow", D)
                 = FlowOf(records, "inflow", D) - FlowOf(records, "outflow", D)
                   + (IF date \in D THEN in - out ELSE 0)
    <3>1. /\ FlowOf(records, "inflow", D) \in Int /\ FlowOf(records, "outflow", D) \in Int
          /\ FlowOf(new, "inflow", D) = FlowOf(records, "inflow", D)
          /\ FlowOf(new, "outflow", D) = FlowOf(records, "outflow", D) + (IF date \in D THEN n ELSE 0)
      BY <1>5, <2>2
    <3> QED
      BY <1>2, <2>1, <3>1
  <2> QED
    BY <2>3, <2>4, <2>5 DEF HasMoved
<1>9. ASSUME in = out /\ in > 0
      PROVE  HasMoved(records, records \o rows, date, in - out)
  <2>1. rows = <<r("inflow", in)>> \o <<r("outflow", out)>>
    BY <1>2, <1>3, <1>9
  <2>2. \A x, y : records \o (<<x>> \o <<y>>) = Append(Append(records, x), y)
    OBVIOUS
  <2>3. PICK s, new : s = Append(records, r("inflow", in)) /\ new = Append(s, r("outflow", in))
    OBVIOUS
  <2>4. records \o rows = new
    BY <1>9, <2>1, <2>2, <2>3
  <2>5. s \in Seq(CashRecords) /\ new \in Seq(CashRecords)
    BY <1>2, <1>5, <2>3
  <2>6. ASSUME NEW D
        PROVE  FlowOf(new, "inflow", D) - FlowOf(new, "outflow", D)
                 = FlowOf(records, "inflow", D) - FlowOf(records, "outflow", D)
                   + (IF date \in D THEN in - out ELSE 0)
    <3>1. /\ FlowOf(records, "inflow", D) \in Int /\ FlowOf(records, "outflow", D) \in Int
          /\ FlowOf(s, "inflow", D) = FlowOf(records, "inflow", D) + (IF date \in D THEN in ELSE 0)
          /\ FlowOf(s, "outflow", D) = FlowOf(records, "outflow", D)
      BY <1>2, <1>5, <2>3
    <3>2. /\ FlowOf(Append(s, r("outflow", in)), "inflow", D) = FlowOf(s, "inflow", D)
          /\ FlowOf(Append(s, r("outflow", in)), "outflow", D)
               = FlowOf(s, "outflow", D) + (IF date \in D THEN in ELSE 0)
      BY <1>2, <1>5, <2>5
    <3> QED
      BY <1>2, <1>9, <2>3, <3>1, <3>2
  <2> QED
    BY <2>4, <2>5, <2>6 DEF HasMoved
<1>10. ASSUME in = out /\ ~(in > 0)
      PROVE  HasMoved(records, records \o rows, date, in - out)
  <2>1. rows = <<>>
    BY <1>2, <1>3, <1>10
  <2>2. records \o rows = records
    BY <2>1
  <2>3. ASSUME NEW D
        PROVE  FlowOf(records, "inflow", D) - FlowOf(records, "outflow", D)
                 = FlowOf(records, "inflow", D) - FlowOf(records, "outflow", D)
                   + (IF date \in D THEN in - out ELSE 0)
    <3>1. FlowOf(records, "inflow", D) \in Int /\ FlowOf(records, "outflow", D) \in Int
      BY FlowTyped
    <3> QED
      BY <1>2, <1>10, <3>1
  <2> QED
    BY <2>2, <2>3 DEF HasMoved
<1>11. in > out \/ out > in \/ (in = out /\ in > 0) \/ (in = out /\ ~(in > 0))
  BY <1>2
<1>12. HasMoved(records, records \o rows, date, in - out)
  BY <1>7, <1>8, <1>9, <1>10, <1>11
<1> QED
  BY <1>1, <1>12

\* So the books stay typed and the cash transactions go on following the journal.
LEMMA Posted ==
  ASSUME BooksTyped, CashFollows, NEW day \in Days, NEW lines \in Seq(Lines), Post(day, lines)
  PROVE  BooksTyped' /\ CashFollows'
<1>1. PICK date : date = Stored(day)
  OBVIOUS
<1>2. date \in Nat
  BY <1>1, BooksAssumption DEF Stored
<1>3. PICK e : e = [date |-> date, lines |-> lines]
  OBVIOUS
<1>4. e \in EntryRows /\ e.date = date /\ e.lines = lines
  BY <1>2, <1>3 DEF EntryRows
<1>5. /\ journal' = Append(journal, e) /\ cash' = cash \o CashRows(date, lines) /\ Acceptable(lines)
      /\ journal \in Seq(EntryRows) /\ cash \in Seq(CashRecords)
  BY <1>1, <1>3 DEF Post, BooksTyped
<1>6. BooksTyped'
  <2>1. journal' \in Seq(EntryRows) /\ cash' \in Seq(CashRecords)
    BY <1>2, <1>4, <1>5, RowsFollow DEF HasMoved
  <2>2. ASSUME NEW i \in DOMAIN journal' PROVE Acceptable(journal'[i].lines)
    <3>1. CASE i \in DOMAIN journal
      BY <1>5, <3>1 DEF BooksTyped
    <3>2. CASE i \notin DOMAIN journal
      <4>1. journal'[i] = e
        BY <1>5, <3>2
      <4> QED
        BY <1>4, <1>5, <4>1
    <3> QED
      BY <3>1, <3>2
  <2> QED
    BY <2>1, <2>2 DEF BooksTyped
<1>7. ASSUME NEW D \in SUBSET Nat
      PROVE  Flow("inflow", D)' - Flow("outflow", D)' = Debited(Money, D)' - Credited(Money, D)'
  <2>1. PICK moved : moved = IF date \in D THEN DebitsOn(Money, lines) - CreditsOn(Money, lines) ELSE 0
    OBVIOUS
  <2>2. /\ Flow("inflow", D)' - Flow("outflow", D)' = Flow("inflow", D) - Flow("outflow", D) + moved
    <3>1. /\ Flow("inflow", D) = FlowOf(cash, "inflow", D) /\ Flow("outflow", D) = FlowOf(cash, "outflow", D)
          /\ Flow("inflow", D)' = FlowOf(cash', "inflow", D) /\ Flow("outflow", D)' = FlowOf(cash', "outflow", D)
      BY DEF Flow, FlowOf
    <3>2. FlowOf(cash \o CashRows(date, lines), "inflow", D) - FlowOf(cash \o CashRows(date, lines), "outflow", D)
            = FlowOf(cash, "inflow", D) - FlowOf(cash, "outflow", D) + moved
      BY <1>2, <1>5, <2>1, RowsFollow DEF HasMoved
    <3> QED
      BY <1>5, <3>1, <3>2
  <2>3. /\ Debited(Money, D)' = Debited(Money, D) + (IF date \in D THEN DebitsOn(Money, lines) ELSE 0)
        /\ Credited(Money, D)' = Credited(Money, D) + (IF date \in D THEN CreditsOn(Money, lines) ELSE 0)
    BY <1>4, <1>5, TurnoverAppended
  <2>4. Flow("inflow", D) - Flow("outflow", D) = Debited(Money, D) - Credited(Money, D)
    BY DEF CashFollows
  <2>5. /\ Debited(Money, D) \in Int /\ Credited(Money, D) \in Int
        /\ DebitsOn(Money, lines) \in Int /\ CreditsOn(Money, lines) \in Int
    BY LinesAdd, TurnoverAdds
  <2> QED
    BY <2>1, <2>2, <2>3, <2>4, <2>5
<1> QED
  BY <1>6, <1>7 DEF CashFollows

\* Every voucher posts lines of the chart.
LEMMA OneLine ==
  ASSUME NEW a \in Accounts, NEW n \in Int
  PROVE  /\ Debit(a, n) \in Seq(Lines) /\ Credit(a, n) \in Seq(Lines)
         /\ DebitIf(a, n) \in Seq(Lines) /\ CreditIf(a, n) \in Seq(Lines)
<1>1. [account |-> a, debit |-> n, credit |-> 0] \in Lines /\ [account |-> a, debit |-> 0, credit |-> n] \in Lines
  BY DEF Lines
<1>2. Debit(a, n) \in Seq(Lines) /\ Credit(a, n) \in Seq(Lines)
  BY <1>1 DEF Debit, Credit
<1>3. <<>> \in Seq(Lines)
  OBVIOUS
<1> QED
  BY <1>2, <1>3 DEF DebitIf, CreditIf

\* The accounts that vouchers name are on the chart.
LEMMA AccountsOfVouchers ==
  /\ Cash \in Accounts /\ Bank \in Accounts /\ Receivable \in Accounts /\ Interest \in Accounts
  /\ Fees \in Accounts /\ Penalties \in Accounts /\ Discount \in Accounts
  /\ \A c : ExpenseAccount(c) \in Accounts
<1>1. Accounts = {Cash, Bank, Receivable, Interest, Fees, Penalties, Discount, "5001", "5004", "5099"}
  <2>1. PICK c : c = Chart
    OBVIOUS
  <2>2. /\ DOMAIN c = 1..10
        /\ c[1] = Cash /\ c[2] = Bank /\ c[3] = Receivable /\ c[4] = Interest
        /\ c[5] = Fees /\ c[6] = Penalties /\ c[7] = Discount /\ c[8] = "5001"
        /\ c[9] = "5004" /\ c[10] = "5099"
    BY <2>1 DEF Chart
  <2>3. \A i \in 1..10 : \/ i = 1 \/ i = 2 \/ i = 3 \/ i = 4 \/ i = 5
                          \/ i = 6 \/ i = 7 \/ i = 8 \/ i = 9 \/ i = 10
    OBVIOUS
  <2>4. Accounts = {c[i] : i \in 1..10}
    BY <2>1, <2>2 DEF Accounts
  <2> QED
    BY <2>2, <2>3, <2>4
<1>2. \A c : ExpenseAccount(c) \in {"5001", "5004", "5099"}
  BY DEF ExpenseAccount
<1> QED
  BY <1>1, <1>2

\* Mirrored lines are lines.
LEMMA MirrorTyped ==
  ASSUME NEW lines \in Seq(Lines)
  PROVE  Mirror(lines) \in Seq(Lines)
<1>1. PICK n \in Nat : n = Len(lines)
  OBVIOUS
<1>2. DOMAIN lines = 1..n /\ \A i \in 1..n : lines[i] \in Lines
  BY <1>1
<1>3. ASSUME NEW l \in Lines PROVE [l EXCEPT !.debit = l.credit, !.credit = l.debit] \in Lines
  BY DEF Lines
<1>4. Mirror(lines) = [i \in 1..n |->
        [lines[i] EXCEPT !.debit = lines[i].credit, !.credit = lines[i].debit]]
  BY <1>2 DEF Mirror
<1>5. Mirror(lines) \in [1..n -> Lines]
  BY <1>2, <1>3, <1>4
<1> QED
  BY <1>5

\* Every voucher posts one entry.
LEMMA VoucherPosts ==
  ASSUME BooksTyped, Voucher
  PROVE  \E day \in Days : \E lines \in Seq(Lines) : Post(day, lines)
<1> USE AccountsOfVouchers
<1>1. Amounts \subseteq Int
  BY BooksAssumption
<1>2. \A x, y \in Seq(Lines) : x \o y \in Seq(Lines)
  OBVIOUS
<1>3. ASSUME NEW day \in Days, NEW amount \in Amounts, NEW from \in {Cash, Bank},
             NEW c \in {"salary", "office", "other"}, CreateExpense(day, c, amount, from)
      PROVE  \E lines \in Seq(Lines) : Post(day, lines)
  <2>1. Debit(ExpenseAccount(c), amount) \in Seq(Lines) /\ Credit(from, amount) \in Seq(Lines)
    BY <1>1, OneLine
  <2>2. PICK lines : lines = Debit(ExpenseAccount(c), amount) \o Credit(from, amount)
    OBVIOUS
  <2>3. lines \in Seq(Lines)
    BY <1>2, <2>1, <2>2
  <2>4. Post(day, lines)
    BY <1>3, <2>2 DEF CreateExpense
  <2> QED
    BY <2>3, <2>4
<1>4. ASSUME NEW day \in Days, NEW amount \in Amounts, PostPenalty(day, amount)
      PROVE  \E lines \in Seq(Lines) : Post(day, lines)
  <2>1. Debit(Receivable, amount) \in Seq(Lines) /\ Credit(Penalties, amount) \in Seq(Lines)
    BY <1>1, OneLine
  <2>2. PICK lines : lines = Debit(Receivable, amount) \o Credit(Penalties, amount)
    OBVIOUS
  <2>3. lines \in Seq(Lines)
    BY <1>2, <2>1, <2>2
  <2>4. Post(day, lines)
    BY <1>4, <2>2 DEF PostPenalty
  <2> QED
    BY <2>3, <2>4
<1>5. ASSUME NEW day \in Days, NEW into \in {Cash, Bank}, NEW a \in Int, NEW b \in Int, NEW c \in Int,
             Collect(day, into, a, b, c)
      PROVE  \E lines \in Seq(Lines) : Post(day, lines)
  <2>1. /\ Debit(into, a + b + c) \in Seq(Lines) /\ CreditIf(Receivable, a) \in Seq(Lines)
        /\ CreditIf(Interest, b) \in Seq(Lines) /\ CreditIf(Penalties, c) \in Seq(Lines)
    <3>1. a + b + c \in Int
      OBVIOUS
    <3> QED
      BY <3>1, OneLine
  <2>2. PICK lines : lines = Debit(into, a + b + c) \o CreditIf(Receivable, a)
                               \o CreditIf(Interest, b) \o CreditIf(Penalties, c)
    OBVIOUS
  <2>3. lines \in Seq(Lines)
    BY <1>2, <2>1, <2>2
  <2>4. Post(day, lines)
    BY <1>5, <2>2 DEF Collect
  <2> QED
    BY <2>3, <2>4
<1>6. ASSUME NEW day \in Days, NEW from \in {Cash, Bank}, NEW a \in Int, NEW b \in Int,
             Disburse(day, from, a, b)
      PROVE  \E lines \in Seq(Lines) : Post(day, lines)
  <2>1. /\ Debit(Receivable, a) \in Seq(Lines) /\ Credit(from, a - b) \in Seq(Lines)
        /\ CreditIf(Fees, b) \in Seq(Lines)
    <3>1. a - b \in Int
      OBVIOUS
    <3> QED
      BY <3>1, OneLine
  <2>2. PICK lines : lines = Debit(Receivable, a) \o Credit(from, a - b) \o CreditIf(Fees, b)
    OBVIOUS
  <2>3. lines \in Seq(Lines)
    BY <1>2, <2>1, <2>2
  <2>4. Post(day, lines)
    BY <1>6, <2>2 DEF Disburse
  <2> QED
    BY <2>3, <2>4
<1>7. ASSUME NEW day \in Days, NEW into \in {Cash, Bank}, NEW a \in Int, NEW b \in Int, NEW c \in Int,
             Foreclose(day, into, a, b, c)
      PROVE  \E lines \in Seq(Lines) : Post(day, lines)
  <2>1. /\ Debit(into, a + b - c) \in Seq(Lines) /\ DebitIf(Discount, c) \in Seq(Lines)
        /\ CreditIf(Receivable, a) \in Seq(Lines) /\ CreditIf(Interest, b) \in Seq(Lines)
    <3>1. a + b - c \in Int
      OBVIOUS
    <3> QED
      BY <3>1, OneLine
  <2>2. PICK lines : lines = Debit(into, a + b - c) \o DebitIf(Discount, c)
                               \o CreditIf(Receivable, a) \o CreditIf(Interest, b)
    OBVIOUS
  <2>3. lines \in Seq(Lines)
    BY <1>2, <2>1, <2>2
  <2>4. Post(day, lines)
    BY <1>7, <2>2 DEF Foreclose
  <2> QED
    BY <2>3, <2>4
<1>8. ASSUME NEW day \in Days, NEW i \in DOMAIN journal, ReverseEntry(day, i)
      PROVE  \E lines \in Seq(Lines) : Post(day, lines)
  <2>1. journal[i] \in EntryRows
    BY DEF BooksTyped
  <2>2. journal[i].lines \in Seq(Lines)
    BY <2>1 DEF EntryRows
  <2> QED
    BY <1>8, <2>2, MirrorTyped DEF ReverseEntry
<1> QED
  BY <1>1, <1>3, <1>4, <1>5, <1>6, <1>7, <1>8 DEF Voucher

\* The journal is a list of balanced entries, and the cash transactions follow it.
BooksInv == BooksTyped /\ CashFollows

\* Empty books are in order.
LEMMA InitBooks == Init => BooksInv
<1> SUFFICES ASSUME Init PROVE BooksInv
  OBVIOUS
<1>1. journal = <<>> /\ cash = <<>>
  BY DEF Init
<1>2. BooksTyped
  BY <1>1 DEF BooksTyped
<1>3. ASSUME NEW n, NEW f, n = 0, f \in [1..0 -> Int] PROVE Total(n, f) = 0
  <2>1. n \in Nat /\ f \in [1..n -> Int] /\ \A k \in 1..n : f[k] = 0
    BY <1>3
  <2> QED
    BY <2>1, TotalZero
<1>4. ASSUME NEW D, NEW S PROVE Debited(S, D) = 0 /\ Credited(S, D) = 0
  <2>1. PICK f, g : /\ f = [i \in DOMAIN journal |->
                              IF journal[i].date \in D THEN DebitsOn(S, journal[i].lines) ELSE 0]
                    /\ g = [i \in DOMAIN journal |->
                              IF journal[i].date \in D THEN CreditsOn(S, journal[i].lines) ELSE 0]
    OBVIOUS
  <2>2. f \in [1..0 -> Int] /\ g \in [1..0 -> Int] /\ Len(journal) = 0
    BY <1>1, <2>1
  <2> QED
    BY <1>3, <2>1, <2>2 DEF Debited, Credited
<1>5. ASSUME NEW D, NEW type PROVE Flow(type, D) = 0
  <2>1. PICK f : f = [i \in DOMAIN cash |->
                        IF cash[i].type = type /\ cash[i].date \in D THEN cash[i].amount ELSE 0]
    OBVIOUS
  <2>2. f \in [1..0 -> Int] /\ Len(cash) = 0
    BY <1>1, <2>1
  <2> QED
    BY <1>3, <2>1, <2>2 DEF Flow
<1> QED
  BY <1>2, <1>4, <1>5 DEF BooksInv, CashFollows

\* Every step of the office keeps the books in order.
LEMMA BooksNext == BooksInv /\ [OfficeNext]_officeVars => BooksInv'
<1> SUFFICES ASSUME BooksInv, [OfficeNext]_officeVars PROVE BooksInv'
  OBVIOUS
<1>1. CASE UNCHANGED ledger
  <2>1. journal' = journal /\ cash' = cash
    BY <1>1 DEF ledger
  <2>2. BooksTyped'
    BY <2>1 DEF BooksInv, BooksTyped
  <2>3. \A S, D : Debited(S, D)' = Debited(S, D) /\ Credited(S, D)' = Credited(S, D)
    BY <2>1 DEF Debited, Credited
  <2>4. \A type, D : Flow(type, D)' = Flow(type, D)
    BY <2>1 DEF Flow
  <2>5. CashFollows'
    BY <2>3, <2>4 DEF BooksInv, CashFollows
  <2> QED
    BY <2>2, <2>5 DEF BooksInv
<1>2. CASE Voucher
  BY <1>2, VoucherPosts, Posted DEF BooksInv
<1>3. CASE Handing
  BY <1>1, <1>3 DEF Handing, CreateHandover, ReadHandover, WriteVerdict, ledger
<1>4. CASE UNCHANGED vars
  BY <1>1, <1>4 DEF vars, ledger
<1> QED
  BY <1>2, <1>3, <1>4 DEF OfficeNext, Next, officeVars

(* Whatever vouchers are posted and reversed, in whatever order and on whatever
   days, the trial balance balances, the assets are the liabilities, the equity
   and the profit, that profit is the sum of the daily ones, and the cash book
   has the balance of the cash and bank accounts and opens with what it closed
   with, also while there is no entry (AccountingService, CashbookService). *)
THEOREM StatementsAgreeAlways == OfficeSpec => [](StatementsAgree /\ CashBookFollowsLedger)
<1>1. OfficeInit => BooksInv
  BY InitBooks DEF OfficeInit
<1>2. BooksInv => StatementsAgree /\ CashBookFollowsLedger
  BY TypedBooksAgree, CashBookAgrees DEF BooksInv
<1> QED
  BY <1>1, <1>2, BooksNext, PTL DEF OfficeSpec

(* The books hold together: the same of the property the run checks
   (AccountingService, CashbookService). *)
THEOREM BooksAgreeAlways == OfficeSpec => []BooksAgree
<1>1. StatementsAgree /\ CashBookFollowsLedger => BooksAgree
  BY DEF BooksAgree
<1> QED
  BY <1>1, StatementsAgreeAlways, PTL

-----------------------------------------------------------------------------
(* Handovers. *)

HandoverRows == [by : Staff, to : Staff, status : {"pending", "verified", "discrepancy"},
                 short : Amounts \union {None}]

Shown(row) == [status |-> row.status, short |-> row.short]

\* Entry i of the log is the last one about handover h.
IsLast(log, i, h) ==
  /\ i \in DOMAIN log /\ log[i].handover = h
  /\ \A j \in DOMAIN log : log[j].handover = h => j <= i

\* What is read and what is logged names a handover that exists and whose
\* officer is someone else; what the handover shows was logged last.
HandingInv ==
  /\ handovers \in Seq(HandoverRows)
  /\ DOMAIN audit = 1..Len(audit) /\ Len(audit) \in Nat
  /\ reading = [v \in Verifiers |-> reading[v]]
  /\ \A v \in Verifiers :
       reading[v] # None =>
         /\ reading[v].handover \in DOMAIN handovers
         /\ reading[v].verdict \in Verdicts
         /\ reading[v].actor # handovers[reading[v].handover].by
  /\ \A i \in DOMAIN audit :
       /\ audit[i] # None
       /\ audit[i].handover \in DOMAIN handovers
       /\ audit[i].actor # handovers[audit[i].handover].by
  /\ \A h \in DOMAIN handovers :
       \/ handovers[h].status = "pending" /\ \A i \in DOMAIN audit : audit[i].handover # h
       \/ handovers[h].status # "pending" /\
            \E i \in DOMAIN audit : IsLast(audit, i, h) /\ audit[i].verdict = Shown(handovers[h])

\* Nothing was handed over at the start.
LEMMA InitHanding == Init => HandingInv
BY DEF Init, HandingInv

\* The last entry about a handover has its last verdict.
LEMMA LastIsLast ==
  ASSUME HandingInv, NEW h, NEW i, IsLast(audit, i, h)
  PROVE  LastVerdict(h) = audit[i]
<1> DEFINE mine == {k \in DOMAIN audit : audit[k].handover = h}
<1>1. i \in mine /\ mine \subseteq Nat
  BY DEF IsLast, HandingInv
<1>2. \A k \in mine : (\A j \in mine : j <= k) <=> k = i
  BY <1>1 DEF IsLast
<1>3. (CHOOSE k \in mine : \A j \in mine : j <= k) = i
  BY <1>1, <1>2
<1> QED
  BY <1>1, <1>3 DEF LastVerdict

\* What the invariant says of a handover, in the words of the cash book.
LEMMA HandingImplies == HandingInv => HandoverShowsLastVerdict
<1> SUFFICES ASSUME HandingInv, NEW h \in DOMAIN handovers
             PROVE  LET row == handovers[h]
                        last == LastVerdict(h)
                    IN  /\ row.status = "pending" <=> last = None
                        /\ last # None =>
                             /\ last.verdict = [status |-> row.status, short |-> row.short]
                             /\ last.actor # row.by
  BY DEF HandoverShowsLastVerdict
<1>1. CASE handovers[h].status = "pending" /\ \A i \in DOMAIN audit : audit[i].handover # h
  BY <1>1 DEF LastVerdict
<1>2. CASE /\ handovers[h].status # "pending"
           /\ \E i \in DOMAIN audit : IsLast(audit, i, h) /\ audit[i].verdict = Shown(handovers[h])
  <2>1. PICK i \in DOMAIN audit : IsLast(audit, i, h) /\ audit[i].verdict = Shown(handovers[h])
    BY <1>2
  <2>2. LastVerdict(h) = audit[i]
    BY <2>1, LastIsLast
  <2>3. audit[i] # None /\ audit[i].handover = h /\ audit[i].actor # handovers[h].by
    BY <2>1 DEF HandingInv, IsLast
  <2> QED
    BY <1>2, <2>1, <2>2, <2>3 DEF Shown
<1> QED
  BY <1>1, <1>2 DEF HandingInv

\* A new handover has no verdict.
LEMMA CreateHandoverStep ==
  ASSUME HandingInv, NEW officer \in Staff, NEW receiver \in Staff,
         CreateHandover(officer, receiver)
  PROVE  HandingInv'
<1> DEFINE n == Len(handovers)
           row == [by |-> officer, to |-> receiver, status |-> "pending", short |-> None]
<1>1. handovers' = Append(handovers, row) /\ UNCHANGED <<audit, reading>>
  BY DEF CreateHandover
<1>2. n \in Nat /\ DOMAIN handovers = 1..n
  BY DEF HandingInv
<1>3. /\ DOMAIN handovers' = 1..n + 1
      /\ \A h \in 1..n : handovers'[h] = handovers[h]
      /\ handovers'[n + 1] = row /\ row.status = "pending"
  BY <1>1, <1>2 DEF HandingInv
<1>4. handovers' \in Seq(HandoverRows)
  BY <1>1 DEF HandingInv, HandoverRows
<1> HIDE DEF n, row
<1>5. \A i \in DOMAIN audit : audit[i].handover \in 1..n
  BY <1>2 DEF HandingInv
<1>6. ASSUME NEW h \in DOMAIN handovers'
      PROVE  \/ handovers'[h].status = "pending" /\ \A i \in DOMAIN audit : audit[i].handover # h
             \/ /\ handovers'[h].status # "pending"
                /\ \E i \in DOMAIN audit : IsLast(audit, i, h) /\ audit[i].verdict = Shown(handovers'[h])
  BY <1>2, <1>3, <1>5 DEF HandingInv
<1>7. \A v \in Verifiers : reading[v] # None => reading[v].handover \in 1..n
  BY <1>2 DEF HandingInv
<1>8. \A h \in 1..n : h \in DOMAIN handovers' /\ handovers'[h].by = handovers[h].by
  BY <1>2, <1>3
<1>9. /\ \A v \in Verifiers :
           reading[v] # None =>
             /\ reading[v].handover \in DOMAIN handovers'
             /\ reading[v].verdict \in Verdicts
             /\ reading[v].actor # handovers'[reading[v].handover].by
      /\ \A i \in DOMAIN audit :
           /\ audit[i] # None
           /\ audit[i].handover \in DOMAIN handovers'
           /\ audit[i].actor # handovers'[audit[i].handover].by
  BY <1>5, <1>7, <1>8 DEF HandingInv
<1> QED
  BY <1>1, <1>4, <1>6, <1>9 DEF HandingInv

\* A verification reads a handover of somebody else,
LEMMA ReadHandoverStep ==
  ASSUME HandingInv, NEW v \in Verifiers, NEW actor \in Staff, NEW h \in DOMAIN handovers,
         NEW verdict \in Verdicts, ReadHandover(v, actor, h, verdict)
  PROVE  HandingInv'
<1>1. /\ reading' = [reading EXCEPT ![v] = [actor |-> actor, handover |-> h, verdict |-> verdict]]
      /\ handovers[h].by # actor
      /\ UNCHANGED <<handovers, audit>>
  BY DEF ReadHandover
<1>2. reading' = [w \in Verifiers |-> reading'[w]]
  BY <1>1 DEF HandingInv
<1>3. \A w \in Verifiers :
        reading'[w] = IF w = v THEN [actor |-> actor, handover |-> h, verdict |-> verdict]
                      ELSE reading[w]
  BY <1>1 DEF HandingInv
<1>4. \A w \in Verifiers :
        reading'[w] # None =>
          /\ reading'[w].handover \in DOMAIN handovers
          /\ reading'[w].verdict \in Verdicts
          /\ reading'[w].actor # handovers[reading'[w].handover].by
  BY <1>1, <1>3 DEF HandingInv
<1> QED
  BY <1>1, <1>2, <1>4 DEF HandingInv, IsLast

\* and writes row and audit entry together, over whatever came in between.
LEMMA WriteVerdictStep ==
  ASSUME HandingInv, NEW v \in Verifiers, WriteVerdict(v)
  PROVE  HandingInv'
<1> DEFINE r == reading[v]
           g == r.handover
           n == Len(audit)
           new == Verified(handovers[g], r.verdict)
<1>1. /\ r # None /\ handovers' = [handovers EXCEPT ![g] = new]
      /\ audit' = Append(audit, r) /\ reading' = [reading EXCEPT ![v] = None]
  BY DEF WriteVerdict
<1>2. /\ g \in DOMAIN handovers /\ r.verdict \in Verdicts /\ r.actor # handovers[g].by
      /\ n \in Nat /\ DOMAIN audit = 1..n
  BY <1>1 DEF HandingInv
<1>3. /\ r.verdict.status \in {"verified", "discrepancy"}
      /\ r.verdict.short \in Amounts \union {None}
      /\ r.verdict = [status |-> r.verdict.status, short |-> r.verdict.short]
  BY <1>2 DEF Verdicts
<1>4. handovers[g] \in HandoverRows
  <2> HIDE DEF g
  <2>1. handovers \in Seq(HandoverRows)
    BY DEF HandingInv
  <2> QED
    BY <1>2, <2>1
<1>5. /\ new.by = handovers[g].by /\ new.status = r.verdict.status /\ new.short = r.verdict.short
      /\ new \in HandoverRows
  <2> HIDE DEF r, g
  <2> QED
    BY <1>3, <1>4 DEF Verified, HandoverRows
<1>6. new.status # "pending" /\ Shown(new) = r.verdict
  BY <1>3, <1>5 DEF Shown
<1> HIDE DEF r, g, n, new
<1>7. /\ handovers' \in Seq(HandoverRows)
      /\ DOMAIN handovers' = DOMAIN handovers
      /\ \A h \in DOMAIN handovers : handovers'[h] = IF h = g THEN new ELSE handovers[h]
      /\ \A h \in DOMAIN handovers : handovers'[h].by = handovers[h].by
  BY <1>1, <1>2, <1>5 DEF HandingInv
<1>8. /\ DOMAIN audit' = 1..n + 1 /\ Len(audit') = n + 1
      /\ \A i \in 1..n : audit'[i] = audit[i]
      /\ audit'[n + 1] = r
  BY <1>1, <1>2 DEF HandingInv, n
<1>9. \A i \in 1..n + 1 : i \in 1..n \/ i = n + 1
  BY <1>2
<1>10. \A i \in 1..n + 1 :
         audit'[i] # None /\ audit'[i].handover \in DOMAIN handovers
         /\ audit'[i].actor # handovers'[audit'[i].handover].by
  BY <1>1, <1>2, <1>7, <1>8, <1>9 DEF HandingInv, g
<1>11. /\ reading' = [w \in Verifiers |-> reading'[w]]
       /\ \A w \in Verifiers : reading'[w] = IF w = v THEN None ELSE reading[w]
  BY <1>1 DEF HandingInv
<1>12. \A w \in Verifiers :
         reading'[w] # None =>
           /\ reading'[w].handover \in DOMAIN handovers'
           /\ reading'[w].verdict \in Verdicts
           /\ reading'[w].actor # handovers'[reading'[w].handover].by
  BY <1>7, <1>11 DEF HandingInv
<1>13. ASSUME NEW h \in DOMAIN handovers
       PROVE  \/ /\ handovers'[h].status = "pending"
                 /\ \A i \in DOMAIN audit' : audit'[i].handover # h
              \/ /\ handovers'[h].status # "pending"
                 /\ \E i \in DOMAIN audit' :
                      IsLast(audit', i, h) /\ audit'[i].verdict = Shown(handovers'[h])
  <2>1. CASE h = g
    <3>1. audit'[n + 1].handover = h /\ audit'[n + 1].verdict = Shown(handovers'[h])
      BY <1>6, <1>7, <1>8, <2>1 DEF g
    <3>2. n + 1 \in DOMAIN audit' /\ \A j \in DOMAIN audit' : j <= n + 1
      BY <1>2, <1>8
    <3>3. handovers'[h].status # "pending"
      BY <1>6, <1>7, <2>1
    <3>4. IsLast(audit', n + 1, h)
      BY <1>8, <3>1, <3>2 DEF IsLast
    <3> QED
      BY <3>1, <3>2, <3>3, <3>4
  <2>2. CASE h # g
    <3>1. handovers'[h] = handovers[h] /\ audit'[n + 1].handover # h
      BY <1>7, <1>8, <2>2 DEF g
    <3>2. CASE handovers[h].status = "pending" /\ \A i \in DOMAIN audit : audit[i].handover # h
      BY <1>2, <1>8, <1>9, <3>1, <3>2
    <3>3. CASE /\ handovers[h].status # "pending"
               /\ \E i \in DOMAIN audit : IsLast(audit, i, h) /\ audit[i].verdict = Shown(handovers[h])
      <4>1. PICK i \in DOMAIN audit : IsLast(audit, i, h) /\ audit[i].verdict = Shown(handovers[h])
        BY <3>3
      <4>2. i \in DOMAIN audit' /\ audit'[i] = audit[i]
        BY <1>2, <1>8, <4>1
      <4>3. IsLast(audit', i, h)
        BY <1>2, <1>8, <1>9, <3>1, <4>1, <4>2 DEF IsLast
      <4> QED
        BY <3>1, <3>3, <4>1, <4>2, <4>3
    <3> QED
      BY <3>2, <3>3 DEF HandingInv
  <2> QED
    BY <2>1, <2>2
<1> QED
  BY <1>2, <1>7, <1>8, <1>10, <1>11, <1>12, <1>13 DEF HandingInv

\* Every step of the office keeps the handovers in order.
LEMMA HandingNext == HandingInv /\ [OfficeNext]_officeVars => HandingInv'
<1> SUFFICES ASSUME HandingInv, [OfficeNext]_officeVars PROVE HandingInv'
  OBVIOUS
<1>1. CASE UNCHANGED <<handovers, audit, reading>>
  BY <1>1 DEF HandingInv, IsLast
<1>2. CASE Handing
  BY <1>2, CreateHandoverStep, ReadHandoverStep, WriteVerdictStep DEF Handing
<1>3. CASE Voucher
  <2>1. \A day, lines : Post(day, lines) => UNCHANGED <<handovers, audit, reading>>
    BY DEF Post, handing
  <2>2. UNCHANGED <<handovers, audit, reading>>
    BY <1>3, <2>1 DEF Voucher, CreateExpense, PostPenalty, Collect, Disburse, Foreclose,
                      ReverseEntry
  <2> QED
    BY <1>1, <2>2
<1> QED
  BY <1>1, <1>2, <1>3 DEF OfficeNext, Next, officeVars, vars

(* However many verifications of a handover overlap, it ends with the verdict
   that was logged last, whole, and never one of the officer who handed the
   cash over (CashbookService.verifyHandover). *)
THEOREM HandoverShowsLastVerdictAlways == OfficeSpec => []HandoverShowsLastVerdict
<1>1. OfficeInit => HandingInv
  BY InitHanding DEF OfficeInit
<1> QED
  BY <1>1, HandingNext, HandingImplies, PTL DEF OfficeSpec

-----------------------------------------------------------------------------
(* Types of the administration, as far as the two properties need them. *)

\* An account that does not exist has the role "none".
UserRows == [role : Roles \union {"none"}, status : {"active", "inactive"}, version : Nat]
DraftRows == [id : Nat, owner : Users, file : Files]
ImportRows == [draft : DraftRows, request : Requests, accepted : SUBSET Items]

Updating == [step : {"count", "update"}, user : Users, row : UserRows, change : Changes,
             version : Nat, counted : Nat]
Importing == [step : {"rows", "write"}, draft : DraftRows, strict : BOOLEAN, next : Nat,
              accepted : SUBSET Items, read : SUBSET Holidays, since : Nat, wrote : Nat]

AdminTypes ==
  /\ users \in [Users -> UserRows]
  /\ calendar \in [days : SUBSET Holidays, writes : Nat]
  /\ products \subseteq Products
  /\ drafts \subseteq DraftRows
  /\ imports \subseteq ImportRows
  /\ asked \in [Requests -> {Nothing} \union Updating \union Importing]
  /\ \A r \in Requests : At(r, "write") => HasRow(r, "holidays")
  /\ updates \in Nat /\ uploads \in Nat

\* Nobody asks for anything at the start.
LEMMA InitAdminTypes == AdminInit => AdminTypes
BY AdministrationAssumption DEF AdminInit, AdminTypes, UserRows, At, Nothing, Absent

\* What a request holds is told by its step.
LEMMA HeldByStep ==
  ASSUME AdminTypes, NEW r \in Requests
  PROVE  /\ At(r, "idle") => asked[r] = Nothing
         /\ At(r, "count") \/ At(r, "update") => asked[r] \in Updating
         /\ At(r, "rows") \/ At(r, "write") => asked[r] \in Importing
         /\ asked[r] \in Updating => ~ At(r, "rows") /\ ~ At(r, "write") /\ ~ At(r, "idle")
         /\ asked[r] \in Importing => ~ At(r, "count") /\ ~ At(r, "update") /\ ~ At(r, "idle")
         /\ asked[r] = Nothing => At(r, "idle")
BY DEF AdminTypes, At, Nothing, Updating, Importing

\* A row of an import belongs to the domain of its file.
LEMMA RowTyped ==
  ASSUME AdminTypes, NEW r \in Requests, At(r, "rows") \/ At(r, "write")
  PROVE  /\ HasRow(r, "holidays") => Row(r) \in Holidays /\ Row(r) \in Items
         /\ HasRow(r, "loan-products") => Row(r) \in Products /\ Row(r) \in Items
<1>1. asked[r].draft.file \in Files
  BY HeldByStep DEF Importing, DraftRows
<1>2. HasRow(r, "holidays") => asked[r].draft.file.rows \in Seq(Holidays)
  BY <1>1, AdministrationAssumption DEF HasRow
<1>3. HasRow(r, "loan-products") => asked[r].draft.file.rows \in Seq(Products)
  BY <1>1, AdministrationAssumption DEF HasRow
<1> QED
  BY <1>2, <1>3 DEF HasRow, Row, Items

\* The super_admins are finitely many.
LEMMA SuperAdminsCounted == Cardinality(SuperAdmins) \in Nat
<1>1. SuperAdmins \subseteq Users /\ IsFiniteSet(Users)
  BY AdministrationAssumption DEF SuperAdmins
<1>2. IsFiniteSet(SuperAdmins)
  BY <1>1, FS_Subset
<1> QED
  BY <1>2, FS_CardinalityType

\* A request goes on with what it held.
LEMMA GotoTyped ==
  ASSUME AdminTypes, NEW r \in Requests, NEW request, Goto(r, request),
         request \in {Nothing} \union Updating \union Importing,
         request.step = "write" =>
           /\ request.draft.file.domain = "holidays"
           /\ request.next \in DOMAIN request.draft.file.rows
  PROVE  /\ asked' \in [Requests -> {Nothing} \union Updating \union Importing]
         /\ (\A q \in Requests : At(q, "write") => HasRow(q, "holidays"))'
<1>1. asked' = [asked EXCEPT ![r] = request]
  BY DEF Goto
<1>2. \A q \in Requests : asked'[q] = IF q = r THEN request ELSE asked[q]
  BY <1>1 DEF AdminTypes
<1> QED
  BY <1>1, <1>2 DEF AdminTypes, At, HasRow

\* A request that ends holds nothing.
LEMMA EndTyped ==
  ASSUME AdminTypes, NEW r \in Requests, End(r)
  PROVE  /\ asked' \in [Requests -> {Nothing} \union Updating \union Importing]
         /\ (\A q \in Requests : At(q, "write") => HasRow(q, "holidays"))'
BY GotoTyped DEF End, Nothing

\* Requests about accounts keep every row its type,
LEMMA AccountTypes ==
  ASSUME AdminTypes, AccountRequests
  PROVE  AdminTypes'
<1>1. UNCHANGED <<calendar, products, drafts, imports, uploads>>
  BY DEF AccountRequests, CreateUser, ReadUser, CountSuperAdmins, WriteUser, importing
<1>2. updates' \in Nat
  <2>1. updates' \in {updates, updates + 1}
    BY DEF AccountRequests, CreateUser, ReadUser, CountSuperAdmins, WriteUser
  <2> QED
    BY <2>1 DEF AdminTypes
<1>3. /\ asked' \in [Requests -> {Nothing} \union Updating \union Importing]
      /\ (\A q \in Requests : At(q, "write") => HasRow(q, "holidays"))'
  <2>1. CASE UNCHANGED asked
    BY <2>1 DEF AdminTypes, At, HasRow
  <2>2. ASSUME NEW r \in Requests, NEW actor \in Users, NEW u \in Users, NEW change \in Changes,
               NEW version \in {0, users[u].version}, ReadUser(r, actor, u, change, version)
        PROVE  /\ asked' \in [Requests -> {Nothing} \union Updating \union Importing]
               /\ (\A q \in Requests : At(q, "write") => HasRow(q, "holidays"))'
    <3> DEFINE step == IF TakesSuperAdmin(users[u], change) THEN "count" ELSE "update"
               new == [step |-> step, user |-> u, row |-> users[u], change |-> change,
                       version |-> version, counted |-> 0]
    <3>1. Goto(r, new)
      BY <2>2 DEF ReadUser
    <3>2. users[u] \in UserRows /\ users[u].version \in Nat
      BY DEF AdminTypes, UserRows
    <3>3. new \in Updating /\ new.step # "write"
      BY <3>2 DEF Updating
    <3> HIDE DEF new
    <3> QED
      BY <3>1, <3>3, GotoTyped
  <2>3. ASSUME NEW r \in Requests, CountSuperAdmins(r)
        PROVE  /\ asked' \in [Requests -> {Nothing} \union Updating \union Importing]
               /\ (\A q \in Requests : At(q, "write") => HasRow(q, "holidays"))'
    <3> DEFINE count == Cardinality(SuperAdmins)
               new == [asked[r] EXCEPT !.step = "update", !.counted = count]
    <3>1. End(r) \/ Goto(r, new)
      BY <2>3 DEF CountSuperAdmins
    <3>2. asked[r] \in Updating /\ count \in Nat
      BY <2>3, HeldByStep, SuperAdminsCounted DEF CountSuperAdmins
    <3> HIDE DEF count
    <3>3. new \in Updating /\ new.step # "write"
      BY <3>2 DEF Updating
    <3> HIDE DEF new
    <3> QED
      BY <3>1, <3>3, GotoTyped, EndTyped
  <2>4. ASSUME NEW r \in Requests, WriteUser(r)
        PROVE  /\ asked' \in [Requests -> {Nothing} \union Updating \union Importing]
               /\ (\A q \in Requests : At(q, "write") => HasRow(q, "holidays"))'
    BY <2>4, EndTyped DEF WriteUser
  <2> QED
    BY <2>1, <2>2, <2>3, <2>4 DEF AccountRequests, CreateUser
<1>4. users' \in [Users -> UserRows]
  <2>1. ASSUME NEW actor \in Users, NEW u \in Users, NEW role \in Roles, CreateUser(actor, u, role)
        PROVE  users' \in [Users -> UserRows]
    <3>1. [role |-> role, status |-> "active", version |-> 1] \in UserRows
      BY DEF UserRows
    <3> QED
      BY <2>1, <3>1 DEF CreateUser, AdminTypes
  <2>2. ASSUME NEW r \in Requests, WriteUser(r)
        PROVE  users' \in [Users -> UserRows]
    <3> DEFINE u == asked[r].user
               new == Changed(users[u], asked[r].change)
    <3>1. asked[r] \in Updating
      BY <2>2, HeldByStep DEF WriteUser
    <3>2. UNCHANGED users \/ users' = [users EXCEPT ![u] = new]
      BY <2>2 DEF WriteUser
    <3>3. users[u] \in UserRows /\ asked[r].change \in Changes
      BY <3>1 DEF Updating, AdminTypes
    <3>4. new \in UserRows
      BY <3>3 DEF Changed, Changes, UserRows
    <3> HIDE DEF new, u
    <3> QED
      BY <3>2, <3>4 DEF AdminTypes
  <2> QED
    BY <2>1, <2>2 DEF AccountRequests, ReadUser, CountSuperAdmins, AdminTypes
<1> QED
  BY <1>1, <1>2, <1>3, <1>4 DEF AdminTypes

\* A commit that has accepted a row, or passed over one.
LEMMA AcceptedTyped ==
  ASSUME AdminTypes, NEW r \in Requests, At(r, "rows") \/ At(r, "write"),
         HasRow(r, "holidays") \/ HasRow(r, "loan-products")
  PROVE  /\ Accepted(r) \in Importing /\ Accepted(r).step = "rows"
         /\ Accepted(r).draft = asked[r].draft
         /\ Accepted(r).accepted = asked[r].accepted \union {Row(r)}
         /\ Accepted(r).since = asked[r].since /\ Accepted(r).wrote = asked[r].wrote
<1>1. asked[r] \in Importing /\ Row(r) \in Items
  BY HeldByStep, RowTyped
<1>2. asked[r].accepted \union {Row(r)} \in SUBSET Items
  BY <1>1 DEF Importing
<1>3. asked[r].next + 1 \in Nat
  BY <1>1 DEF Importing
<1> DEFINE c == asked[r]
           row == Row(r)
<1>4. Accepted(r) = [c EXCEPT !.step = "rows", !.next = c.next + 1,
                              !.accepted = c.accepted \union {row}]
  BY DEF Accepted
<1> HIDE DEF c, row
<1>5. c \in Importing /\ c.next + 1 \in Nat /\ c.accepted \union {row} \in SUBSET Items
  BY <1>1, <1>2, <1>3 DEF c, row
<1>6. LET new == [c EXCEPT !.step = "rows", !.next = c.next + 1,
                           !.accepted = c.accepted \union {row}]
      IN  /\ new \in Importing /\ new.step = "rows" /\ new.draft = c.draft
          /\ new.accepted = c.accepted \union {row}
          /\ new.since = c.since /\ new.wrote = c.wrote
  BY <1>5 DEF Importing
<1> QED
  BY <1>4, <1>6 DEF c, row

\* A row that is passed over leaves what was accepted alone.
LEMMA PassedTyped ==
  ASSUME AdminTypes, NEW r \in Requests, At(r, "rows") \/ At(r, "write")
  PROVE  LET passed == [asked[r] EXCEPT !.step = "rows", !.next = @ + 1]
         IN  /\ passed \in Importing /\ passed.step = "rows" /\ passed.draft = asked[r].draft
             /\ passed.accepted = asked[r].accepted
             /\ passed.since = asked[r].since /\ passed.wrote = asked[r].wrote
<1> DEFINE c == asked[r]
<1>1. c \in Importing
  BY HeldByStep
<1> HIDE DEF c
<1>2. c.next + 1 \in Nat
  BY <1>1 DEF Importing
<1>3. LET passed == [c EXCEPT !.step = "rows", !.next = c.next + 1]
      IN  /\ passed \in Importing /\ passed.step = "rows" /\ passed.draft = c.draft
          /\ passed.accepted = c.accepted
          /\ passed.since = c.since /\ passed.wrote = c.wrote
  BY <1>1, <1>2 DEF Importing
<1> QED
  BY <1>3 DEF c

\* The actions of a commit under way, by what they do to it.
Ended(r) == asked' = [asked EXCEPT ![r] = Nothing]
Became(r, commit) == asked' = [asked EXCEPT ![r] = commit]

\* A holiday is in the calendar that is read, or it is to be written,
LEMMA ReadCalendarAsked ==
  ASSUME AdminTypes, NEW r \in Requests, ReadCalendar(r)
  PROVE  /\ HasRow(r, "holidays")
         /\ \/ Row(r) \in calendar.days /\ Became(r, Accepted(r))
            \/ /\ Became(r, [asked[r] EXCEPT !.step = "write", !.read = calendar.days])
               /\ LET c == [asked[r] EXCEPT !.step = "write", !.read = calendar.days]
                  IN  /\ c \in Importing /\ c.step = "write" /\ c.draft = asked[r].draft
                      /\ c.next = asked[r].next /\ c.accepted = asked[r].accepted
                      /\ c.read = calendar.days
                      /\ c.since = asked[r].since /\ c.wrote = asked[r].wrote
<1>1. asked[r] \in Importing /\ calendar.days \in SUBSET Holidays
  BY HeldByStep DEF ReadCalendar, AdminTypes
<1> QED
  BY <1>1 DEF ReadCalendar, Importing, Became, Goto

\* and when it is written it is accepted.
LEMMA WriteCalendarAsked ==
  ASSUME AdminTypes, NEW r \in Requests, WriteCalendar(r)
  PROVE  LET c == [Accepted(r) EXCEPT !.wrote = @ + 1]
         IN  /\ HasRow(r, "holidays") /\ Became(r, c)
             /\ c \in Importing /\ c.step = "rows" /\ c.draft = asked[r].draft
             /\ c.accepted = asked[r].accepted \union {Row(r)}
             /\ c.since = asked[r].since /\ c.wrote = asked[r].wrote + 1
             /\ calendar' \in [days : SUBSET Holidays, writes : Nat]
             /\ calendar'.days = asked[r].read \union {Row(r)}
             /\ calendar'.writes = calendar.writes + 1
<1>1. At(r, "write") /\ HasRow(r, "holidays")
  BY DEF WriteCalendar, AdminTypes
<1>2. /\ Accepted(r) \in Importing /\ Accepted(r).step = "rows"
      /\ Accepted(r).draft = asked[r].draft
      /\ Accepted(r).accepted = asked[r].accepted \union {Row(r)}
      /\ Accepted(r).since = asked[r].since /\ Accepted(r).wrote = asked[r].wrote
  BY <1>1, AcceptedTyped
<1>3. Row(r) \in Holidays /\ asked[r] \in Importing
  BY <1>1, RowTyped, HeldByStep
<1>4. calendar' = [days |-> asked[r].read \union {Row(r)}, writes |-> calendar.writes + 1]
  BY DEF WriteCalendar, Replaced, Merged
<1>5. asked[r].read \union {Row(r)} \in SUBSET Holidays /\ calendar.writes + 1 \in Nat
  BY <1>3 DEF Importing, AdminTypes
<1>6. Became(r, [Accepted(r) EXCEPT !.wrote = @ + 1])
  BY DEF WriteCalendar, Became, Goto
<1> QED
  BY <1>1, <1>2, <1>4, <1>5, <1>6 DEF Importing

\* A row that fails ends a strict import and is passed over by another.
LEMMA RowFailsAsked ==
  ASSUME AdminTypes, NEW r \in Requests, RowFails(r)
  PROVE  /\ At(r, "rows") \/ At(r, "write")
         /\ Ended(r) \/ Became(r, [asked[r] EXCEPT !.step = "rows", !.next = @ + 1])
         /\ UNCHANGED <<calendar, products, drafts, imports, uploads, users, updates>>
BY DEF RowFails, Ended, Became, End, Goto, importing, accounts

\* A product is created once; the request may still end before it is counted.
LEMMA CreateProductAsked ==
  ASSUME AdminTypes, NEW r \in Requests, CreateProduct(r)
  PROVE  /\ At(r, "rows") /\ HasRow(r, "loan-products")
         /\ Row(r) \notin products /\ products' = products \union {Row(r)}
         /\ \/ Ended(r) \/ Became(r, Accepted(r))
            \/ Became(r, [asked[r] EXCEPT !.step = "rows", !.next = @ + 1])
         /\ UNCHANGED <<calendar, drafts, imports, uploads, users, updates>>
<1>1. asked[r] \in Importing /\ asked[r].step = "rows"
  BY HeldByStep DEF CreateProduct, At
<1>2. [asked[r] EXCEPT !.next = @ + 1] = [asked[r] EXCEPT !.step = "rows", !.next = @ + 1]
  BY <1>1 DEF Importing
<1> QED
  BY <1>2 DEF CreateProduct, Ended, Became, End, Goto, accounts

\* and so do the requests about imports.
LEMMA ImportTypes ==
  ASSUME AdminTypes, ImportRequests
  PROVE  AdminTypes'
<1> DEFINE Typed == /\ asked' \in [Requests -> {Nothing} \union Updating \union Importing]
                    /\ (\A q \in Requests : At(q, "write") => HasRow(q, "holidays"))'
<1>a. ASSUME UNCHANGED asked PROVE Typed
  BY <1>a DEF AdminTypes, At, HasRow
<1>b. ASSUME NEW r \in Requests, Ended(r) PROVE Typed
  BY <1>b, EndTyped DEF Ended, End, Goto
<1>c. ASSUME NEW r \in Requests, NEW c \in Importing, Became(r, c), c.step # "write" PROVE Typed
  BY <1>c, GotoTyped DEF Became, Goto
<1>1. ASSUME NEW actor \in Users, NEW days \in SUBSET Holidays, SetHolidays(actor, days)
      PROVE  AdminTypes'
  <2>1. calendar' = [days |-> days, writes |-> calendar.writes + 1] /\ calendar.writes \in Nat
    BY <1>1 DEF SetHolidays, Replaced, AdminTypes
  <2>2. calendar' \in [days : SUBSET Holidays, writes : Nat]
    BY <2>1
  <2>3. Typed /\ uploads' \in Nat
    BY <1>1, <1>a DEF SetHolidays, AdminTypes
  <2> QED
    BY <1>1, <2>2, <2>3 DEF SetHolidays, accounts, AdminTypes
<1>2. ASSUME NEW actor \in Users, NEW file \in Files, DryRun(actor, file)
      PROVE  AdminTypes'
  <2>1. [id |-> uploads + 1, owner |-> actor, file |-> file] \in DraftRows
    BY DEF DraftRows, AdminTypes
  <2>2. Typed /\ uploads' \in Nat
    BY <1>2, <1>a DEF DryRun, AdminTypes
  <2>3. drafts' \subseteq DraftRows
    BY <1>2, <2>1 DEF DryRun, AdminTypes
  <2> QED
    BY <1>2, <2>2, <2>3 DEF DryRun, accounts, AdminTypes
<1>3. ASSUME NEW d \in drafts, EvictExpired(d) PROVE AdminTypes'
  BY <1>3 DEF EvictExpired, accounts, AdminTypes, At, HasRow
<1>4. ASSUME NEW r \in Requests, NEW actor \in Users, NEW d \in drafts, NEW strict \in BOOLEAN,
             BeginCommit(r, actor, d, strict)
      PROVE  AdminTypes'
  <2> DEFINE c == [step |-> "rows", draft |-> d, strict |-> strict, next |-> 1, accepted |-> {},
                   read |-> {}, since |-> calendar.writes, wrote |-> 0]
  <2>1. c \in Importing /\ c.step # "write"
    BY DEF Importing, AdminTypes
  <2>2. Became(r, c) /\ uploads' = uploads + 1
        /\ UNCHANGED <<calendar, products, drafts, imports, users, updates>>
    BY <1>4 DEF BeginCommit, Became, Goto, accounts
  <2> HIDE DEF c
  <2>3. Typed
    BY <2>1, <2>2, <1>c
  <2> QED
    BY <2>2, <2>3 DEF AdminTypes
<1>5. ASSUME NEW r \in Requests, ReadCalendar(r) PROVE AdminTypes'
  <2>1. Typed
    <3>1. At(r, "rows") /\ HasRow(r, "holidays")
      BY <1>5 DEF ReadCalendar
    <3>2. CASE Became(r, Accepted(r))
      BY <3>1, <3>2, AcceptedTyped, <1>c
    <3>3. CASE Became(r, [asked[r] EXCEPT !.step = "write", !.read = calendar.days])
               /\ Row(r) \notin calendar.days
      <4> DEFINE c == [asked[r] EXCEPT !.step = "write", !.read = calendar.days]
      <4>1. asked[r] \in Importing /\ calendar.days \in SUBSET Holidays
        BY <3>1, HeldByStep DEF AdminTypes
      <4>2. c \in Importing /\ c.draft = asked[r].draft /\ c.next = asked[r].next
        BY <4>1 DEF Importing
      <4>3. c.draft.file.domain = "holidays" /\ c.next \in DOMAIN c.draft.file.rows
        BY <3>1, <4>2 DEF HasRow
      <4> HIDE DEF c
      <4> QED
        BY <3>3, <4>2, <4>3, GotoTyped DEF Became, Goto, c
    <3> QED
      BY <1>5, <3>2, <3>3 DEF ReadCalendar, Became, Goto
  <2> QED
    BY <1>5, <2>1 DEF ReadCalendar, importing, accounts, AdminTypes
<1>6. ASSUME NEW r \in Requests, WriteCalendar(r) PROVE AdminTypes'
  <2>1. Typed
    BY <1>6, <1>c, WriteCalendarAsked
  <2> QED
    BY <1>6, <2>1, WriteCalendarAsked DEF WriteCalendar, accounts, AdminTypes
<1>7. ASSUME NEW r \in Requests, RowFails(r) PROVE AdminTypes'
  <2>1. Typed
    BY <1>7, <1>b, <1>c, RowFailsAsked, PassedTyped
  <2> QED
    BY <1>7, <2>1, RowFailsAsked DEF AdminTypes
<1>8. ASSUME NEW r \in Requests, CreateProduct(r) PROVE AdminTypes'
  <2>1. Typed
    BY <1>8, <1>b, <1>c, CreateProductAsked, PassedTyped, AcceptedTyped
  <2>2. Row(r) \in Products
    BY <1>8, CreateProductAsked, RowTyped
  <2> QED
    BY <1>8, <2>1, <2>2, CreateProductAsked DEF AdminTypes
<1>9. ASSUME NEW r \in Requests, EndCommit(r) PROVE AdminTypes'
  <2>1. asked[r] \in Importing
    BY <1>9, HeldByStep DEF EndCommit, Finished
  <2>2. [draft |-> asked[r].draft, request |-> r, accepted |-> asked[r].accepted] \in ImportRows
    BY <2>1 DEF Importing, ImportRows
  <2>3. Typed
    BY <1>9, EndTyped DEF EndCommit
  <2> QED
    BY <1>9, <2>2, <2>3 DEF EndCommit, accounts, AdminTypes
<1>10. ASSUME NEW r \in Requests, CommitTimesOut(r) PROVE AdminTypes'
  <2>1. Typed
    BY <1>10, EndTyped DEF CommitTimesOut
  <2> QED
    BY <1>10, <2>1 DEF CommitTimesOut, importing, accounts, AdminTypes
<1> QED
  BY <1>1, <1>2, <1>3, <1>4, <1>5, <1>6, <1>7, <1>8, <1>9, <1>10 DEF ImportRequests

\* Every step of the office keeps every row its type.
LEMMA AdminTypesNext == AdminTypes /\ [OfficeNext]_officeVars => AdminTypes'
<1> SUFFICES ASSUME AdminTypes, [OfficeNext]_officeVars PROVE AdminTypes'
  OBVIOUS
<1>1. CASE UNCHANGED adminVars
  BY <1>1 DEF adminVars, AdminTypes, At, HasRow
<1>2. CASE AdminRestart
  BY <1>2 DEF AdminRestart, accounts, AdminTypes, At, Nothing
<1> QED
  BY <1>1, <1>2, AccountTypes, ImportTypes DEF OfficeNext, AdminNext, officeVars

\* In every behaviour of the office.
LEMMA AdminTyped == OfficeSpec => []AdminTypes
<1>1. OfficeInit => AdminTypes
  BY InitAdminTypes DEF OfficeInit
<1> QED
  BY <1>1, AdminTypesNext, PTL DEF OfficeSpec

-----------------------------------------------------------------------------
(* The last active super_admin. *)

\* An update that is about to take a super_admin away has counted another one.
UpdatesInv ==
  \A r \in Requests :
    At(r, "update") /\ TakesSuperAdmin(asked[r].row, asked[r].change) => asked[r].counted > 1

\* A request that got where it is now by a step that is not an update's.
LEMMA UpdatesKept ==
  ASSUME UpdatesInv, \A q \in Requests : asked'[q] = asked[q] \/ asked'[q].step # "update"
  PROVE  UpdatesInv'
BY DEF UpdatesInv, At, TakesSuperAdmin, IsSuperAdmin

\* An update that takes a super_admin has counted more than one,
LEMMA UpdatesNextAccounts ==
  ASSUME AdminTypes, UpdatesInv, AccountRequests
  PROVE  UpdatesInv'
<1>1. CASE UNCHANGED asked
  BY <1>1, UpdatesKept
<1>2. ASSUME NEW r \in Requests, NEW actor \in Users, NEW u \in Users, NEW change \in Changes,
             NEW version \in {0, users[u].version}, ReadUser(r, actor, u, change, version)
      PROVE  UpdatesInv'
  <2> DEFINE step == IF TakesSuperAdmin(users[u], change) THEN "count" ELSE "update"
             new == [step |-> step, user |-> u, row |-> users[u], change |-> change,
                     version |-> version, counted |-> 0]
  <2>1. asked' = [asked EXCEPT ![r] = new]
    BY <1>2 DEF ReadUser, Goto
  <2>2. new.step = "update" => ~ TakesSuperAdmin(new.row, new.change)
    OBVIOUS
  <2> HIDE DEF new
  <2>3. \A q \in Requests : asked'[q] = IF q = r THEN new ELSE asked[q]
    BY <2>1 DEF AdminTypes
  <2> QED
    BY <2>2, <2>3 DEF UpdatesInv, At, TakesSuperAdmin, IsSuperAdmin
<1>3. ASSUME NEW r \in Requests, CountSuperAdmins(r) PROVE UpdatesInv'
  <2> DEFINE count == Cardinality(SuperAdmins)
             new == [asked[r] EXCEPT !.step = "update", !.counted = count]
  <2>1. \/ asked' = [asked EXCEPT ![r] = Nothing]
        \/ ~ LastOne(count) /\ asked' = [asked EXCEPT ![r] = new]
    BY <1>3 DEF CountSuperAdmins, End, Goto
  <2>2. asked[r] \in Updating /\ count \in Nat
    BY <1>3, HeldByStep, SuperAdminsCounted DEF CountSuperAdmins
  <2> HIDE DEF count
  <2>3. ~ LastOne(count) => new.counted > 1
    BY <2>2 DEF LastOne, Updating
  <2> HIDE DEF new
  <2>4. CASE asked' = [asked EXCEPT ![r] = Nothing]
    BY <2>4, UpdatesKept DEF AdminTypes, Nothing
  <2>5. CASE ~ LastOne(count) /\ asked' = [asked EXCEPT ![r] = new]
    <3>1. \A q \in Requests : asked'[q] = IF q = r THEN new ELSE asked[q]
      BY <2>5 DEF AdminTypes
    <3> QED
      BY <2>3, <2>5, <3>1 DEF UpdatesInv, At, TakesSuperAdmin, IsSuperAdmin
  <2> QED
    BY <2>1, <2>4, <2>5
<1>4. ASSUME NEW r \in Requests, WriteUser(r) PROVE UpdatesInv'
  BY <1>4, UpdatesKept DEF WriteUser, End, Goto, AdminTypes, Nothing
<1> QED
  BY <1>1, <1>2, <1>3, <1>4 DEF AccountRequests, CreateUser

\* and imports take none,
LEMMA UpdatesNextImports ==
  ASSUME AdminTypes, UpdatesInv, ImportRequests
  PROVE  UpdatesInv'
<1>a. CASE UNCHANGED asked
  BY <1>a, UpdatesKept
<1>b. ASSUME NEW r \in Requests, Ended(r) PROVE UpdatesInv'
  BY <1>b, UpdatesKept DEF Ended, AdminTypes, Nothing
<1>c. ASSUME NEW r \in Requests, NEW c \in Importing, Became(r, c) PROVE UpdatesInv'
  <2>1. c.step # "update"
    BY DEF Importing
  <2> QED
    BY <1>c, <2>1, UpdatesKept DEF Became, AdminTypes
<1>1. ASSUME NEW r \in Requests, NEW actor \in Users, NEW d \in drafts, NEW strict \in BOOLEAN,
             BeginCommit(r, actor, d, strict)
      PROVE  UpdatesInv'
  <2>1. [step |-> "rows", draft |-> d, strict |-> strict, next |-> 1, accepted |-> {},
         read |-> {}, since |-> calendar.writes, wrote |-> 0] \in Importing
    BY DEF Importing, AdminTypes
  <2> QED
    BY <1>1, <2>1, <1>c DEF BeginCommit, Became, Goto
<1>2. ASSUME NEW r \in Requests, ReadCalendar(r) PROVE UpdatesInv'
  <2>1. At(r, "rows")
    BY <1>2 DEF ReadCalendar
  <2> QED
    BY <1>2, <2>1, <1>c, ReadCalendarAsked, AcceptedTyped
<1>3. ASSUME NEW r \in Requests, WriteCalendar(r) PROVE UpdatesInv'
  BY <1>3, <1>c, WriteCalendarAsked
<1>4. ASSUME NEW r \in Requests, RowFails(r) PROVE UpdatesInv'
  BY <1>4, <1>b, <1>c, RowFailsAsked, PassedTyped
<1>5. ASSUME NEW r \in Requests, CreateProduct(r) PROVE UpdatesInv'
  BY <1>5, <1>b, <1>c, CreateProductAsked, AcceptedTyped, PassedTyped
<1>6. ASSUME NEW r \in Requests, EndCommit(r) \/ CommitTimesOut(r) PROVE UpdatesInv'
  BY <1>6, <1>b DEF EndCommit, CommitTimesOut, End, Goto, Ended
<1> QED
  BY <1>a, <1>1, <1>2, <1>3, <1>4, <1>5, <1>6 DEF ImportRequests, SetHolidays, DryRun, EvictExpired

\* so no step of the office takes that away.
LEMMA UpdatesNext == AdminTypes /\ UpdatesInv /\ [OfficeNext]_officeVars => UpdatesInv'
<1> SUFFICES ASSUME AdminTypes, UpdatesInv, [OfficeNext]_officeVars PROVE UpdatesInv'
  OBVIOUS
<1>1. CASE UNCHANGED adminVars
  BY <1>1, UpdatesKept DEF adminVars
<1>2. CASE AdminRestart
  BY <1>2, UpdatesKept DEF AdminRestart, Nothing
<1> QED
  BY <1>1, <1>2, UpdatesNextAccounts, UpdatesNextImports DEF OfficeNext, AdminNext, officeVars

\* If one change leaves no super_admin, its row was the only one.
LEMMA OnlyOneTaken ==
  ASSUME AdminTypes, NEW u \in Users, NEW change \in Changes,
         users' = [users EXCEPT ![u] = Changed(users[u], change)],
         SuperAdmins # {}, SuperAdmins' = {}
  PROVE  Cardinality(SuperAdmins) = 1 /\ TakesSuperAdmin(users[u], change)
<1>1. \A s \in Users : users'[s] = IF s = u THEN Changed(users[u], change) ELSE users[s]
  BY DEF AdminTypes
<1>2. \A s \in Users : ~ IsSuperAdmin(users'[s])
  BY DEF SuperAdmins, IsSuperAdmin
<1>3. SuperAdmins = {u}
  BY <1>1, <1>2 DEF SuperAdmins
<1>4. IsSuperAdmin(users[u]) /\ ~ IsSuperAdmin(Changed(users[u], change))
  BY <1>1, <1>2, <1>3 DEF SuperAdmins
<1>5. TakesSuperAdmin(users[u], change)
  BY <1>4 DEF TakesSuperAdmin, IsSuperAdmin, Changed, Changes
<1> QED
  BY <1>3, <1>5, FS_Singleton

\* The last super_admin is lost only if the row or the count changed after it was
\* read.
LEMMA LostToOverlap ==
  ASSUME AdminTypes, UpdatesInv, [OfficeNext]_officeVars, SuperAdmins # {}, SuperAdmins' = {}
  PROVE  \E r \in Requests :
           /\ At(r, "update") /\ asked'[r] = Nothing
           /\ \/ asked[r].row # users[asked[r].user]
              \/ asked[r].counted > Cardinality(SuperAdmins)
<1>1. CASE UNCHANGED users
  BY <1>1 DEF SuperAdmins, IsSuperAdmin
<1>2. ASSUME NEW actor \in Users, NEW u \in Users, NEW role \in Roles, CreateUser(actor, u, role)
      PROVE  FALSE
  <2>1. /\ users[u] = Absent
        /\ users' = [users EXCEPT ![u] = [role |-> role, status |-> "active", version |-> 1]]
    BY <1>2 DEF CreateUser
  <2>2. PICK s \in Users : IsSuperAdmin(users[s])
    BY DEF SuperAdmins
  <2>3. s # u
    BY <2>1, <2>2 DEF Absent, IsSuperAdmin
  <2>4. users'[s] = users[s]
    BY <2>1, <2>3 DEF AdminTypes
  <2> QED
    BY <2>2, <2>4 DEF SuperAdmins, IsSuperAdmin
<1>3. ASSUME NEW r \in Requests, WriteUser(r)
      PROVE  /\ At(r, "update") /\ asked'[r] = Nothing
             /\ \/ asked[r].row # users[asked[r].user]
                \/ asked[r].counted > Cardinality(SuperAdmins)
  <2> DEFINE u == asked[r].user
  <2>1. At(r, "update") /\ asked' = [asked EXCEPT ![r] = Nothing]
    BY <1>3 DEF WriteUser, End, Goto
  <2>2. asked'[r] = Nothing
    BY <2>1 DEF AdminTypes
  <2>3. asked[r] \in Updating
    BY <2>1, HeldByStep
  <2>4. u \in Users /\ asked[r].change \in Changes /\ asked[r].counted \in Nat
    BY <2>3 DEF Updating
  <2>5. CASE UNCHANGED users
    BY <2>5 DEF SuperAdmins, IsSuperAdmin
  <2>6. CASE users' = [users EXCEPT ![u] = Changed(users[u], asked[r].change)]
    <3>1. Cardinality(SuperAdmins) = 1 /\ TakesSuperAdmin(users[u], asked[r].change)
      BY <2>4, <2>6, OnlyOneTaken
    <3>2. asked[r].row = users[u] => asked[r].counted > 1
      BY <2>1, <3>1 DEF UpdatesInv
    <3> QED
      BY <2>1, <2>2, <3>1, <3>2
  <2> QED
    BY <1>3, <2>5, <2>6 DEF WriteUser
<1> QED
  BY <1>1, <1>2, <1>3 DEF OfficeNext, AdminNext, AccountRequests, ImportRequests, AdminRestart,
     ReadUser, CountSuperAdmins, SetHolidays, DryRun, EvictExpired, BeginCommit, ReadCalendar,
     WriteCalendar, RowFails, CreateProduct, EndCommit, CommitTimesOut, accounts, officeVars,
     adminVars

(* However many updates of however many accounts overlap, the last active
   super_admin is taken away only by one that acts on a row or on a count that
   is no longer true (UserService.updateUser). *)
THEOREM LastSuperAdminLostOnlyToOverlapAlways == OfficeSpec => LastSuperAdminLostOnlyToOverlap
<1>1. OfficeInit => UpdatesInv
  BY DEF OfficeInit, AdminInit, UpdatesInv, At, Nothing
<1>2. OfficeSpec => []UpdatesInv
  BY <1>1, AdminTyped, UpdatesNext, PTL DEF OfficeSpec
<1>3. AdminTypes /\ UpdatesInv /\ [OfficeNext]_officeVars =>
        [SuperAdmins # {} /\ SuperAdmins' = {} =>
           \E r \in Requests :
             /\ At(r, "update") /\ asked'[r] = Nothing
             /\ \/ asked[r].row # users[asked[r].user]
                \/ asked[r].counted > Cardinality(SuperAdmins)]_adminVars
  BY LostToOverlap
<1> QED
  BY <1>2, <1>3, AdminTyped, PTL DEF OfficeSpec, LastSuperAdminLostOnlyToOverlap

-----------------------------------------------------------------------------
(* Imports. *)

Commits(c) == c.step \in {"rows", "write"}

\* What a commit has accepted is in the calendar, and in the calendar it is
\* about to write back, unless someone else wrote the calendar meanwhile.
Counted(c, days, writes) ==
  /\ c.since + c.wrote <= writes
  /\ c.draft.file.domain = "holidays" =>
       c.accepted \subseteq days \/ c.since + c.wrote < writes
  /\ c.step = "write" => c.accepted \subseteq c.read \/ c.since + c.wrote < writes

CalendarInv ==
  \A r \in Requests : Commits(asked[r]) => Counted(asked[r], calendar.days, calendar.writes)

\* The products a commit under way has accepted.
Took(c) == IF Commits(c) THEN c.accepted \intersect Products ELSE {}

\* A product that was accepted exists, and was accepted once.
ProductsInv ==
  /\ \A r \in Requests :
       Commits(asked[r]) /\ asked[r].draft.file.domain # "holidays" =>
         asked[r].accepted \subseteq Products
  /\ \A r \in Requests : Took(asked[r]) \subseteq products
  /\ \A e \in imports : e.accepted \intersect Products \subseteq products
  /\ \A p \in Products :
       /\ \A r, q \in Requests : p \in Took(asked[r]) /\ p \in Took(asked[q]) => r = q
       /\ \A r \in Requests, e \in imports : ~ (p \in Took(asked[r]) /\ p \in e.accepted)
       /\ \A e, f \in imports : p \in e.accepted /\ p \in f.accepted => e = f

\* A draft has a number of its own, and is gone once it was reported.
DraftsInv ==
  /\ \A d \in drafts : d.id <= uploads
  /\ \A r \in Requests : Commits(asked[r]) => asked[r].draft.id <= uploads
  /\ \A e \in imports : e.draft.id <= uploads /\ e.draft \notin drafts

\* Nothing is imported at the start.
LEMMA InitImports == AdminInit => CalendarInv /\ ProductsInv /\ DraftsInv
BY DEF AdminInit, CalendarInv, ProductsInv, DraftsInv, Commits, Took, Nothing

\* A set whose members are all the same is empty or a singleton.
LEMMA AtMostOne ==
  ASSUME NEW S, \A x, y \in S : x = y
  PROVE  \/ S = {} /\ Cardinality(S) = 0
         \/ S # {} /\ Cardinality(S) = 1
<1>1. CASE S = {}
  BY <1>1, FS_EmptySet
<1>2. CASE S # {}
  <2>1. PICK x : S = {x}
    BY <1>2
  <2> QED
    BY <1>2, <2>1, FS_Singleton
<1> QED
  BY <1>1, <1>2

\* What the invariants say of an import, in the words of its counts.
LEMMA ImportsImplied ==
  AdminTypes /\ CalendarInv /\ ProductsInv /\ DraftsInv => ImportsTellWhatTheyDid
<1> SUFFICES ASSUME AdminTypes, CalendarInv, ProductsInv, DraftsInv
             PROVE  ImportsTellWhatTheyDid
  OBVIOUS
<1>1. ASSUME NEW r \in Committing
      PROVE  IF asked[r].draft.file.domain = "holidays"
             THEN asked[r].accepted \subseteq calendar.days
                  \/ calendar.writes # asked[r].since + asked[r].wrote
             ELSE asked[r].accepted \subseteq products
  <2>1. Commits(asked[r]) /\ asked[r] \in Importing /\ calendar.writes \in Nat
    BY HeldByStep DEF Committing, Commits, At, AdminTypes
  <2>2. CASE asked[r].draft.file.domain = "holidays"
    BY <2>1, <2>2 DEF CalendarInv, Counted, Importing, Committing
  <2>3. CASE asked[r].draft.file.domain # "holidays"
    BY <2>1, <2>3 DEF ProductsInv, Took, Committing
  <2> QED
    BY <2>2, <2>3
<1>2. ASSUME NEW p \in Products
      PROVE  Cardinality({r \in Committing : p \in asked[r].accepted})
               + Cardinality({e \in imports : p \in e.accepted}) <= 1
  <2> DEFINE S == {r \in Committing : p \in asked[r].accepted}
             T == {e \in imports : p \in e.accepted}
  <2>1. \A r \in S : r \in Requests /\ p \in Took(asked[r])
    BY DEF Committing, Took, Commits, At
  <2>2. /\ \A x, y \in S : x = y
        /\ \A x, y \in T : x = y
        /\ \A x \in S, y \in T : FALSE
    BY <2>1 DEF ProductsInv
  <2> HIDE DEF S, T
  <2>3. /\ \/ S = {} /\ Cardinality(S) = 0
           \/ S # {} /\ Cardinality(S) = 1
        /\ \/ T = {} /\ Cardinality(T) = 0
           \/ T # {} /\ Cardinality(T) = 1
    BY <2>2, AtMostOne
  <2>4. Cardinality(S) + Cardinality(T) <= 1
    BY <2>2, <2>3
  <2> QED
    BY <2>4 DEF S, T
<1> QED
  BY <1>1, <1>2 DEF ImportsTellWhatTheyDid, DraftsInv

-----------------------------------------------------------------------------
(* The calendar. *)

\* The calendar stands, and each request holds what it held, or nothing, or
\* something that was counted.
LEMMA CalendarKept ==
  ASSUME CalendarInv, UNCHANGED calendar,
         \A q \in Requests : \/ asked'[q] = asked[q]
                             \/ ~ Commits(asked'[q])
                             \/ Counted(asked'[q], calendar.days, calendar.writes)
  PROVE  CalendarInv'
BY DEF CalendarInv, Commits, Counted

\* A commit goes on without the calendar being written,
LEMMA CalendarBecame ==
  ASSUME AdminTypes, CalendarInv, UNCHANGED calendar, NEW r \in Requests, NEW c, Became(r, c),
         Counted(c, calendar.days, calendar.writes)
  PROVE  CalendarInv'
<1>1. \A q \in Requests : asked'[q] = IF q = r THEN c ELSE asked[q]
  BY DEF Became, AdminTypes
<1> QED
  BY <1>1, CalendarKept

\* or it ends.
LEMMA CalendarEnded ==
  ASSUME AdminTypes, CalendarInv, UNCHANGED calendar, NEW r \in Requests, Ended(r)
  PROVE  CalendarInv'
<1>1. \A q \in Requests : asked'[q] = asked[q] \/ ~ Commits(asked'[q])
  BY DEF Ended, AdminTypes, Nothing, Commits
<1> QED
  BY <1>1, CalendarKept

\* Whoever else holds a commit sees that the calendar was written.
LEMMA CalendarWritten ==
  ASSUME AdminTypes, CalendarInv, calendar'.writes = calendar.writes + 1,
         \A q \in Requests : \/ asked'[q] = asked[q]
                             \/ Counted(asked'[q], calendar'.days, calendar'.writes)
  PROVE  CalendarInv'
<1> SUFFICES ASSUME NEW q \in Requests, Commits(asked'[q]), asked'[q] = asked[q]
             PROVE  Counted(asked'[q], calendar'.days, calendar'.writes)
  BY DEF CalendarInv, Commits, Counted
<1>1. asked[q] \in Importing /\ calendar.writes \in Nat
  BY HeldByStep DEF Commits, At, AdminTypes
<1>2. asked[q].since \in Nat /\ asked[q].wrote \in Nat
  BY <1>1 DEF Importing
<1>3. asked[q].since + asked[q].wrote <= calendar.writes
  BY DEF CalendarInv, Counted
<1>4. asked[q].since + asked[q].wrote < calendar.writes + 1
  BY <1>1, <1>2, <1>3
<1>5. /\ asked'[q].since = asked[q].since /\ asked'[q].wrote = asked[q].wrote
      /\ asked'[q].since + asked'[q].wrote <= calendar'.writes
      /\ asked'[q].since + asked'[q].wrote < calendar'.writes
  BY <1>1, <1>2, <1>4
<1> QED
  BY <1>5 DEF Counted

\* Every step of an import counts what the calendar took.
LEMMA CalendarNextImports ==
  ASSUME AdminTypes, CalendarInv, ImportRequests
  PROVE  CalendarInv'
<1>1. ASSUME NEW actor \in Users, NEW days \in SUBSET Holidays, SetHolidays(actor, days)
      PROVE  CalendarInv'
  BY <1>1, CalendarWritten DEF SetHolidays, Replaced
<1>2. ASSUME NEW r \in Requests, NEW actor \in Users, NEW d \in drafts, NEW strict \in BOOLEAN,
             BeginCommit(r, actor, d, strict)
      PROVE  CalendarInv'
  <2> DEFINE c == [step |-> "rows", draft |-> d, strict |-> strict, next |-> 1, accepted |-> {},
                   read |-> {}, since |-> calendar.writes, wrote |-> 0]
  <2>1. Counted(c, calendar.days, calendar.writes)
    BY DEF Counted, AdminTypes
  <2>2. Became(r, c) /\ UNCHANGED calendar
    BY <1>2 DEF BeginCommit, Became, Goto
  <2> QED
    BY <2>1, <2>2, CalendarBecame
<1>3. ASSUME NEW r \in Requests, ReadCalendar(r) PROVE CalendarInv'
  <2>1. UNCHANGED calendar /\ At(r, "rows") /\ HasRow(r, "holidays")
    BY <1>3 DEF ReadCalendar, importing
  <2>2. Counted(asked[r], calendar.days, calendar.writes)
    BY <2>1 DEF CalendarInv, Commits, At
  <2>3. CASE Row(r) \in calendar.days /\ Became(r, Accepted(r))
    <3>1. Counted(Accepted(r), calendar.days, calendar.writes)
      BY <2>1, <2>2, <2>3, AcceptedTyped DEF Counted, HasRow
    <3> QED
      BY <2>1, <2>3, <3>1, CalendarBecame
  <2>4. CASE Became(r, [asked[r] EXCEPT !.step = "write", !.read = calendar.days])
    <3>1. asked[r] \in Importing
      BY <2>1, HeldByStep
    <3>2. Counted([asked[r] EXCEPT !.step = "write", !.read = calendar.days],
                  calendar.days, calendar.writes)
      BY <2>1, <2>2, <3>1 DEF Counted, HasRow, Importing
    <3> QED
      BY <2>1, <2>4, <3>2, CalendarBecame
  <2> QED
    BY <1>3, <2>3, <2>4, ReadCalendarAsked
<1>4. ASSUME NEW r \in Requests, WriteCalendar(r) PROVE CalendarInv'
  <2> DEFINE c == [Accepted(r) EXCEPT !.wrote = @ + 1]
  <2>1. /\ Became(r, c) /\ c \in Importing /\ c.step = "rows"
        /\ c.accepted = asked[r].accepted \union {Row(r)}
        /\ c.since = asked[r].since /\ c.wrote = asked[r].wrote + 1
        /\ calendar'.days = asked[r].read \union {Row(r)}
        /\ calendar'.writes = calendar.writes + 1
    BY <1>4, WriteCalendarAsked
  <2>2. At(r, "write") /\ asked[r] \in Importing /\ calendar.writes \in Nat
    BY <1>4, HeldByStep DEF WriteCalendar, AdminTypes
  <2>3. Counted(asked[r], calendar.days, calendar.writes)
    BY <2>2 DEF CalendarInv, Commits, At
  <2> HIDE DEF c
  <2>4. asked[r].since \in Nat /\ asked[r].wrote \in Nat
    BY <2>2 DEF Importing
  <2>5. c.since + c.wrote <= calendar'.writes
    BY <2>1, <2>2, <2>3, <2>4 DEF Counted
  <2>6. c.accepted \subseteq calendar'.days \/ c.since + c.wrote < calendar'.writes
    <3>1. CASE asked[r].accepted \subseteq asked[r].read
      BY <2>1, <3>1
    <3>2. CASE asked[r].since + asked[r].wrote < calendar.writes
      BY <2>1, <2>2, <2>4, <3>2
    <3> QED
      BY <2>2, <2>3, <3>1, <3>2 DEF Counted, At
  <2>7. Counted(c, calendar'.days, calendar'.writes)
    BY <2>1, <2>5, <2>6 DEF Counted
  <2>8. \A q \in Requests : asked'[q] = IF q = r THEN c ELSE asked[q]
    BY <2>1 DEF Became, AdminTypes
  <2> QED
    BY <2>1, <2>7, <2>8, CalendarWritten
<1>5. ASSUME NEW r \in Requests, RowFails(r) PROVE CalendarInv'
  <2> DEFINE c == [asked[r] EXCEPT !.step = "rows", !.next = @ + 1]
  <2>1. /\ Ended(r) \/ Became(r, c)
        /\ At(r, "rows") \/ At(r, "write")
        /\ UNCHANGED calendar
    BY <1>5, RowFailsAsked
  <2>2. Counted(asked[r], calendar.days, calendar.writes)
    BY <2>1 DEF CalendarInv, Commits, At
  <2>3. Counted(c, calendar.days, calendar.writes)
    BY <2>1, <2>2, PassedTyped DEF Counted
  <2> QED
    BY <2>1, <2>3, CalendarEnded, CalendarBecame
<1>6. ASSUME NEW r \in Requests, CreateProduct(r) PROVE CalendarInv'
  <2> DEFINE c == [asked[r] EXCEPT !.step = "rows", !.next = @ + 1]
  <2>1. /\ Ended(r) \/ Became(r, Accepted(r)) \/ Became(r, c)
        /\ UNCHANGED calendar /\ At(r, "rows") /\ HasRow(r, "loan-products")
    BY <1>6, CreateProductAsked
  <2>2. Counted(asked[r], calendar.days, calendar.writes)
    BY <2>1 DEF CalendarInv, Commits, At
  <2>3. Counted(c, calendar.days, calendar.writes)
    BY <2>1, <2>2, PassedTyped DEF Counted
  <2>4. Counted(Accepted(r), calendar.days, calendar.writes)
    BY <2>1, <2>2, AcceptedTyped DEF Counted, HasRow
  <2> QED
    BY <2>1, <2>3, <2>4, CalendarEnded, CalendarBecame
<1>7. ASSUME NEW r \in Requests, EndCommit(r) \/ CommitTimesOut(r) PROVE CalendarInv'
  BY <1>7, CalendarEnded DEF EndCommit, CommitTimesOut, End, Goto, Ended, importing
<1>8. ASSUME UNCHANGED <<calendar, asked>> PROVE CalendarInv'
  BY <1>8, CalendarKept
<1> QED
  BY <1>1, <1>2, <1>3, <1>4, <1>5, <1>6, <1>7, <1>8 DEF ImportRequests, DryRun, EvictExpired

-----------------------------------------------------------------------------
(* The products. *)

\* Products stay, the imports stand, and no request took more than before.
LEMMA ProductsKept ==
  ASSUME ProductsInv, UNCHANGED imports, products \subseteq products',
         \A q \in Requests : Took(asked'[q]) \subseteq Took(asked[q]),
         \A q \in Requests :
           Commits(asked'[q]) /\ asked'[q].draft.file.domain # "holidays" =>
             asked'[q].accepted \subseteq Products
  PROVE  ProductsInv'
<1>1. /\ \A r \in Requests : Took(asked'[r]) \subseteq products'
      /\ \A e \in imports : e.accepted \intersect Products \subseteq products'
  BY DEF ProductsInv
<1>2. ASSUME NEW p \in Products
      PROVE  /\ \A r, q \in Requests : p \in Took(asked'[r]) /\ p \in Took(asked'[q]) => r = q
             /\ \A r \in Requests, e \in imports : ~ (p \in Took(asked'[r]) /\ p \in e.accepted)
             /\ \A e, f \in imports : p \in e.accepted /\ p \in f.accepted => e = f
  BY DEF ProductsInv
<1> HIDE DEF Took
<1> QED
  BY <1>1, <1>2 DEF ProductsInv, Commits, Took

\* A commit goes on taking no product from another,
LEMMA ProductsBecame ==
  ASSUME AdminTypes, ProductsInv, UNCHANGED imports, products \subseteq products',
         NEW r \in Requests, NEW c, Became(r, c), Took(c) \subseteq Took(asked[r]),
         Commits(c) /\ c.draft.file.domain # "holidays" => c.accepted \subseteq Products
  PROVE  ProductsInv'
<1>1. \A q \in Requests : asked'[q] = IF q = r THEN c ELSE asked[q]
  BY DEF Became, AdminTypes
<1>2. \A q \in Requests :
        /\ Took(asked'[q]) \subseteq Took(asked[q])
        /\ Commits(asked'[q]) /\ asked'[q].draft.file.domain # "holidays" =>
             asked'[q].accepted \subseteq Products
  BY <1>1 DEF ProductsInv
<1> QED
  BY <1>2, ProductsKept

\* or it ends.
LEMMA ProductsEnded ==
  ASSUME AdminTypes, ProductsInv, UNCHANGED imports, products \subseteq products',
         NEW r \in Requests, Ended(r)
  PROVE  ProductsInv'
<1>1. Became(r, Nothing)
  BY DEF Ended, Became
<1>2. ~ Commits(Nothing) /\ Took(Nothing) = {}
  BY DEF Nothing, Commits, Took
<1> QED
  BY <1>1, <1>2, ProductsBecame

\* A product nobody has accepted is accepted by one commit.
LEMMA ProductsAccepted ==
  ASSUME AdminTypes, ProductsInv, UNCHANGED imports, NEW r \in Requests, NEW c, NEW new \in Products,
         new \notin products, products' = products \union {new}, Became(r, c),
         Took(c) = Took(asked[r]) \union {new},
         c.accepted \subseteq Products
  PROVE  ProductsInv'
<1>1. \A q \in Requests : asked'[q] = IF q = r THEN c ELSE asked[q]
  BY DEF Became, AdminTypes
<1>2. \A q \in Requests :
        Took(asked'[q]) = IF q = r THEN Took(asked[q]) \union {new} ELSE Took(asked[q])
  BY <1>1
<1>3. \A q \in Requests :
        Commits(asked'[q]) /\ asked'[q].draft.file.domain # "holidays" =>
          asked'[q].accepted \subseteq Products
  BY <1>1 DEF ProductsInv
<1>4. /\ \A q \in Requests : Took(asked'[q]) \subseteq products'
      /\ \A e \in imports : e.accepted \intersect Products \subseteq products'
  BY <1>2 DEF ProductsInv
<1>5. /\ \A q \in Requests : new \notin Took(asked[q])
      /\ \A e \in imports : new \notin e.accepted
  BY DEF ProductsInv
<1>6. ASSUME NEW p \in Products
      PROVE  /\ \A t, q \in Requests : p \in Took(asked'[t]) /\ p \in Took(asked'[q]) => t = q
             /\ \A t \in Requests, e \in imports : ~ (p \in Took(asked'[t]) /\ p \in e.accepted)
             /\ \A e, f \in imports : p \in e.accepted /\ p \in f.accepted => e = f
  <2>1. CASE p = new
    <3>1. \A q \in Requests : p \in Took(asked'[q]) => q = r
      BY <1>2, <1>5, <2>1
    <3> QED
      BY <1>5, <2>1, <3>1
  <2>2. CASE p # new
    <3>1. \A q \in Requests : p \in Took(asked'[q]) => p \in Took(asked[q])
      BY <1>2, <2>2
    <3> QED
      BY <3>1 DEF ProductsInv
  <2> QED
    BY <2>1, <2>2
<1> QED
  BY <1>3, <1>4, <1>6 DEF ProductsInv, Commits, Took

\* What a commit took is handed over to its audit row.
LEMMA ProductsReported ==
  ASSUME AdminTypes, ProductsInv, UNCHANGED products, NEW r \in Requests, NEW row, Ended(r),
         imports' = imports \union {row}, row.accepted = asked[r].accepted, Commits(asked[r])
  PROVE  ProductsInv'
<1>1. \A q \in Requests : asked'[q] = IF q = r THEN Nothing ELSE asked[q]
  BY DEF Ended, AdminTypes
<1>2. \A q \in Requests : Took(asked'[q]) = IF q = r THEN {} ELSE Took(asked[q])
  BY <1>1 DEF Took, Commits, Nothing
<1>3. Took(asked[r]) = row.accepted \intersect Products
  BY DEF Took
<1>4. \A q \in Requests :
        Commits(asked'[q]) /\ asked'[q].draft.file.domain # "holidays" =>
          asked'[q].accepted \subseteq Products
  BY <1>1 DEF ProductsInv, Nothing, Commits
<1>5. /\ \A q \in Requests : Took(asked'[q]) \subseteq products
      /\ \A e \in imports' : e.accepted \intersect Products \subseteq products
  BY <1>2, <1>3 DEF ProductsInv
<1>6. ASSUME NEW p \in Products
      PROVE  /\ \A t, q \in Requests : p \in Took(asked'[t]) /\ p \in Took(asked'[q]) => t = q
             /\ \A t \in Requests, e \in imports' : ~ (p \in Took(asked'[t]) /\ p \in e.accepted)
             /\ \A e, f \in imports' : p \in e.accepted /\ p \in f.accepted => e = f
  <2>1. p \in row.accepted => p \in Took(asked[r])
    BY <1>3
  <2>2. p \in Took(asked[r]) =>
          /\ \A q \in Requests : p \in Took(asked[q]) => q = r
          /\ \A e \in imports : p \notin e.accepted
    BY DEF ProductsInv
  <2> QED
    BY <1>2, <2>1, <2>2 DEF ProductsInv
<1> QED
  BY <1>4, <1>5, <1>6 DEF ProductsInv, Commits, Took

\* Every step of an import counts a product once.
LEMMA ProductsNextImports ==
  ASSUME AdminTypes, ProductsInv, ImportRequests
  PROVE  ProductsInv'
<1>1. ASSUME NEW r \in Requests, NEW actor \in Users, NEW d \in drafts, NEW strict \in BOOLEAN,
             BeginCommit(r, actor, d, strict)
      PROVE  ProductsInv'
  <2> DEFINE c == [step |-> "rows", draft |-> d, strict |-> strict, next |-> 1, accepted |-> {},
                   read |-> {}, since |-> calendar.writes, wrote |-> 0]
  <2>1. Took(c) = {} /\ c.accepted = {}
    BY DEF Took
  <2>2. Became(r, c) /\ UNCHANGED <<products, imports>>
    BY <1>1 DEF BeginCommit, Became, Goto
  <2> QED
    BY <2>1, <2>2, ProductsBecame
<1>2. ASSUME NEW r \in Requests, NEW c, Became(r, c), UNCHANGED <<products, imports>>,
             c.draft = asked[r].draft, Commits(asked[r]),
             \/ c.accepted = asked[r].accepted
             \/ HasRow(r, "holidays") /\ c.accepted = asked[r].accepted \union {Row(r)}
      PROVE  ProductsInv'
  <2>1. HasRow(r, "holidays") => Row(r) \notin Products
    BY <1>2, RowTyped, AdministrationAssumption DEF Commits, At
  <2>2. Took(c) \subseteq Took(asked[r])
    BY <1>2, <2>1 DEF Took
  <2>3. c.draft.file.domain # "holidays" => c.accepted \subseteq Products
    BY <1>2 DEF HasRow, ProductsInv
  <2> QED
    BY <1>2, <2>2, <2>3, ProductsBecame
<1>3. ASSUME NEW r \in Requests, ReadCalendar(r) PROVE ProductsInv'
  <2>1. UNCHANGED <<products, imports>> /\ At(r, "rows") /\ HasRow(r, "holidays")
    BY <1>3 DEF ReadCalendar, importing
  <2>2. Commits(asked[r])
    BY <2>1 DEF Commits, At
  <2> QED
    BY <1>2, <1>3, <2>1, <2>2, ReadCalendarAsked, AcceptedTyped
<1>4. ASSUME NEW r \in Requests, WriteCalendar(r) PROVE ProductsInv'
  <2>1. UNCHANGED <<products, imports>> /\ Commits(asked[r])
    BY <1>4 DEF WriteCalendar, Commits, At
  <2> QED
    BY <1>2, <1>4, <2>1, WriteCalendarAsked
<1>5. ASSUME NEW r \in Requests, RowFails(r) PROVE ProductsInv'
  <2>1. /\ UNCHANGED <<products, imports>>
        /\ At(r, "rows") \/ At(r, "write")
        /\ Ended(r) \/ Became(r, [asked[r] EXCEPT !.step = "rows", !.next = @ + 1])
    BY <1>5, RowFailsAsked
  <2>2. Commits(asked[r])
    BY <2>1 DEF Commits, At
  <2> QED
    BY <1>2, <2>1, <2>2, PassedTyped, ProductsEnded
<1>6. ASSUME NEW r \in Requests, CreateProduct(r) PROVE ProductsInv'
  <2> DEFINE c == [asked[r] EXCEPT !.step = "rows", !.next = @ + 1]
  <2>1. /\ At(r, "rows") /\ HasRow(r, "loan-products") /\ UNCHANGED imports
        /\ Row(r) \notin products /\ products' = products \union {Row(r)}
        /\ Ended(r) \/ Became(r, Accepted(r)) \/ Became(r, c)
    BY <1>6, CreateProductAsked
  <2>2. Row(r) \in Products /\ Commits(asked[r])
    BY <2>1, RowTyped DEF Commits, At
  <2>3. asked[r].draft.file.domain # "holidays"
    BY <2>1 DEF HasRow
  <2>4. asked[r].accepted \subseteq Products
    BY <2>2, <2>3 DEF ProductsInv
  <2>5. CASE Ended(r)
    BY <2>1, <2>5, ProductsEnded
  <2>6. CASE Became(r, c)
    <3>1. c.accepted = asked[r].accepted
      BY <2>1, PassedTyped
    <3>2. Took(c) \subseteq Took(asked[r])
      BY <2>2, <3>1 DEF Took
    <3> HIDE DEF c
    <3> QED
      BY <2>1, <2>4, <2>6, <3>1, <3>2, ProductsBecame
  <2>7. CASE Became(r, Accepted(r))
    <3>1. /\ Accepted(r).accepted = asked[r].accepted \union {Row(r)}
          /\ Accepted(r).step = "rows"
      BY <2>1, AcceptedTyped
    <3>2. Took(Accepted(r)) = Took(asked[r]) \union {Row(r)}
      BY <2>2, <3>1 DEF Took, Commits
    <3>3. Accepted(r).accepted \subseteq Products
      BY <2>2, <2>4, <3>1
    <3> QED
      BY <2>1, <2>2, <2>7, <3>2, <3>3, ProductsAccepted
  <2> QED
    BY <2>1, <2>5, <2>6, <2>7
<1>7. ASSUME NEW r \in Requests, EndCommit(r) PROVE ProductsInv'
  <2> DEFINE row == [draft |-> asked[r].draft, request |-> r, accepted |-> asked[r].accepted]
  <2>1. /\ Ended(r) /\ UNCHANGED products /\ imports' = imports \union {row}
        /\ Commits(asked[r]) /\ row.accepted = asked[r].accepted
    BY <1>7 DEF EndCommit, Finished, Commits, At, End, Goto, Ended
  <2> HIDE DEF row
  <2> QED
    BY <2>1, ProductsReported
<1>8. ASSUME NEW r \in Requests, CommitTimesOut(r) PROVE ProductsInv'
  BY <1>8, ProductsEnded DEF CommitTimesOut, End, Goto, Ended, importing
<1>9. ASSUME UNCHANGED <<products, imports, asked>> PROVE ProductsInv'
  BY <1>9, ProductsKept DEF ProductsInv
<1> QED
  BY <1>1, <1>3, <1>4, <1>5, <1>6, <1>7, <1>8, <1>9
     DEF ImportRequests, SetHolidays, DryRun, EvictExpired

-----------------------------------------------------------------------------
(* The drafts. *)

LEMMA DraftsKept ==
  ASSUME AdminTypes, DraftsInv, UNCHANGED imports, drafts' \subseteq drafts,
         uploads' \in Nat, uploads <= uploads',
         \A q \in Requests : \/ asked'[q] = asked[q]
                             \/ ~ Commits(asked'[q])
                             \/ Commits(asked[q]) /\ asked'[q].draft = asked[q].draft
                             \/ asked'[q].draft \in drafts
  PROVE  DraftsInv'
<1>1. uploads \in Nat /\ \A d \in drafts : d.id \in Nat
  BY DEF AdminTypes, DraftRows
<1>2. \A q \in Requests : Commits(asked[q]) => asked[q].draft.id \in Nat
  BY HeldByStep DEF Commits, At, Importing, DraftRows
<1>3. \A e \in imports : e.draft.id \in Nat
  BY DEF AdminTypes, ImportRows, DraftRows
<1>4. /\ \A d \in drafts' : d.id <= uploads'
      /\ \A e \in imports : e.draft.id <= uploads' /\ e.draft \notin drafts'
  BY <1>1, <1>3 DEF DraftsInv
<1>5. ASSUME NEW q \in Requests, Commits(asked'[q]) PROVE asked'[q].draft.id <= uploads'
  <2>1. PICK d : /\ asked'[q].draft = d /\ d.id \in Nat
                 /\ d.id <= uploads
    BY <1>1, <1>2, <1>5 DEF DraftsInv
  <2> QED
    BY <1>1, <2>1
<1> QED
  BY <1>4, <1>5 DEF DraftsInv, Commits

\* A draft that was reported does not come back.
LEMMA DraftsNextImports ==
  ASSUME AdminTypes, DraftsInv, ImportRequests
  PROVE  DraftsInv'
<1>a. uploads \in Nat /\ uploads + 1 \in Nat /\ uploads <= uploads + 1 /\ uploads <= uploads
  BY DEF AdminTypes
<1>b. ASSUME UNCHANGED <<imports, drafts, uploads>>, NEW r \in Requests, Ended(r) PROVE DraftsInv'
  <2>1. \A q \in Requests : asked'[q] = asked[q] \/ ~ Commits(asked'[q])
    BY <1>b DEF Ended, AdminTypes, Nothing, Commits
  <2> QED
    BY <1>a, <1>b, <2>1, DraftsKept
<1>c. ASSUME UNCHANGED <<imports, drafts, uploads>>, NEW r \in Requests, NEW c, Became(r, c),
             Commits(asked[r]), c.draft = asked[r].draft
      PROVE  DraftsInv'
  <2>1. \A q \in Requests :
          asked'[q] = asked[q] \/ (Commits(asked[q]) /\ asked'[q].draft = asked[q].draft)
    BY <1>c DEF Became, AdminTypes
  <2> QED
    BY <1>a, <1>c, <2>1, DraftsKept
<1>1. ASSUME NEW actor \in Users, NEW days \in SUBSET Holidays, SetHolidays(actor, days)
      PROVE  DraftsInv'
  BY <1>1, <1>a, DraftsKept DEF SetHolidays
<1>2. ASSUME NEW actor \in Users, NEW file \in Files, DryRun(actor, file)
      PROVE  DraftsInv'
  <2> DEFINE d == [id |-> uploads + 1, owner |-> actor, file |-> file]
  <2>1. /\ drafts' = drafts \union {d} /\ d.id = uploads + 1
        /\ uploads' = uploads + 1 /\ UNCHANGED <<asked, imports>>
    BY <1>2 DEF DryRun
  <2> HIDE DEF d
  <2>2. /\ \A g \in drafts : g.id \in Nat
        /\ \A e \in imports : e.draft.id \in Nat
        /\ \A q \in Requests : Commits(asked[q]) => asked[q].draft.id \in Nat
    BY HeldByStep DEF AdminTypes, ImportRows, DraftRows, Commits, At, Importing
  <2>3. \A g \in drafts' : g.id <= uploads'
    BY <1>a, <2>1, <2>2 DEF DraftsInv
  <2>4. \A q \in Requests : Commits(asked[q]) => asked[q].draft.id <= uploads'
    BY <1>a, <2>1, <2>2 DEF DraftsInv
  <2>5. \A e \in imports : e.draft.id <= uploads' /\ e.draft \notin drafts'
    BY <1>a, <2>1, <2>2 DEF DraftsInv
  <2> QED
    BY <2>1, <2>3, <2>4, <2>5 DEF DraftsInv, Commits
<1>3. ASSUME NEW d \in drafts, EvictExpired(d) PROVE DraftsInv'
  BY <1>3, <1>a, DraftsKept DEF EvictExpired
<1>4. ASSUME NEW r \in Requests, NEW actor \in Users, NEW d \in drafts, NEW strict \in BOOLEAN,
             BeginCommit(r, actor, d, strict)
      PROVE  DraftsInv'
  <2> DEFINE c == [step |-> "rows", draft |-> d, strict |-> strict, next |-> 1, accepted |-> {},
                   read |-> {}, since |-> calendar.writes, wrote |-> 0]
  <2>1. /\ asked' = [asked EXCEPT ![r] = c] /\ c.draft = d
        /\ UNCHANGED <<imports, drafts>> /\ uploads' = uploads + 1
    BY <1>4 DEF BeginCommit, Goto
  <2> HIDE DEF c
  <2>2. \A q \in Requests : asked'[q] = asked[q] \/ asked'[q].draft \in drafts
    BY <2>1 DEF AdminTypes
  <2> QED
    BY <1>a, <2>1, <2>2, DraftsKept
<1>5. ASSUME NEW r \in Requests, ReadCalendar(r) PROVE DraftsInv'
  <2>1. UNCHANGED <<imports, drafts, uploads>> /\ At(r, "rows") /\ HasRow(r, "holidays")
    BY <1>5 DEF ReadCalendar, importing
  <2>2. Commits(asked[r])
    BY <2>1 DEF Commits, At
  <2> QED
    BY <1>5, <1>c, <2>1, <2>2, ReadCalendarAsked, AcceptedTyped
<1>6. ASSUME NEW r \in Requests, WriteCalendar(r) PROVE DraftsInv'
  <2>1. UNCHANGED <<imports, drafts, uploads>> /\ Commits(asked[r])
    BY <1>6 DEF WriteCalendar, Commits, At
  <2> QED
    BY <1>6, <1>c, <2>1, WriteCalendarAsked
<1>7. ASSUME NEW r \in Requests, RowFails(r) PROVE DraftsInv'
  <2>1. Commits(asked[r])
    BY <1>7, RowFailsAsked DEF Commits, At
  <2> QED
    BY <1>7, <1>b, <1>c, <2>1, RowFailsAsked, PassedTyped
<1>8. ASSUME NEW r \in Requests, CreateProduct(r) PROVE DraftsInv'
  <2>1. Commits(asked[r]) /\ UNCHANGED <<imports, drafts, uploads>>
    BY <1>8, CreateProductAsked DEF Commits, At, CreateProduct
  <2> QED
    BY <1>8, <1>b, <1>c, <2>1, CreateProductAsked, AcceptedTyped, PassedTyped
<1>9. ASSUME NEW r \in Requests, EndCommit(r) PROVE DraftsInv'
  <2> DEFINE d == asked[r].draft
             row == [draft |-> d, request |-> r, accepted |-> asked[r].accepted]
  <2>1. /\ drafts' = drafts \ {d} /\ imports' = imports \union {row} /\ row.draft = d
        /\ asked' = [asked EXCEPT ![r] = Nothing] /\ UNCHANGED uploads
        /\ Commits(asked[r])
    BY <1>9 DEF EndCommit, Finished, Commits, At, End, Goto
  <2>2. \A q \in Requests : asked'[q] = asked[q] \/ ~ Commits(asked'[q])
    BY <2>1 DEF AdminTypes, Nothing, Commits
  <2>3. d.id <= uploads
    BY <2>1 DEF DraftsInv
  <2> HIDE DEF d, row
  <2>4. /\ \A q \in Requests : Commits(asked'[q]) => asked'[q].draft.id <= uploads
        /\ \A e \in imports' : e.draft.id <= uploads /\ e.draft \notin drafts'
        /\ \A g \in drafts' : g.id <= uploads
    BY <2>1, <2>2, <2>3 DEF DraftsInv
  <2> QED
    BY <2>1, <2>4 DEF DraftsInv, Commits
<1>10. ASSUME NEW r \in Requests, CommitTimesOut(r) PROVE DraftsInv'
  BY <1>10, <1>b DEF CommitTimesOut, End, Goto, Ended, importing
<1> QED
  BY <1>1, <1>2, <1>3, <1>4, <1>5, <1>6, <1>7, <1>8, <1>9, <1>10 DEF ImportRequests

-----------------------------------------------------------------------------

\* The accounts and a restart take nothing on; the books are elsewhere.
LEMMA ImportsElsewhere ==
  ASSUME AdminTypes, AccountRequests
  PROVE  /\ UNCHANGED <<calendar, products, drafts, imports, uploads>>
         /\ \A q \in Requests : asked'[q] = asked[q] \/ ~ Commits(asked'[q])
<1>1. UNCHANGED <<calendar, products, drafts, imports, uploads>>
  BY DEF AccountRequests, CreateUser, ReadUser, CountSuperAdmins, WriteUser, importing
<1>2. ASSUME NEW r \in Requests, CountSuperAdmins(r)
      PROVE  \A q \in Requests : asked'[q] = asked[q] \/ ~ Commits(asked'[q])
  <2> DEFINE new == [asked[r] EXCEPT !.step = "update", !.counted = Cardinality(SuperAdmins)]
  <2>1. asked[r] \in Updating
    BY <1>2, HeldByStep DEF CountSuperAdmins
  <2>2. new.step = "update"
    BY <2>1 DEF Updating
  <2>3. \/ asked' = [asked EXCEPT ![r] = Nothing]
        \/ asked' = [asked EXCEPT ![r] = new]
    BY <1>2 DEF CountSuperAdmins, End, Goto
  <2> HIDE DEF new
  <2> QED
    BY <2>2, <2>3 DEF AdminTypes, Commits, Nothing
<1>3. ASSUME NEW r \in Requests, NEW actor \in Users, NEW u \in Users, NEW change \in Changes,
             NEW version \in {0, users[u].version}, ReadUser(r, actor, u, change, version)
      PROVE  \A q \in Requests : asked'[q] = asked[q] \/ ~ Commits(asked'[q])
  <2> DEFINE step == IF TakesSuperAdmin(users[u], change) THEN "count" ELSE "update"
             new == [step |-> step, user |-> u, row |-> users[u], change |-> change,
                     version |-> version, counted |-> 0]
  <2>1. asked' = [asked EXCEPT ![r] = new] /\ new.step \in {"count", "update"}
    BY <1>3 DEF ReadUser, Goto
  <2> HIDE DEF new
  <2> QED
    BY <2>1 DEF AdminTypes, Commits
<1>4. ASSUME NEW r \in Requests, WriteUser(r)
      PROVE  \A q \in Requests : asked'[q] = asked[q] \/ ~ Commits(asked'[q])
  BY <1>4 DEF WriteUser, End, Goto, AdminTypes, Commits, Nothing
<1> QED
  BY <1>1, <1>2, <1>3, <1>4 DEF AccountRequests, CreateUser

ImportsInv == CalendarInv /\ ProductsInv /\ DraftsInv

\* So every step of the office keeps what imports tell.
LEMMA ImportsNext == AdminTypes /\ ImportsInv /\ [OfficeNext]_officeVars => ImportsInv'
<1> SUFFICES ASSUME AdminTypes, ImportsInv, [OfficeNext]_officeVars PROVE ImportsInv'
  OBVIOUS
<1>1. ASSUME UNCHANGED <<calendar, products, imports, uploads>>, drafts' \subseteq drafts,
             \A q \in Requests : asked'[q] = asked[q] \/ ~ Commits(asked'[q])
      PROVE  ImportsInv'
  <2>1. CalendarInv'
    BY <1>1, CalendarKept DEF ImportsInv
  <2>2. \A q \in Requests :
          /\ Took(asked'[q]) \subseteq Took(asked[q])
          /\ Commits(asked'[q]) /\ asked'[q].draft.file.domain # "holidays" =>
               asked'[q].accepted \subseteq Products
    BY <1>1 DEF ImportsInv, ProductsInv, Took
  <2>3. ProductsInv'
    BY <1>1, <2>2, ProductsKept DEF ImportsInv
  <2>4. uploads \in Nat /\ uploads <= uploads
    BY DEF AdminTypes
  <2>5. DraftsInv'
    BY <1>1, <2>4, DraftsKept DEF ImportsInv
  <2> QED
    BY <2>1, <2>3, <2>5 DEF ImportsInv
<1>2. CASE UNCHANGED adminVars
  BY <1>1, <1>2 DEF adminVars
<1>3. CASE AdminRestart
  BY <1>1, <1>3 DEF AdminRestart, Commits, Nothing, accounts
<1>4. CASE AccountRequests
  BY <1>1, <1>4, ImportsElsewhere
<1>5. CASE ImportRequests
  BY <1>5, CalendarNextImports, ProductsNextImports, DraftsNextImports DEF ImportsInv
<1> QED
  BY <1>2, <1>3, <1>4, <1>5 DEF OfficeNext, AdminNext, officeVars

(* However many commits of however many files overlap, and wherever they fail,
   a commit counts as accepted only what took effect, no product is accepted
   twice, and a draft that was reported is gone (ImportService.commit,
   HolidayImporter, LoanProductImporter). *)
THEOREM ImportsTellWhatTheyDidAlways == OfficeSpec => []ImportsTellWhatTheyDid
<1>1. OfficeInit => ImportsInv
  BY InitImports DEF OfficeInit, ImportsInv
<1>2. AdminTypes /\ ImportsInv => ImportsTellWhatTheyDid
  BY ImportsImplied DEF ImportsInv
<1> QED
  BY <1>1, <1>2, AdminTyped, ImportsNext, PTL DEF OfficeSpec

-----------------------------------------------------------------------------
(* The tables the pages read. *)

LoanStates ==
  [status : Rep!Statuses, officer : Officers, dpd : Int, cached : Int, paid : 0 .. Parts,
   due : Int, disbursed : 0 .. MaxDay]
Receipts ==
  [loan : Lent, amount : {2, -2}, date : Int, posted : BOOLEAN, reversal : BOOLEAN, entry : Nat]
PostedLines == [account : Rep!Accounts, debit : Int, credit : Int]
Postings == [date : Int, source : Lent \cup Nat, lines : Seq(PostedLines)]

TablesTyped ==
  /\ today \in 1 .. MaxDay /\ night \in BOOLEAN
  /\ loans \in [Lent -> LoanStates]
  /\ collections \in Seq(Receipts)
  /\ entries \in Seq(Postings)

\* A payment, and a row that takes one back.
ReceiptsFit ==
  \A i \in DOMAIN collections :
    /\ collections[i].amount = IF collections[i].reversal THEN -2 ELSE 2
    /\ loans[collections[i].loan].status # "approved"
    /\ collections[i].entry \in DOMAIN entries
    /\ \A j \in DOMAIN collections : collections[i].entry = collections[j].entry => i = j

\* What is paid is what was collected and stands, and the rest is owed.
Standing(l) ==
  {i \in DOMAIN collections :
     collections[i].loan = l /\ collections[i].posted /\ ~collections[i].reversal}

PaymentsCount ==
  \A l \in Lent :
    /\ loans[l].paid = Cardinality(Standing(l))
    /\ loans[l].cached = IF loans[l].status = "approved" THEN 0
                         ELSE Rep!Payable - 2 * loans[l].paid

\* Every entry is balanced, and the entry of a payment carries its amount.
PostingsBalance ==
  /\ \A e \in DOMAIN entries :
       Rep!Debited(Rep!Accounts, entries[e].lines) = Rep!Credited(Rep!Accounts, entries[e].lines)
  /\ \A i \in DOMAIN collections :
       Rep!Debited(Rep!Accounts, entries[collections[i].entry].lines) = 2

TablesInv == TablesTyped /\ ReceiptsFit /\ PaymentsCount /\ PostingsBalance

-----------------------------------------------------------------------------
(* The dashboard. *)

\* What has been read of a viewer's figures is what the tables say now, but for
\* the loans that were written in the meantime.
CountedOf(entry, viewer, figure) ==
  \E A \in SUBSET Lent :
    /\ entry.values[figure] = Cardinality(A)
    /\ A \ entry.moved = Board!InStatus(viewer, {figure}) \ entry.moved

Fresh(entry, viewer) ==
  /\ entry \in [expires : Int, start : 0 .. clock, today : Int, values : {entry.values},
                moved : SUBSET Lent]
  /\ entry.values \in [DOMAIN entry.values -> Nat] /\ DOMAIN entry.values \subseteq Figures
  /\ entry.moved = {} =>
       /\ entry.today = today
       /\ \A f \in DOMAIN entry.values : entry.values[f] = Board!Value(viewer, today, f)
  /\ \A f \in DOMAIN entry.values \cap {"active", "overdue"} : CountedOf(entry, viewer, f)

Asking(q) ==
  /\ q \in [phase : {"reading", "answered"}, viewer : Watchers, hit : BOOLEAN, entry : {q.entry}]
  /\ Fresh(q.entry, q.viewer)
  /\ q.phase = "answered" => DOMAIN q.entry.values = Figures

BoardInv ==
  /\ TablesInv
  /\ clock \in 1 .. MaxClock
  /\ DOMAIN cache = Watchers
  /\ \A v \in Watchers : cache[v] # Board!Nothing =>
       Fresh(cache[v], v) /\ DOMAIN cache[v].values = Figures
  /\ \A v \in Watchers : cache[v].expires <= cache[v].start + Ttl
  /\ DOMAIN req = Refreshes
  /\ \A r \in Refreshes : req[r] = Board!Idle \/ Asking(req[r])

-----------------------------------------------------------------------------
\* The operators of the community modules are the same in every instance.
LEMMA BoardFinite == \A S : Board!IsFiniteSet(S) <=> IsFiniteSet(S)
  BY DEF Board!IsFiniteSet, IsFiniteSet
\* Cardinality in the dashboard.
LEMMA BoardSize == \A S : Board!Cardinality(S) = Cardinality(S)
  BY BoardFinite DEF Board!Cardinality, Cardinality
\* The same in the reports.
LEMMA RepFinite == \A S : Rep!IsFiniteSet(S) <=> IsFiniteSet(S)
  BY DEF Rep!IsFiniteSet, IsFiniteSet
\* Cardinality in the reports.
LEMMA RepSize == \A S : Rep!Cardinality(S) = Cardinality(S)
  BY RepFinite DEF Rep!Cardinality, Cardinality
\* The total of numbers in the reports.
LEMMA RepTotal == \A n, f : Rep!Total(n, f) = Total(n, f)
  BY DEF Rep!Total, Rep!RunningTotal, Total, RunningTotal
\* and in the dashboard.
LEMMA BoardTotal == \A n, f : Board!Total(n, f) = Total(n, f)
  BY DEF Board!Total, Board!RunningTotal, Total, RunningTotal

\* The dashboard has the writers of the reports beside it.
LEMMA SameWriters ==
  /\ Board!Write <=> Rep!Write
  /\ Board!Tick <=> Rep!Tick
  BY DEF Board!Write, Rep!Write, Board!Tick, Rep!Tick, Board!Disburse, Rep!Disburse, Board!Collect, Rep!Collect,
    Board!Reassign, Rep!Reassign, Board!ReverseCollection, Rep!ReverseCollection, Board!Spend, Rep!Spend,
    Board!Post, Rep!Post, Board!Midnight, Rep!Midnight, Board!Debit, Rep!Debit, Board!Credit, Rep!Credit, Board!Mirror, Rep!Mirror,
    Board!Payable, Rep!Payable, Board!PastDue, Rep!PastDue, Board!Dpd, Rep!Dpd, Board!StatusAfterPayment, Rep!StatusAfterPayment,
    Board!Live, Rep!Live, Board!UtcDay, Rep!UtcDay, Board!tables, Rep!tables

\* The sum of numbers over a set of rows is a number.
LEMMA SumOfType ==
  ASSUME NEW rows, IsFiniteSet(rows), NEW f, \A r \in rows : f[r] \in Nat
  PROVE  Board!SumOf(f, rows) \in Nat
<1>1. PICK n \in Nat : n = Cardinality(rows)
  BY FS_CardinalityType
<1>2. \E s \in [1..n -> rows] : Board!IsInjective(s)
  <2>1. PICK m \in Nat : ExistsBijection(1..m, rows)
    BY FS_NatBijection
  <2>2. m = n
    BY <1>1, <2>1, FS_CountingElements
  <2>3. PICK s : s \in Bijection(1..n, rows)
    BY <2>1, <2>2 DEF ExistsBijection
  <2>4. s \in [1..n -> rows] /\ Board!IsInjective(s)
    BY <2>3 DEF Bijection, Injection, IsInjective, Board!IsInjective
  <2> QED
    BY <2>4
<1>3. PICK list : list = Board!SetToSeq(rows)
  OBVIOUS
<1>4. list \in [1..n -> rows]
  BY <1>1, <1>2, <1>3, BoardSize DEF Board!SetToSeq
<1>5. [i \in 1..n |-> f[list[i]]] \in [1..n -> Nat]
  BY <1>4
<1>6. Board!SumOf(f, rows) = Total(n, [i \in 1..n |-> f[list[i]]])
  BY <1>1, <1>3, BoardSize, BoardTotal DEF Board!SumOf
<1> QED
  BY <1>5, <1>6, TotalNonNegative

\* What two or three lines debit and credit.
LEMMA TwoLines ==
  ASSUME NEW a \in PostedLines, NEW b \in PostedLines
  PROVE  /\ Rep!Debited(Rep!Accounts, <<a, b>>) = a.debit + b.debit
         /\ Rep!Credited(Rep!Accounts, <<a, b>>) = a.credit + b.credit
<1>1. \A x, y \in Int : Total(2, <<x, y>>) = x + y
  <2> TAKE x, y \in Int
  <2> DEFINE f == <<x, y>>  s == [k \in 0..2 |-> IF k = 0 THEN 0 ELSE IF k = 1 THEN x ELSE x + y]
  <2>1. f \in [1..2 -> Int]
    OBVIOUS
  <2>2. s[0] = 0 /\ s[2] = x + y /\ \A k \in 1..2 : s[k] = s[k - 1] + f[k]
    OBVIOUS
  <2> HIDE DEF s, f
  <2>3. Total(2, f) = s[2]
    BY <2>1, <2>2, TotalIs
  <2> QED
    BY <2>2, <2>3 DEF f
<1>2. Len(<<a, b>>) = 2 /\ DOMAIN <<a, b>> = 1..2
  OBVIOUS
<1>3. [i \in 1..2 |-> IF <<a, b>>[i].account \in Rep!Accounts THEN <<a, b>>[i].debit ELSE 0]
        = <<a.debit, b.debit>>
  BY DEF PostedLines
<1>4. [i \in 1..2 |-> IF <<a, b>>[i].account \in Rep!Accounts THEN <<a, b>>[i].credit ELSE 0]
        = <<a.credit, b.credit>>
  BY DEF PostedLines
<1> QED
  BY <1>1, <1>2, <1>3, <1>4, RepTotal DEF PostedLines, Rep!Debited, Rep!Credited

\* Three lines add up to what is on them.
LEMMA ThreeLines ==
  ASSUME NEW a \in PostedLines, NEW b \in PostedLines, NEW c \in PostedLines
  PROVE  /\ Rep!Debited(Rep!Accounts, <<a, b, c>>) = a.debit + b.debit + c.debit
         /\ Rep!Credited(Rep!Accounts, <<a, b, c>>) = a.credit + b.credit + c.credit
<1>1. \A x, y, z \in Int : Total(3, <<x, y, z>>) = x + y + z
  <2> TAKE x, y, z \in Int
  <2> DEFINE f == <<x, y, z>>
             s == [k \in 0..3 |-> IF k = 0 THEN 0 ELSE IF k = 1 THEN x
                                  ELSE IF k = 2 THEN x + y ELSE x + y + z]
  <2>1. f \in [1..3 -> Int]
    OBVIOUS
  <2>2. s[0] = 0 /\ s[3] = x + y + z /\ \A k \in 1..3 : s[k] = s[k - 1] + f[k]
    OBVIOUS
  <2> HIDE DEF s, f
  <2>3. Total(3, f) = s[3]
    BY <2>1, <2>2, TotalIs
  <2> QED
    BY <2>2, <2>3 DEF f
<1>2. Len(<<a, b, c>>) = 3 /\ DOMAIN <<a, b, c>> = 1..3
  OBVIOUS
<1>3. [i \in 1..3 |-> IF <<a, b, c>>[i].account \in Rep!Accounts THEN <<a, b, c>>[i].debit ELSE 0]
        = <<a.debit, b.debit, c.debit>>
  BY DEF PostedLines
<1>4. [i \in 1..3 |-> IF <<a, b, c>>[i].account \in Rep!Accounts THEN <<a, b, c>>[i].credit ELSE 0]
        = <<a.credit, b.credit, c.credit>>
  BY DEF PostedLines
<1> QED
  BY <1>1, <1>2, <1>3, <1>4, RepTotal DEF PostedLines, Rep!Debited, Rep!Credited

\* A mirrored entry debits what the entry credits.
LEMMA MirrorSwaps ==
  ASSUME NEW lines \in Seq(PostedLines)
  PROVE  /\ Rep!Mirror(lines) \in Seq(PostedLines)
         /\ Rep!Debited(Rep!Accounts, Rep!Mirror(lines)) = Rep!Credited(Rep!Accounts, lines)
         /\ Rep!Credited(Rep!Accounts, Rep!Mirror(lines)) = Rep!Debited(Rep!Accounts, lines)
<1>1. PICK n \in Nat : n = Len(lines) /\ DOMAIN lines = 1..n
  OBVIOUS
<1>2. PICK m : m = Rep!Mirror(lines)
  OBVIOUS
<1>3. \A i \in 1..n : lines[i] \in PostedLines
  BY <1>1
<1>4. m = [i \in 1..n |-> [lines[i] EXCEPT !.debit = lines[i].credit, !.credit = lines[i].debit]]
  BY <1>1, <1>2 DEF Rep!Mirror
<1>5. \A i \in 1..n : /\ m[i] \in PostedLines /\ m[i].account = lines[i].account
                      /\ m[i].debit = lines[i].credit /\ m[i].credit = lines[i].debit
  <2> SUFFICES ASSUME NEW i \in 1..n
               PROVE  /\ m[i] \in PostedLines /\ m[i].account = lines[i].account
                      /\ m[i].debit = lines[i].credit /\ m[i].credit = lines[i].debit
    OBVIOUS
  <2>1. PICK x : x = lines[i]
    OBVIOUS
  <2>2. x \in PostedLines /\ m[i] = [x EXCEPT !.debit = x.credit, !.credit = x.debit]
    BY <1>3, <1>4, <2>1
  <2> QED
    BY <2>1, <2>2 DEF PostedLines
<1>6. m \in Seq(PostedLines) /\ Len(m) = n /\ DOMAIN m = 1..n
  <2>1. m \in [1..n -> PostedLines]
    BY <1>4, <1>5
  <2> QED
    BY <2>1
<1>7. /\ [i \in 1..n |-> IF m[i].account \in Rep!Accounts THEN m[i].debit ELSE 0]
           = [i \in 1..n |-> IF lines[i].account \in Rep!Accounts THEN lines[i].credit ELSE 0]
      /\ [i \in 1..n |-> IF m[i].account \in Rep!Accounts THEN m[i].credit ELSE 0]
           = [i \in 1..n |-> IF lines[i].account \in Rep!Accounts THEN lines[i].debit ELSE 0]
  BY <1>5
<1> QED
  BY <1>1, <1>2, <1>6, <1>7 DEF Rep!Debited, Rep!Credited

\* The loans are finitely many, and parts and days are counted in numbers.
LEMMA LoansFinite ==
  /\ IsFiniteSet(Lent) /\ Parts \in Nat /\ Parts > 0 /\ DueIn \in Nat /\ MaxDay \in Nat /\ MaxDay > 0
BY BackOfficeAssumption, RepFinite DEF Rep!PortfolioAssumption

\* The payments of a loan that stand are finitely many.
LEMMA StandingFinite ==
  ASSUME collections \in Seq(Receipts), NEW l \in Lent
  PROVE  IsFiniteSet(Standing(l)) /\ Cardinality(Standing(l)) \in Nat
<1>1. PICK n \in Nat : DOMAIN collections = 1..n
  OBVIOUS
<1>2. IsFiniteSet(1..n) /\ Standing(l) \in SUBSET (1..n)
  BY <1>1, FS_Interval DEF Standing
<1> QED
  BY <1>2, FS_Subset, FS_CardinalityType

\* At the start nobody has paid anything and nothing is posted.
LEMMA TablesStart == Rep!Init => TablesInv
<1> SUFFICES ASSUME Rep!Init PROVE TablesInv
  OBVIOUS
<1>1. /\ today = 1 /\ night = FALSE /\ collections = <<>> /\ entries = <<>>
      /\ loans \in [Lent -> [status : {"approved"}, officer : Officers, dpd : {0},
                          cached : {0}, paid : {0}, due : {0}, disbursed : {0}]]
  BY DEF Rep!Init
<1>2. \A l \in Lent : /\ loans[l] \in LoanStates /\ loans[l].paid = 0 /\ loans[l].cached = 0
                      /\ loans[l].status = "approved"
  <2> SUFFICES ASSUME NEW l \in Lent
               PROVE  /\ loans[l] \in LoanStates /\ loans[l].paid = 0 /\ loans[l].cached = 0
                      /\ loans[l].status = "approved"
    OBVIOUS
  <2>1. PICK x : x = loans[l]
    OBVIOUS
  <2>2. x \in [status : {"approved"}, officer : Officers, dpd : {0},
               cached : {0}, paid : {0}, due : {0}, disbursed : {0}]
    BY <1>1, <2>1
  <2>3. 0 \in 0..Parts /\ 0 \in 0..MaxDay
    BY LoansFinite
  <2>4. PICK o \in Officers :
          x = [status |-> "approved", officer |-> o, dpd |-> 0, cached |-> 0, paid |-> 0,
               due |-> 0, disbursed |-> 0]
    BY <2>2
  <2>5. "approved" \in Rep!Statuses
    BY DEF Rep!Statuses
  <2>6. x \in [status : Rep!Statuses, officer : Officers, dpd : Int, cached : Int,
                paid : 0 .. Parts, due : Int, disbursed : 0 .. MaxDay]
    BY <2>3, <2>4, <2>5
  <2>7. x.paid = 0 /\ x.cached = 0 /\ x.status = "approved"
    BY <2>4
  <2> QED
    BY <2>1, <2>6, <2>7 DEF LoanStates
<1>3. TablesTyped
  <2>1. loans \in [Lent -> LoanStates]
    BY <1>1, <1>2
  <2>2. 1 \in 1..MaxDay /\ <<>> \in Seq(Receipts) /\ <<>> \in Seq(Postings)
    BY LoansFinite
  <2> QED
    BY <1>1, <2>1, <2>2 DEF TablesTyped
<1>4. \A l \in Lent : Standing(l) = {}
  BY <1>1 DEF Standing
<1>5. PaymentsCount
  BY <1>2, <1>4, FS_EmptySet DEF PaymentsCount
<1> QED
  BY <1>1, <1>3, <1>5 DEF TablesInv, ReceiptsFit, PostingsBalance

\* An entry that balances joins the others.
LEMMA EntryPosted ==
  ASSUME TablesInv, NEW date \in Int, NEW source \in Lent \cup Nat, NEW lines \in Seq(PostedLines),
         Rep!Post(date, source, lines),
         Rep!Debited(Rep!Accounts, lines) = Rep!Credited(Rep!Accounts, lines)
  PROVE  /\ Len(entries) \in Nat /\ entries' \in Seq(Postings)
         /\ DOMAIN entries = 1..Len(entries) /\ DOMAIN entries' = 1..(Len(entries) + 1)
         /\ \A e \in 1..Len(entries) : entries'[e] = entries[e]
         /\ entries'[Len(entries) + 1].lines = lines
         /\ \A e \in DOMAIN entries' :
              Rep!Debited(Rep!Accounts, entries'[e].lines)
                = Rep!Credited(Rep!Accounts, entries'[e].lines)
<1>1. entries \in Seq(Postings)
  BY DEF TablesInv, TablesTyped
<1>2. PICK row : row = [date |-> Rep!Midnight(date), source |-> source, lines |-> lines]
  OBVIOUS
<1>3. row \in Postings /\ row.lines = lines
  BY <1>2 DEF Postings, Rep!Midnight
<1>4. entries' = Append(entries, row)
  BY <1>2 DEF Rep!Post
<1>5. PICK n \in Nat : n = Len(entries) /\ DOMAIN entries = 1..n
  BY <1>1
<1>6. /\ entries' \in Seq(Postings) /\ DOMAIN entries' = 1..(n + 1)
      /\ \A e \in 1..n : entries'[e] = entries[e]
      /\ entries'[n + 1] = row
  BY <1>1, <1>3, <1>4, <1>5
<1>7. \A e \in 1..n : Rep!Debited(Rep!Accounts, entries[e].lines)
                        = Rep!Credited(Rep!Accounts, entries[e].lines)
  BY <1>5 DEF TablesInv, PostingsBalance
<1> QED
  BY <1>3, <1>5, <1>6, <1>7

\* A collection is of a loan.
LEMMA ReceiptType ==
  ASSUME TablesInv, NEW i \in DOMAIN collections
  PROVE  /\ collections[i] \in Receipts /\ collections[i].loan \in Lent
         /\ collections[i].entry \in Nat /\ collections[i].amount \in Int
<1>1. collections[i] \in Receipts
  <2>1. collections \in Seq(Receipts)
    BY DEF TablesInv, TablesTyped
  <2> QED
    BY <2>1
<1> QED
  BY <1>1 DEF Receipts

\* One loan changes.
LEMMA LoanWritten ==
  ASSUME TablesInv, NEW l \in Lent, NEW y \in LoanStates, loans' = [loans EXCEPT ![l] = y]
  PROVE  /\ loans' \in [Lent -> LoanStates] /\ loans'[l] = y
         /\ \A m \in Lent \ {l} : loans'[m] = loans[m]
BY DEF TablesInv, TablesTyped

\* A disbursement posts a balanced entry and makes a loan that was approved owe
\* all of it; no payment is of a loan that was not disbursed.
LEMMA DisburseKeepsTables ==
  ASSUME TablesInv, NEW l \in Lent, Rep!Disburse(l)
  PROVE  TablesInv'
<1>1. PICK x \in LoanStates : x = loans[l]
  BY DEF TablesInv, TablesTyped
<1>2. PICK d \in 1..MaxDay : d = today
  BY DEF TablesInv, TablesTyped
<1>3. PICK y : y = [x EXCEPT !.status = "active", !.cached = Rep!Payable, !.due = d + DueIn,
                             !.disbursed = d]
  OBVIOUS
<1>4. /\ x.status = "approved" /\ loans' = [loans EXCEPT ![l] = y]
      /\ Rep!Post(d, l, <<Rep!Debit("receivable", Parts), Rep!Credit("cash", Parts)>>)
      /\ UNCHANGED <<today, night, collections>>
  <2>1. [loans[l] EXCEPT !.status = "active", !.cached = Rep!Payable, !.due = today + DueIn,
                             !.disbursed = today] = y
    BY <1>1, <1>2, <1>3
  <2> QED
    BY <1>1, <1>2, <2>1 DEF Rep!Disburse
<1>5. y \in LoanStates /\ y.status = "active" /\ y.cached = 2 * Parts /\ y.paid = x.paid
  <2>1. d + DueIn \in Int /\ d \in 0..MaxDay /\ 2 * Parts \in Int /\ "active" \in Rep!Statuses
    BY LoansFinite DEF Rep!Statuses
  <2> QED
    BY <1>3, <2>1 DEF LoanStates, Rep!Payable
<1>6. /\ loans' \in [Lent -> LoanStates] /\ loans'[l] = y
      /\ \A m \in Lent \ {l} : loans'[m] = loans[m]
  BY <1>4, <1>5, LoanWritten
<1>7. PICK a, b : a = Rep!Debit("receivable", Parts) /\ b = Rep!Credit("cash", Parts)
  OBVIOUS
<1>8. /\ a \in PostedLines /\ b \in PostedLines
      /\ a.debit = Parts /\ a.credit = 0 /\ b.debit = 0 /\ b.credit = Parts
  BY <1>7, LoansFinite DEF PostedLines, Rep!Debit, Rep!Credit, Rep!Accounts
<1>9. PICK lines : lines = <<a, b>>
  OBVIOUS
<1>10. /\ lines \in Seq(PostedLines)
       /\ Rep!Debited(Rep!Accounts, lines) = Rep!Credited(Rep!Accounts, lines)
  BY <1>8, <1>9, TwoLines, LoansFinite
<1>11. Rep!Post(d, l, lines) /\ d \in Int
  BY <1>2, <1>4, <1>7, <1>9
<1>12. /\ Len(entries) \in Nat /\ entries' \in Seq(Postings)
       /\ DOMAIN entries = 1..Len(entries) /\ DOMAIN entries' = 1..(Len(entries) + 1)
       /\ \A e \in 1..Len(entries) : entries'[e] = entries[e]
       /\ \A e \in DOMAIN entries' :
            Rep!Debited(Rep!Accounts, entries'[e].lines)
              = Rep!Credited(Rep!Accounts, entries'[e].lines)
  BY <1>10, <1>11, EntryPosted
<1>13. TablesTyped'
  BY <1>4, <1>6, <1>12 DEF TablesInv, TablesTyped
<1>14. ReceiptsFit'
  <2>1. \A i \in DOMAIN collections :
          collections[i].loan \in Lent /\ loans'[collections[i].loan].status # "approved"
    <3> SUFFICES ASSUME NEW i \in DOMAIN collections
                 PROVE  collections[i].loan \in Lent /\ loans'[collections[i].loan].status # "approved"
      OBVIOUS
    <3>1. collections[i].loan \in Lent
      BY ReceiptType
    <3>2. loans[collections[i].loan].status # "approved"
      BY DEF TablesInv, ReceiptsFit
    <3> QED
      BY <1>5, <1>6, <3>1, <3>2
  <2> QED
    BY <1>4, <1>12, <2>1 DEF TablesInv, ReceiptsFit
<1>15. PaymentsCount'
  <2>1. \A m \in Lent : Standing(m)' = Standing(m)
    BY <1>4 DEF Standing
  <2>2. Standing(l) = {}
    BY <1>1, <1>4 DEF TablesInv, ReceiptsFit, Standing
  <2>3. x.paid = 0
    BY <1>1, <2>2, FS_EmptySet DEF TablesInv, PaymentsCount
  <2> QED
    BY <1>1, <1>5, <1>6, <2>1, <2>3, LoansFinite DEF TablesInv, PaymentsCount, Rep!Payable
<1>16. PostingsBalance'
  BY <1>4, <1>12 DEF TablesInv, PostingsBalance, ReceiptsFit
<1> QED
  BY <1>13, <1>14, <1>15, <1>16 DEF TablesInv

\* An expense posts a balanced entry and touches no loan.
LEMMA SpendKeepsTables ==
  ASSUME TablesInv, Rep!Spend
  PROVE  TablesInv'
<1>2. PICK d \in 1..MaxDay : d = today
  BY DEF TablesInv, TablesTyped
<1>4. /\ Rep!Post(d, 0, <<Rep!Debit("rent", 1), Rep!Credit("cash", 1)>>)
      /\ UNCHANGED <<today, night, loans, collections>>
  BY <1>2 DEF Rep!Spend
<1>7. PICK a, b : a = Rep!Debit("rent", 1) /\ b = Rep!Credit("cash", 1)
  OBVIOUS
<1>8. /\ a \in PostedLines /\ b \in PostedLines
      /\ a.debit = 1 /\ a.credit = 0 /\ b.debit = 0 /\ b.credit = 1
  BY <1>7 DEF PostedLines, Rep!Debit, Rep!Credit, Rep!Accounts
<1>9. PICK lines : lines = <<a, b>>
  OBVIOUS
<1>10. /\ lines \in Seq(PostedLines)
       /\ Rep!Debited(Rep!Accounts, lines) = Rep!Credited(Rep!Accounts, lines)
  BY <1>8, <1>9, TwoLines
<1>11. Rep!Post(d, 0, lines) /\ d \in Int
  BY <1>2, <1>4, <1>7, <1>9
<1>12. /\ Len(entries) \in Nat /\ entries' \in Seq(Postings)
       /\ DOMAIN entries = 1..Len(entries) /\ DOMAIN entries' = 1..(Len(entries) + 1)
       /\ \A e \in 1..Len(entries) : entries'[e] = entries[e]
       /\ \A e \in DOMAIN entries' :
            Rep!Debited(Rep!Accounts, entries'[e].lines)
              = Rep!Credited(Rep!Accounts, entries'[e].lines)
  BY <1>10, <1>11, EntryPosted
<1>13. TablesTyped'
  BY <1>4, <1>12 DEF TablesInv, TablesTyped
<1>14. ReceiptsFit'
  BY <1>4, <1>12 DEF TablesInv, ReceiptsFit
<1>15. PaymentsCount'
  BY <1>4 DEF TablesInv, PaymentsCount, Standing
<1>16. PostingsBalance'
  BY <1>4, <1>12 DEF TablesInv, PostingsBalance, ReceiptsFit
<1> QED
  BY <1>13, <1>14, <1>15, <1>16 DEF TablesInv

\* An edit of a customer changes nothing but the officer.
LEMMA ReassignKeepsTables ==
  ASSUME TablesInv, NEW l \in Lent, NEW o \in Officers, Rep!Reassign(l, o)
  PROVE  TablesInv'
<1>1. PICK x \in LoanStates : x = loans[l]
  BY DEF TablesInv, TablesTyped
<1>3. PICK y : y = [x EXCEPT !.officer = o]
  OBVIOUS
<1>4. loans' = [loans EXCEPT ![l] = y] /\ UNCHANGED <<today, night, collections, entries>>
  BY <1>1, <1>3 DEF Rep!Reassign
<1>5. /\ y \in LoanStates /\ y.status = x.status /\ y.cached = x.cached /\ y.paid = x.paid
  BY <1>3 DEF LoanStates
<1>6. /\ loans' \in [Lent -> LoanStates] /\ loans'[l] = y
      /\ \A m \in Lent \ {l} : loans'[m] = loans[m]
  BY <1>4, <1>5, LoanWritten
<1>7. \A m \in Lent : /\ loans'[m].status = loans[m].status /\ loans'[m].cached = loans[m].cached
                      /\ loans'[m].paid = loans[m].paid
  BY <1>1, <1>5, <1>6
<1>13. TablesTyped'
  BY <1>4, <1>6 DEF TablesInv, TablesTyped
<1>14. ReceiptsFit'
  <2>1. \A i \in DOMAIN collections : collections[i].loan \in Lent
    BY ReceiptType
  <2> QED
    BY <1>4, <1>7, <2>1 DEF TablesInv, ReceiptsFit
<1>15. PaymentsCount'
  <2>1. \A m \in Lent : Standing(m)' = Standing(m)
    BY <1>4 DEF Standing
  <2> QED
    BY <1>7, <2>1 DEF TablesInv, PaymentsCount
<1>16. PostingsBalance'
  BY <1>4 DEF TablesInv, PostingsBalance
<1> QED
  BY <1>13, <1>14, <1>15, <1>16 DEF TablesInv

\* A new day changes no table.
LEMMA TickKeepsTables ==
  ASSUME TablesInv, Rep!Tick
  PROVE  TablesInv'
<1>1. today' \in 1..MaxDay /\ night' \in BOOLEAN
  <2>1. today \in 1..MaxDay /\ night \in BOOLEAN
    BY DEF TablesInv, TablesTyped
  <2>2. CASE night /\ night' = FALSE /\ today' = today
    BY <2>1, <2>2
  <2>3. CASE ~night /\ today < MaxDay /\ night' = TRUE /\ today' = today + 1
    BY <2>1, <2>3, LoansFinite
  <2> QED
    BY <2>2, <2>3 DEF Rep!Tick
<1>2. UNCHANGED <<loans, collections, entries>>
  BY DEF Rep!Tick
<1> QED
  BY <1>1, <1>2 DEF TablesInv, TablesTyped, ReceiptsFit, PaymentsCount, Standing, PostingsBalance

\* A payment is a row and a balanced entry of its own, and one more that stands.
LEMMA CollectKeepsTables ==
  ASSUME TablesInv, NEW l \in Lent, Rep!Collect(l)
  PROVE  TablesInv'
<1>1. PICK x \in LoanStates : x = loans[l]
  BY DEF TablesInv, TablesTyped
<1>2. PICK d \in 1..MaxDay : d = today
  BY DEF TablesInv, TablesTyped
<1>3. PICK p \in 1..Parts, s \in Rep!Statuses, late \in Int :
        /\ p = x.paid + 1 /\ s = Rep!StatusAfterPayment(l, p) /\ late = Rep!Dpd(l, p)
        /\ s # "approved"
  <2>1. x.paid \in 0..Parts /\ x.due \in Int /\ x.paid + 1 <= Parts
    BY <1>1 DEF LoanStates, Rep!Collect
  <2>2. x.paid + 1 \in 1..Parts
    BY <2>1, LoansFinite
  <2>3. /\ Rep!StatusAfterPayment(l, x.paid + 1) \in Rep!Statuses
        /\ Rep!StatusAfterPayment(l, x.paid + 1) # "approved"
    BY DEF Rep!StatusAfterPayment, Rep!Statuses
  <2>4. Rep!Dpd(l, x.paid + 1) \in Int
    BY <1>1, <1>2, <2>1 DEF Rep!Dpd
  <2> QED
    BY <2>2, <2>3, <2>4
<1>4. PICK y : y = [x EXCEPT !.status = s, !.cached = x.cached - 2, !.paid = p, !.dpd = late]
  OBVIOUS
<1>5. PICK n \in Nat, k \in Nat : /\ n = Len(collections) /\ DOMAIN collections = 1..n
                                  /\ k = Len(entries) /\ DOMAIN entries = 1..k
  BY DEF TablesInv, TablesTyped
<1>6. PICK row : row = [loan |-> l, amount |-> 2, date |-> d, posted |-> TRUE, reversal |-> FALSE,
                        entry |-> k + 1]
  OBVIOUS
<1>7. /\ x.status \in Rep!Live /\ loans' = [loans EXCEPT ![l] = y]
      /\ Rep!Post(d, l, <<Rep!Debit("cash", 2), Rep!Credit("receivable", 1), Rep!Credit("interest", 1)>>)
      /\ collections' = Append(collections, row)
      /\ UNCHANGED <<today, night>>
  <2>1. PICK z : z = [loans[l] EXCEPT
                       !.status = Rep!StatusAfterPayment(l, loans[l].paid + 1),
                       !.cached = loans[l].cached - 2,
                       !.paid = loans[l].paid + 1, !.dpd = Rep!Dpd(l, loans[l].paid + 1)]
    OBVIOUS
  <2>2. /\ x.status \in Rep!Live
        /\ Rep!Post(today, l, <<Rep!Debit("cash", 2), Rep!Credit("receivable", 1),
                              Rep!Credit("interest", 1)>>)
        /\ collections' = Append(collections, [loan |-> l, amount |-> 2, date |-> today,
              posted |-> TRUE, reversal |-> FALSE, entry |-> Len(entries) + 1])
        /\ UNCHANGED <<today, night>>
    BY <1>1 DEF Rep!Collect
  <2>3. loans' = [loans EXCEPT ![l] = z]
    BY <2>1 DEF Rep!Collect
  <2>4. z = y
    <3>1. loans[l].paid + 1 = p
      BY <1>1, <1>3
    <3>2. z = [loans[l] EXCEPT !.status = Rep!StatusAfterPayment(l, p),
                 !.cached = loans[l].cached - 2, !.paid = p, !.dpd = Rep!Dpd(l, p)]
      BY <2>1, <3>1
    <3> QED
      BY <1>1, <1>3, <1>4, <3>2
  <2> QED
    BY <1>2, <1>5, <1>6, <2>2, <2>3, <2>4
<1>8. y \in LoanStates /\ y.status = s /\ y.cached = x.cached - 2 /\ y.paid = p
  <2>1. x.cached - 2 \in Int /\ p \in 0..Parts
    BY <1>1, LoansFinite DEF LoanStates
  <2> QED
    BY <1>4, <2>1 DEF LoanStates
<1>9. /\ loans' \in [Lent -> LoanStates] /\ loans'[l] = y
      /\ \A m \in Lent \ {l} : loans'[m] = loans[m]
  BY <1>7, <1>8, LoanWritten
<1>10. PICK a, b, c : /\ a = Rep!Debit("cash", 2) /\ b = Rep!Credit("receivable", 1)
                      /\ c = Rep!Credit("interest", 1)
  OBVIOUS
<1>11. /\ a \in PostedLines /\ b \in PostedLines /\ c \in PostedLines
       /\ a.debit = 2 /\ a.credit = 0 /\ b.debit = 0 /\ b.credit = 1 /\ c.debit = 0 /\ c.credit = 1
  BY <1>10 DEF PostedLines, Rep!Debit, Rep!Credit, Rep!Accounts
<1>12. PICK lines : lines = <<a, b, c>>
  OBVIOUS
<1>13. /\ lines \in Seq(PostedLines)
       /\ Rep!Debited(Rep!Accounts, lines) = 2
       /\ Rep!Debited(Rep!Accounts, lines) = Rep!Credited(Rep!Accounts, lines)
  BY <1>11, <1>12, ThreeLines
<1>14. Rep!Post(d, l, lines) /\ d \in Int
  BY <1>2, <1>7, <1>10, <1>12
<1>15. /\ entries' \in Seq(Postings) /\ DOMAIN entries' = 1..(k + 1)
       /\ \A e \in 1..k : entries'[e] = entries[e]
       /\ entries'[k + 1].lines = lines
       /\ \A e \in DOMAIN entries' :
            Rep!Debited(Rep!Accounts, entries'[e].lines)
              = Rep!Credited(Rep!Accounts, entries'[e].lines)
  BY <1>5, <1>13, <1>14, EntryPosted
<1>16. /\ collections' \in Seq(Receipts) /\ DOMAIN collections' = 1..(n + 1)
       /\ \A i \in 1..n : collections'[i] = collections[i]
       /\ collections'[n + 1] = row
  <2>1. row \in Receipts
    BY <1>2, <1>5, <1>6 DEF Receipts
  <2>2. collections \in Seq(Receipts)
    BY DEF TablesInv, TablesTyped
  <2> QED
    BY <1>5, <1>7, <2>1, <2>2
<1>17. TablesTyped'
  BY <1>7, <1>9, <1>15, <1>16 DEF TablesInv, TablesTyped
<1>18. \A i \in 1..n :
         /\ collections[i].amount = (IF collections[i].reversal THEN -2 ELSE 2)
         /\ collections[i].loan \in Lent /\ loans[collections[i].loan].status # "approved"
         /\ collections[i].entry \in 1..k
         /\ \A j \in 1..n : collections[i].entry = collections[j].entry => i = j
  BY <1>5, ReceiptType DEF TablesInv, ReceiptsFit
<1>19. ReceiptsFit'
  <2>1. \A m \in Lent : loans[m].status # "approved" \/ m = l => loans'[m].status # "approved"
    BY <1>3, <1>8, <1>9
  <2>2. /\ row.amount = 2 /\ ~row.reversal /\ row.loan = l /\ row.entry = k + 1
    BY <1>6
  <2>3. ASSUME NEW i \in 1..(n + 1)
        PROVE  /\ collections'[i].amount = IF collections'[i].reversal THEN -2 ELSE 2
               /\ loans'[collections'[i].loan].status # "approved"
               /\ collections'[i].entry \in 1..(k + 1)
               /\ collections'[i].entry = k + 1 <=> i = n + 1
    <3>1. CASE i = n + 1
      BY <1>16, <2>1, <2>2, <3>1
    <3>2. CASE i \in 1..n
      <4>1. collections'[i] = collections[i]
        BY <1>16, <3>2
      <4>2. collections[i].entry \in 1..(k + 1) /\ collections[i].entry # k + 1 /\ i # n + 1
        BY <1>18, <3>2
      <4> QED
        BY <1>18, <2>1, <3>2, <4>1, <4>2
    <3> QED
      BY <3>1, <3>2
  <2>4. ASSUME NEW i \in 1..(n + 1), NEW j \in 1..(n + 1),
               collections'[i].entry = collections'[j].entry
        PROVE  i = j
    <3>1. CASE i = n + 1 \/ j = n + 1
      BY <2>3, <2>4, <3>1
    <3>2. CASE i \in 1..n /\ j \in 1..n
      BY <1>16, <1>18, <2>4, <3>2
    <3> QED
      BY <3>1, <3>2
  <2> QED
    BY <1>15, <1>16, <2>3, <2>4 DEF ReceiptsFit
<1>20. PaymentsCount'
  <2>1. \A m \in Lent \ {l} : Standing(m)' = Standing(m)
    <3> SUFFICES ASSUME NEW m \in Lent \ {l} PROVE Standing(m)' = Standing(m)
      OBVIOUS
    <3>1. collections'[n + 1].loan # m
      BY <1>6, <1>16
    <3> QED
      BY <1>5, <1>16, <3>1 DEF Standing
  <2>2. Standing(l)' = Standing(l) \cup {n + 1} /\ n + 1 \notin Standing(l)
    <3>1. /\ collections'[n + 1].loan = l /\ collections'[n + 1].posted
          /\ ~collections'[n + 1].reversal
      BY <1>6, <1>16
    <3> QED
      BY <1>5, <1>16, <3>1 DEF Standing
  <2>3. IsFiniteSet(Standing(l)) /\ Cardinality(Standing(l)) \in Nat
    BY StandingFinite DEF TablesInv, TablesTyped
  <2>4. Cardinality(Standing(l)') = Cardinality(Standing(l)) + 1
    BY <2>2, <2>3, FS_AddElement
  <2>5. \A m \in Lent : /\ loans[m].paid = Cardinality(Standing(m))
                        /\ loans[m].cached = IF loans[m].status = "approved" THEN 0
                                             ELSE Rep!Payable - 2 * loans[m].paid
    BY DEF TablesInv, PaymentsCount
  <2>6. x.status # "approved" /\ x.cached = 2 * Parts - 2 * x.paid /\ x.paid \in Int
    BY <1>1, <1>7, <2>5 DEF Rep!Live, Rep!Payable, LoanStates
  <2>7. y.paid = Cardinality(Standing(l)') /\ y.cached = Rep!Payable - 2 * y.paid
    BY <1>1, <1>3, <1>8, <2>4, <2>5, <2>6, LoansFinite DEF Rep!Payable
  <2>8. \A m \in Lent \ {l} :
          /\ loans'[m].paid = Cardinality(Standing(m)')
          /\ loans'[m].cached = IF loans'[m].status = "approved" THEN 0
                                ELSE Rep!Payable - 2 * loans'[m].paid
    BY <1>9, <2>1, <2>5
  <2>9. /\ loans'[l].paid = Cardinality(Standing(l)') /\ loans'[l].status # "approved"
        /\ loans'[l].cached = Rep!Payable - 2 * loans'[l].paid
    BY <1>3, <1>8, <1>9, <2>7
  <2> QED
    BY <2>8, <2>9 DEF PaymentsCount, Rep!Payable
<1>21. PostingsBalance'
  <2>1. \A i \in 1..(n + 1) : Rep!Debited(Rep!Accounts, entries'[collections'[i].entry].lines) = 2
    <3> SUFFICES ASSUME NEW i \in 1..(n + 1)
                 PROVE  Rep!Debited(Rep!Accounts, entries'[collections'[i].entry].lines) = 2
      OBVIOUS
    <3>1. CASE i = n + 1
      BY <1>6, <1>13, <1>15, <1>16, <3>1
    <3>2. CASE i \in 1..n
      <4>1. entries'[collections'[i].entry] = entries[collections[i].entry]
        BY <1>15, <1>16, <1>18, <3>2
      <4> QED
        BY <1>5, <3>2, <4>1 DEF TablesInv, PostingsBalance
    <3> QED
      BY <3>1, <3>2
  <2> QED
    BY <1>15, <1>16, <2>1 DEF PostingsBalance
<1> QED
  BY <1>17, <1>19, <1>20, <1>21 DEF TablesInv

\* A reversal is a row with a mirrored entry, and one payment less that stands.
LEMMA ReversalKeepsTables ==
  ASSUME TablesInv, NEW c \in DOMAIN collections, Rep!ReverseCollection(c)
  PROVE  TablesInv'
<1>1. PICK n \in Nat, k \in Nat : /\ n = Len(collections) /\ DOMAIN collections = 1..n
                                  /\ k = Len(entries) /\ DOMAIN entries = 1..k
  BY DEF TablesInv, TablesTyped
<1>2. \A i \in 1..n :
         /\ collections[i] \in Receipts
         /\ collections[i].amount = (IF collections[i].reversal THEN -2 ELSE 2)
         /\ collections[i].loan \in Lent /\ loans[collections[i].loan].status # "approved"
         /\ collections[i].entry \in 1..k
         /\ \A j \in 1..n : collections[i].entry = collections[j].entry => i = j
  BY <1>1, ReceiptType DEF TablesInv, ReceiptsFit
<1>3. PICK l \in Lent, e \in 1..k : /\ l = collections[c].loan /\ e = collections[c].entry
                                    /\ loans[l].status # "approved"
  BY <1>1, <1>2
<1>4. PICK x \in LoanStates : x = loans[l]
  BY DEF TablesInv, TablesTyped
<1>5. \A m \in Lent : /\ loans[m].paid = Cardinality(Standing(m))
                      /\ loans[m].cached = IF loans[m].status = "approved" THEN 0
                                           ELSE Rep!Payable - 2 * loans[m].paid
  BY DEF TablesInv, PaymentsCount
<1>6. /\ collections[c].posted /\ ~collections[c].reversal /\ c \in Standing(l)
      /\ IsFiniteSet(Standing(l)) /\ Cardinality(Standing(l)) \in Nat
      /\ Cardinality(Standing(l)) > 0
  <2>1. collections[c].posted /\ ~collections[c].reversal /\ c \in Standing(l)
    BY <1>3 DEF Rep!ReverseCollection, Standing
  <2>2. IsFiniteSet(Standing(l)) /\ Cardinality(Standing(l)) \in Nat
    BY StandingFinite DEF TablesInv, TablesTyped
  <2>3. Cardinality(Standing(l)) # 0
    BY <2>1, <2>2, FS_EmptySet
  <2> QED
    BY <2>1, <2>2, <2>3
<1>7. PICK p \in 0..Parts, late \in Int :
        p = x.paid - 1 /\ late = Rep!Dpd(l, p)
  <2>1. x.paid \in 0..Parts /\ x.due \in Int /\ x.paid > 0
    BY <1>4, <1>5, <1>6 DEF LoanStates
  <2>2. x.paid - 1 \in 0..Parts
    BY <2>1, LoansFinite
  <2>3. today \in Int
    BY DEF TablesInv, TablesTyped
  <2>4. Rep!Dpd(l, x.paid - 1) \in Int
    BY <1>4, <2>1, <2>3 DEF Rep!Dpd
  <2> QED
    BY <2>2, <2>4
<1>8. PICK y : y = [x EXCEPT !.cached = x.cached + 2, !.paid = p, !.dpd = late]
  OBVIOUS
<1>9. PICK d \in Int : d = Rep!UtcDay
  <2>1. today \in Int
    BY DEF TablesInv, TablesTyped
  <2> QED
    BY <2>1 DEF Rep!UtcDay
<1>10. PICK lines : lines = Rep!Mirror(entries[e].lines)
  OBVIOUS
<1>11. PICK row : row = [loan |-> l, amount |-> -2, date |-> d, posted |-> TRUE, reversal |-> TRUE,
                         entry |-> k + 1]
  OBVIOUS
<1>12. PICK old : old = [collections EXCEPT ![c].posted = FALSE]
  OBVIOUS
<1>13. /\ loans' = [loans EXCEPT ![l] = y]
       /\ Rep!Post(d, c, lines)
       /\ collections' = Append(old, row)
       /\ UNCHANGED <<today, night>>
  <2>1. PICK z : z = [loans[l] EXCEPT !.cached = loans[l].cached + 2, !.paid = loans[l].paid - 1,
                                      !.dpd = Rep!Dpd(l, loans[l].paid - 1)]
    OBVIOUS
  <2>2. loans' = [loans EXCEPT ![l] = z]
    BY <1>3, <2>1 DEF Rep!ReverseCollection
  <2>3. z = y
    <3>1. loans[l].paid - 1 = p
      BY <1>4, <1>7
    <3>2. z = [loans[l] EXCEPT !.cached = loans[l].cached + 2, !.paid = p, !.dpd = Rep!Dpd(l, p)]
      BY <2>1, <3>1
    <3> QED
      BY <1>4, <1>7, <1>8, <3>2
  <2>4. /\ Rep!Post(Rep!UtcDay, c, Rep!Mirror(entries[collections[c].entry].lines))
        /\ collections' = Append([collections EXCEPT ![c].posted = FALSE],
             [loan |-> collections[c].loan, amount |-> -2, date |-> Rep!UtcDay, posted |-> TRUE,
              reversal |-> TRUE, entry |-> Len(entries) + 1])
        /\ UNCHANGED <<today, night>>
    BY DEF Rep!ReverseCollection
  <2> QED
    BY <1>1, <1>3, <1>9, <1>10, <1>11, <1>12, <2>2, <2>3, <2>4
<1>14. y \in LoanStates /\ y.status = x.status /\ y.cached = x.cached + 2 /\ y.paid = p
  <2>1. x.cached + 2 \in Int
    BY <1>4 DEF LoanStates
  <2> QED
    BY <1>8, <2>1 DEF LoanStates
<1>15. /\ loans' \in [Lent -> LoanStates] /\ loans'[l] = y
       /\ \A m \in Lent \ {l} : loans'[m] = loans[m]
  BY <1>13, <1>14, LoanWritten
<1>16. /\ lines \in Seq(PostedLines)
       /\ Rep!Debited(Rep!Accounts, lines) = 2
       /\ Rep!Debited(Rep!Accounts, lines) = Rep!Credited(Rep!Accounts, lines)
  <2>1. entries[e].lines \in Seq(PostedLines)
    <3>1. entries[e] \in Postings
      BY <1>1, <1>3 DEF TablesInv, TablesTyped
    <3> QED
      BY <3>1 DEF Postings
  <2>2. /\ Rep!Debited(Rep!Accounts, entries[e].lines) = 2
        /\ Rep!Credited(Rep!Accounts, entries[e].lines) = 2
    BY <1>1, <1>3 DEF TablesInv, PostingsBalance
  <2> QED
    BY <1>10, <2>1, <2>2, MirrorSwaps
<1>17. /\ entries' \in Seq(Postings) /\ DOMAIN entries' = 1..(k + 1)
       /\ \A i \in 1..k : entries'[i] = entries[i]
       /\ entries'[k + 1].lines = lines
       /\ \A i \in DOMAIN entries' :
            Rep!Debited(Rep!Accounts, entries'[i].lines)
              = Rep!Credited(Rep!Accounts, entries'[i].lines)
  <2>1. c \in Nat
    BY <1>1
  <2> QED
    BY <1>1, <1>13, <1>16, <2>1, EntryPosted
<1>18. /\ collections' \in Seq(Receipts) /\ DOMAIN collections' = 1..(n + 1)
       /\ \A i \in 1..n :
            /\ collections'[i].loan = collections[i].loan
            /\ collections'[i].amount = collections[i].amount
            /\ collections'[i].reversal = collections[i].reversal
            /\ collections'[i].entry = collections[i].entry
            /\ collections'[i].posted = (IF i = c THEN FALSE ELSE collections[i].posted)
       /\ collections'[n + 1] = row
  <2>1. row \in Receipts
    BY <1>1, <1>9, <1>11 DEF Receipts
  <2>2. collections \in Seq(Receipts)
    BY DEF TablesInv, TablesTyped
  <2>3. PICK r \in Receipts : r = collections[c]
    BY <1>1, <1>2
  <2>4. PICK q : q = [r EXCEPT !.posted = FALSE]
    OBVIOUS
  <2>5. /\ q \in Receipts /\ q.loan = r.loan /\ q.amount = r.amount /\ q.reversal = r.reversal
        /\ q.entry = r.entry /\ q.posted = FALSE
    BY <2>4 DEF Receipts
  <2>6. old = [collections EXCEPT ![c] = q]
    BY <1>12, <2>3, <2>4
  <2>7. /\ old \in Seq(Receipts) /\ DOMAIN old = 1..n /\ Len(old) = n /\ old[c] = q
        /\ \A i \in (1..n) \ {c} : old[i] = collections[i]
    BY <1>1, <2>2, <2>5, <2>6
  <2>8. /\ collections' \in Seq(Receipts) /\ DOMAIN collections' = 1..(n + 1)
        /\ \A i \in 1..n : collections'[i] = old[i]
        /\ collections'[n + 1] = row
    BY <1>13, <2>1, <2>7
  <2> QED
    BY <2>3, <2>5, <2>7, <2>8
<1>19. TablesTyped'
  BY <1>13, <1>15, <1>17, <1>18 DEF TablesInv, TablesTyped
<1>20. ReceiptsFit'
  <2>1. \A m \in Lent : loans[m].status # "approved" => loans'[m].status # "approved"
    BY <1>4, <1>14, <1>15
  <2>2. /\ row.amount = -2 /\ row.reversal /\ row.loan = l /\ row.entry = k + 1
    BY <1>11
  <2>3. ASSUME NEW i \in 1..(n + 1)
        PROVE  /\ collections'[i].amount = IF collections'[i].reversal THEN -2 ELSE 2
               /\ loans'[collections'[i].loan].status # "approved"
               /\ collections'[i].entry \in 1..(k + 1)
               /\ collections'[i].entry = k + 1 <=> i = n + 1
    <3>1. CASE i = n + 1
      BY <1>3, <1>18, <2>1, <2>2, <3>1
    <3>2. CASE i \in 1..n
      <4>1. collections[i].entry \in 1..(k + 1) /\ collections[i].entry # k + 1 /\ i # n + 1
        BY <1>2, <3>2
      <4> QED
        BY <1>2, <1>18, <2>1, <3>2, <4>1
    <3> QED
      BY <3>1, <3>2
  <2>4. ASSUME NEW i \in 1..(n + 1), NEW j \in 1..(n + 1),
               collections'[i].entry = collections'[j].entry
        PROVE  i = j
    <3>1. CASE i = n + 1 \/ j = n + 1
      BY <2>3, <2>4, <3>1
    <3>2. CASE i \in 1..n /\ j \in 1..n
      BY <1>2, <1>18, <2>4, <3>2
    <3> QED
      BY <3>1, <3>2
  <2> QED
    BY <1>17, <1>18, <2>3, <2>4 DEF ReceiptsFit
<1>21. PaymentsCount'
  <2>1. \A m \in Lent \ {l} : Standing(m)' = Standing(m)
    <3> SUFFICES ASSUME NEW m \in Lent \ {l} PROVE Standing(m)' = Standing(m)
      OBVIOUS
    <3>1. collections'[n + 1].loan # m /\ collections[c].loan # m
      BY <1>3, <1>11, <1>18
    <3>2. Standing(m) = {i \in 1..n : /\ collections[i].loan = m /\ collections[i].posted
                                      /\ ~collections[i].reversal}
      BY <1>1 DEF Standing
    <3>3. Standing(m)' = {i \in 1..(n + 1) : /\ collections'[i].loan = m /\ collections'[i].posted
                                             /\ ~collections'[i].reversal}
      BY <1>18 DEF Standing
    <3>4. \A i \in 1..n : collections[i].loan = m => collections'[i].posted = collections[i].posted
      BY <1>18, <3>1
    <3>5. Standing(m)' = {i \in 1..n : /\ collections'[i].loan = m /\ collections'[i].posted
                                       /\ ~collections'[i].reversal}
      BY <3>1, <3>3
    <3>6. \A i \in 1..n : /\ collections'[i].loan = collections[i].loan
                          /\ collections'[i].reversal = collections[i].reversal
      BY <1>18
    <3> QED
      BY <3>2, <3>4, <3>5, <3>6
  <2>2. Standing(l)' = Standing(l) \ {c}
    <3>1. collections'[n + 1].reversal /\ n + 1 \notin 1..n
      BY <1>11, <1>18
    <3>2. Standing(l) = {i \in 1..n : /\ collections[i].loan = l /\ collections[i].posted
                                      /\ ~collections[i].reversal}
      BY <1>1 DEF Standing
    <3>3. Standing(l)' = {i \in 1..(n + 1) : /\ collections'[i].loan = l /\ collections'[i].posted
                                             /\ ~collections'[i].reversal}
      BY <1>18 DEF Standing
    <3>4. Standing(l)' = {i \in 1..n : /\ collections'[i].loan = l /\ collections'[i].posted
                                       /\ ~collections'[i].reversal}
      BY <3>1, <3>3, <1>18
    <3>5. \A i \in (1..n) \ {c} : collections'[i].posted = collections[i].posted
      BY <1>18
    <3>6. c \in 1..n /\ ~collections'[c].posted
      BY <1>1, <1>18
    <3> QED
      BY <1>18, <3>2, <3>4, <3>5, <3>6
  <2>3. Cardinality(Standing(l)') = Cardinality(Standing(l)) - 1
    BY <1>6, <2>2, FS_RemoveElement
  <2>4. y.status # "approved" /\ x.cached = 2 * Parts - 2 * x.paid /\ x.paid \in Int
    BY <1>3, <1>4, <1>5, <1>14 DEF Rep!Payable, LoanStates
  <2>5. y.paid = Cardinality(Standing(l)') /\ y.cached = Rep!Payable - 2 * y.paid
    BY <1>4, <1>5, <1>7, <1>14, <2>3, <2>4, LoansFinite DEF Rep!Payable
  <2>6. \A m \in Lent \ {l} :
          /\ loans'[m].paid = Cardinality(Standing(m)')
          /\ loans'[m].cached = IF loans'[m].status = "approved" THEN 0
                                ELSE Rep!Payable - 2 * loans'[m].paid
    BY <1>5, <1>15, <2>1
  <2>7. /\ loans'[l].paid = Cardinality(Standing(l)') /\ loans'[l].status # "approved"
        /\ loans'[l].cached = Rep!Payable - 2 * loans'[l].paid
    BY <1>15, <2>4, <2>5
  <2> QED
    BY <2>6, <2>7 DEF PaymentsCount, Rep!Payable
<1>22. PostingsBalance'
  <2>1. \A i \in 1..(n + 1) : Rep!Debited(Rep!Accounts, entries'[collections'[i].entry].lines) = 2
    <3> SUFFICES ASSUME NEW i \in 1..(n + 1)
                 PROVE  Rep!Debited(Rep!Accounts, entries'[collections'[i].entry].lines) = 2
      OBVIOUS
    <3>1. CASE i = n + 1
      BY <1>11, <1>16, <1>17, <1>18, <3>1
    <3>2. CASE i \in 1..n
      <4>1. entries'[collections'[i].entry] = entries[collections[i].entry]
        BY <1>2, <1>17, <1>18, <3>2
      <4> QED
        BY <1>1, <3>2, <4>1 DEF TablesInv, PostingsBalance
    <3> QED
      BY <3>1, <3>2
  <2> QED
    BY <1>17, <1>18, <2>1 DEF PostingsBalance
<1> QED
  BY <1>19, <1>20, <1>21, <1>22 DEF TablesInv

\* So every writer keeps the tables in order.
LEMMA TablesKept ==
  ASSUME TablesInv, Rep!Write \/ Rep!Tick
  PROVE  TablesInv'
BY DisburseKeepsTables, CollectKeepsTables, ReassignKeepsTables, ReversalKeepsTables,
   SpendKeepsTables, TickKeepsTables DEF Rep!Write

-----------------------------------------------------------------------------
(* The figures. *)

LEMMA BoardConstants ==
  /\ Watchers \subseteq Officers \cup {Manager}
  /\ "active" \in Figures /\ "overdue" \in Figures
  /\ Figures \subseteq {"customers", "active", "overdue", "outstanding", "collections",
                        "disbursements", "pending"}
  /\ Ttl \in Nat /\ Ttl > 0 /\ MaxClock \in Nat /\ MaxClock > 0
BY BackOfficeAssumption DEF Board!DashboardAssumption

\* The loans of a viewer are finitely many.
LEMMA InStatusFinite ==
  ASSUME NEW viewer, NEW statuses
  PROVE  /\ Board!InStatus(viewer, statuses) \in SUBSET Lent
         /\ Board!Cardinality(Board!InStatus(viewer, statuses))
              = Cardinality(Board!InStatus(viewer, statuses))
         /\ IsFiniteSet(Board!InStatus(viewer, statuses))
         /\ Cardinality(Board!InStatus(viewer, statuses)) \in Nat
<1>1. Board!InStatus(viewer, statuses) \in SUBSET Lent
  BY DEF Board!InStatus, Board!Book
<1>2. IsFiniteSet(Board!InStatus(viewer, statuses))
  BY <1>1, LoansFinite, FS_Subset
<1> QED
  BY <1>1, <1>2, BoardSize, FS_CardinalityType

\* Every figure is a natural number.
LEMMA FigureType ==
  ASSUME TablesInv, NEW viewer, NEW t \in Int, NEW f \in Figures
  PROVE  Board!Value(viewer, t, f) \in Nat
<1>1. CASE f = "customers"
  <2>1. Board!Book(viewer) \in SUBSET Lent
    BY DEF Board!Book
  <2>2. IsFiniteSet(Board!Book(viewer))
    BY <2>1, LoansFinite, FS_Subset
  <2>3. Board!Cardinality(Board!Book(viewer)) \in Nat
    BY <2>2, BoardSize, FS_CardinalityType
  <2> QED
    BY <1>1, <2>3 DEF Board!Value
<1>2. CASE f = "active"
  BY <1>2, InStatusFinite DEF Board!Value
<1>3. CASE f = "overdue"
  BY <1>3, InStatusFinite DEF Board!Value, Board!Overdue
<1>4. CASE f = "outstanding"
  <2>1. PICK S : S = Board!InStatus(viewer, {"active", "overdue"})
    OBVIOUS
  <2>2. S \subseteq Lent /\ IsFiniteSet(S)
    BY <2>1, InStatusFinite
  <2>3. \A l \in Lent : loans[l].cached \in Nat
    <3> SUFFICES ASSUME NEW l \in Lent PROVE loans[l].cached \in Nat
      OBVIOUS
    <3>1. loans[l].paid \in 0..Parts
      BY DEF TablesInv, TablesTyped, LoanStates
    <3> QED
      BY <3>1, LoansFinite DEF TablesInv, PaymentsCount, Rep!Payable
  <2>4. Board!SumOf([l \in Lent |-> loans[l].cached], S) \in Nat
    BY <2>2, <2>3, SumOfType
  <2> QED
    BY <1>4, <2>1, <2>4 DEF Board!Value
<1>5. CASE f = "collections"
  <2>1. PICK S : S = Board!CollectedOn(viewer, t)
    OBVIOUS
  <2>2. S \subseteq DOMAIN collections /\ \A i \in S : ~collections[i].reversal
    BY <2>1 DEF Board!CollectedOn
  <2>3. IsFiniteSet(S)
    <3>1. PICK n \in Nat : DOMAIN collections = 1..n
      BY DEF TablesInv, TablesTyped
    <3> QED
      BY <2>2, <3>1, FS_Interval, FS_Subset
  <2>4. \A i \in S : [j \in DOMAIN collections |-> collections[j].amount][i] \in Nat
    BY <2>2 DEF TablesInv, ReceiptsFit
  <2>5. Board!SumOf([j \in DOMAIN collections |-> collections[j].amount], S) \in Nat
    BY <2>3, <2>4, SumOfType
  <2> QED
    BY <1>5, <2>1, <2>5 DEF Board!Value
<1>6. CASE f = "disbursements"
  <2>1. PICK S : S = {l \in Board!InStatus(viewer, {"active", "overdue", "closed"}) :
                                Board!OfDay(t, Board!Midnight(loans[l].disbursed))}
    OBVIOUS
  <2>2. S \subseteq Lent
    BY <2>1, InStatusFinite
  <2>3. IsFiniteSet(S)
    BY <2>2, LoansFinite, FS_Subset
  <2>4. Board!Cardinality(S) \in Nat
    BY <2>3, BoardSize, FS_CardinalityType
  <2>5. Parts * Board!Cardinality(S) \in Nat
    BY <2>4, LoansFinite
  <2> QED
    BY <1>6, <2>1, <2>5 DEF Board!Value
<1>7. CASE f = "pending"
  BY <1>7, InStatusFinite DEF Board!Value
<1> QED
  BY <1>1, <1>2, <1>3, <1>4, <1>5, <1>6, <1>7, BoardConstants

\* A figure that is read counts the loans of a status, or is not such a count.
LEMMA CountsLoans ==
  ASSUME NEW viewer, NEW t, NEW f \in {"active", "overdue"}
  PROVE  /\ Board!Value(viewer, t, f) = Cardinality(Board!InStatus(viewer, {f}))
         /\ Board!InStatus(viewer, {f}) \in SUBSET Lent
BY InStatusFinite DEF Board!Value, Board!Overdue

\* Nothing is cached and nobody asks at the start.
LEMMA BoardStart == Board!InitDashboard /\ TablesInv => BoardInv
<1> SUFFICES ASSUME Board!InitDashboard, TablesInv PROVE BoardInv
  OBVIOUS
<1>1. /\ clock = 1 /\ cache = [v \in Watchers |-> Board!Nothing]
      /\ req = [r \in Refreshes |-> Board!Idle]
  BY DEF Board!InitDashboard
<1>2. Board!Nothing.expires = 0 /\ Board!Nothing.start = 0
  BY DEF Board!Nothing
<1> QED
  BY <1>1, <1>2, BoardConstants DEF BoardInv

\* A step that leaves the tables alone leaves what they say of a viewer alone.
LEMMA SameTables ==
  ASSUME UNCHANGED tables
  PROVE  /\ TablesInv' <=> TablesInv
         /\ \A u, t, f : Board!Value(u, t, f)' = Board!Value(u, t, f)
         /\ \A u, s : Board!InStatus(u, s)' = Board!InStatus(u, s)
<1>0. UNCHANGED <<today, night, loans, collections, entries>>
  BY DEF tables
<1>1. TablesInv' <=> TablesInv
  BY <1>0 DEF TablesInv, TablesTyped, ReceiptsFit, PaymentsCount, Standing, PostingsBalance
<1>2. \A u : Board!Book(u)' = Board!Book(u)
  BY <1>0 DEF Board!Book
<1>3. ASSUME NEW u, NEW s PROVE Board!InStatus(u, s)' = Board!InStatus(u, s)
  BY <1>0, <1>2 DEF Board!InStatus
<1>4. ASSUME NEW u, NEW t PROVE Board!CollectedOn(u, t)' = Board!CollectedOn(u, t)
  BY <1>0, <1>2 DEF Board!CollectedOn
<1>5. ASSUME NEW u, NEW t, NEW f PROVE Board!Value(u, t, f)' = Board!Value(u, t, f)
  BY <1>0, <1>2, <1>3, <1>4 DEF Board!Value, Board!Overdue
<1> QED
  BY <1>1, <1>3, <1>5

\* The same of what was read.
LEMMA FreshStays ==
  ASSUME UNCHANGED tables, clock \in Int, clock' \in Int, clock <= clock', NEW e, NEW u, Fresh(e, u)
  PROVE  Fresh(e, u)'
<1>1. \A f \in {"active", "overdue"} : CountedOf(e, u, f) => CountedOf(e, u, f)'
  BY SameTables DEF CountedOf
<1>2. e \in [expires : Int, start : 0 .. clock', today : Int, values : {e.values},
             moved : SUBSET Lent]
  <2>1. 0..clock \subseteq 0..clock'
    OBVIOUS
  <2> QED
    BY <2>1 DEF Fresh
<1>3. e.moved = {} =>
        /\ e.today = today'
        /\ \A f \in DOMAIN e.values : e.values[f] = Board!Value(u, today, f)'
  BY SameTables DEF Fresh, tables
<1> QED
  BY <1>1, <1>2, <1>3 DEF Fresh

\* What a viewer gets is the cached entry while it lasts, or nothing read yet.
LEMMA GetKeepsBoard ==
  ASSUME BoardInv, NEW r \in Refreshes, NEW v \in Watchers, Board!Get(r, v)
  PROVE  BoardInv'
<1>1. /\ req[r] = Board!Idle /\ UNCHANGED <<tables, clock, cache>>
      /\ req' = [req EXCEPT ![r] =
           IF cache[v].expires > clock
           THEN [phase |-> "answered", viewer |-> v, hit |-> TRUE, entry |-> cache[v]]
           ELSE [phase |-> "reading", viewer |-> v, hit |-> FALSE,
                 entry |-> [Board!Nothing EXCEPT !.start = clock, !.today = today]]]
  BY DEF Board!Get, Board!Key, Board!tables, tables
<1>2. ASSUME NEW e, NEW u, Fresh(e, u) PROVE Fresh(e, u)'
  <2>1. clock \in Int /\ clock' = clock /\ UNCHANGED tables
    BY <1>1 DEF BoardInv
  <2>2. clock' \in Int /\ clock <= clock'
    BY <2>1
  <2> QED
    BY <1>2, <2>1, <2>2, FreshStays
<1>3. TablesInv'
  BY <1>1, SameTables DEF BoardInv
<1>4. PICK c \in 1..MaxClock, d \in Int : c = clock /\ d = today
  BY DEF BoardInv, TablesInv, TablesTyped
<1>5. CASE cache[v].expires > clock
  <2>1. cache[v] # Board!Nothing
    BY <1>4, <1>5, BoardConstants DEF Board!Nothing
  <2>2. Fresh(cache[v], v) /\ DOMAIN cache[v].values = Figures
    BY <2>1 DEF BoardInv
  <2>3. PICK q : q = [phase |-> "answered", viewer |-> v, hit |-> TRUE, entry |-> cache[v]]
    OBVIOUS
  <2>4. req' = [req EXCEPT ![r] = q]
    BY <1>1, <1>5, <2>3
  <2>5. Asking(q)
    BY <2>2, <2>3 DEF Asking
  <2>6. Asking(q)'
    BY <1>1, <1>2, <2>5 DEF Asking
  <2> QED
    BY <1>1, <1>2, <1>3, <2>4, <2>6 DEF BoardInv, Asking, tables
<1>6. CASE ~(cache[v].expires > clock)
  <2>1. PICK e : e = [Board!Nothing EXCEPT !.start = c, !.today = d]
    OBVIOUS
  <2>2. PICK q : q = [phase |-> "reading", viewer |-> v, hit |-> FALSE, entry |-> e]
    OBVIOUS
  <2>3. req' = [req EXCEPT ![r] = q]
    BY <1>1, <1>4, <1>6, <2>1, <2>2
  <2>4. /\ e.values = [f \in {} |-> 0] /\ e.moved = {} /\ e.today = d
        /\ e \in [expires : Int, start : 0 .. c, today : Int, values : {e.values},
                  moved : SUBSET Lent]
    <3>1. PICK w : w = [f \in {} |-> 0]
      OBVIOUS
    <3>2. c \in 0..c
      OBVIOUS
    <3>3. e = [[expires |-> 0, start |-> 0, today |-> 0, values |-> w, moved |-> {}]
                 EXCEPT !.start = c, !.today = d]
      BY <2>1, <3>1 DEF Board!Nothing
    <3>4. e.values = w /\ e.moved = {} /\ e.today = d
      BY <3>3
    <3>5. e \in [expires : Int, start : 0 .. c, today : Int, values : {w}, moved : SUBSET Lent]
      <4>1. [expires |-> 0, start |-> 0, today |-> 0, values |-> w, moved |-> {}]
              \in [expires : Int, start : 0 .. c, today : Int, values : {w}, moved : SUBSET Lent]
        BY <3>2
      <4> QED
        BY <3>2, <3>3, <4>1
    <3> QED
      BY <3>1, <3>4, <3>5
  <2>5. Fresh(e, v)
    BY <1>4, <2>4 DEF Fresh
  <2>6. Asking(q)
    BY <2>2, <2>5 DEF Asking
  <2>7. Asking(q)'
    BY <1>1, <1>2, <2>6 DEF Asking
  <2> QED
    BY <1>1, <1>2, <1>3, <2>3, <2>7 DEF BoardInv, Asking, tables
<1> QED
  BY <1>5, <1>6

\* What has been asked stays what it is while the tables and the cache do.
LEMMA BoardStays ==
  ASSUME BoardInv, UNCHANGED tables, clock' \in 1..MaxClock, clock <= clock'
  PROVE  /\ TablesInv'
         /\ \A e, u : Fresh(e, u) => Fresh(e, u)'
         /\ \A q : Asking(q) => Asking(q)'
<1>1. TablesInv'
  BY SameTables DEF BoardInv
<1>2. ASSUME NEW e, NEW u, Fresh(e, u) PROVE Fresh(e, u)'
  <2>1. clock \in Int /\ clock' \in Int
    BY DEF BoardInv
  <2> QED
    BY <1>2, <2>1, FreshStays
<1>3. ASSUME NEW q, Asking(q) PROVE Asking(q)'
  BY <1>2, <1>3 DEF Asking
<1> QED
  BY <1>1, <1>2, <1>3

\* Another figure is read.
LEMMA ReadKeepsBoard ==
  ASSUME BoardInv, NEW r \in Refreshes, NEW f \in Figures, Board!Read(r, f)
  PROVE  BoardInv'
<1>1. PICK q : q = req[r]
  OBVIOUS
<1>2. PICK e, w, n : e = q.entry /\ w = e.values /\ n = Board!Value(q.viewer, e.today, f)
  OBVIOUS
<1>3. PICK x : x = Board!With(w, f, n)
  OBVIOUS
<1>4. PICK e2 : e2 = [e EXCEPT !.values = x]
  OBVIOUS
<1>5. PICK q2 : q2 = [q EXCEPT !.entry = e2]
  OBVIOUS
<1>6. /\ q.phase = "reading" /\ req' = [req EXCEPT ![r] = q2]
      /\ UNCHANGED <<tables, clock, cache>>
  <2>1. req' = [req EXCEPT ![r].entry.values =
                  Board!With(req[r].entry.values, f, Board!Value(req[r].viewer, req[r].entry.today, f))]
    BY DEF Board!Read
  <2>2. req' = [req EXCEPT ![r].entry.values = x]
    BY <1>1, <1>2, <1>3, <2>1
  <2>3. req' = [req EXCEPT ![r] = q2]
    BY <1>1, <1>2, <1>4, <1>5, <2>2
  <2> QED
    BY <1>1, <2>3 DEF Board!Read, Board!Reading, Board!tables, tables
<1>7. Asking(q)
  <2>1. req[r] = Board!Idle \/ Asking(req[r])
    BY DEF BoardInv
  <2>2. req[r] # Board!Idle
    BY <1>1, <1>6 DEF Board!Idle
  <2> QED
    BY <1>1, <2>1, <2>2
<1>8. /\ q \in [phase : {"reading", "answered"}, viewer : Watchers, hit : BOOLEAN, entry : {e}]
      /\ Fresh(e, q.viewer) /\ q.viewer \in Watchers
  BY <1>2, <1>7 DEF Asking
<1>9. /\ e \in [expires : Int, start : 0 .. clock, today : Int, values : {w}, moved : SUBSET Lent]
      /\ w \in [DOMAIN w -> Nat] /\ DOMAIN w \subseteq Figures
      /\ e.moved = {} =>
           /\ e.today = today
           /\ \A g \in DOMAIN w : w[g] = Board!Value(q.viewer, today, g)
      /\ \A g \in DOMAIN w \cap {"active", "overdue"} : CountedOf(e, q.viewer, g)
  BY <1>2, <1>8 DEF Fresh
<1>10. n \in Nat
  BY <1>2, <1>9, FigureType DEF BoardInv
<1>11. /\ DOMAIN x = DOMAIN w \cup {f} /\ x[f] = n
       /\ \A g \in DOMAIN w \ {f} : x[g] = w[g]
       /\ x \in [DOMAIN w \cup {f} -> Nat]
  BY <1>3, <1>9, <1>10 DEF Board!With
<1>12. /\ e2 \in [expires : Int, start : 0 .. clock, today : Int, values : {x}, moved : SUBSET Lent]
       /\ e2.values = x /\ e2.moved = e.moved /\ e2.today = e.today
  BY <1>4, <1>9
<1>13. \A g \in DOMAIN x \cap {"active", "overdue"} : CountedOf(e2, q.viewer, g)
  <2> SUFFICES ASSUME NEW g \in DOMAIN x \cap {"active", "overdue"}
               PROVE  CountedOf(e2, q.viewer, g)
    OBVIOUS
  <2>1. CASE g = f
    <3>1. /\ n = Cardinality(Board!InStatus(q.viewer, {g}))
          /\ Board!InStatus(q.viewer, {g}) \in SUBSET Lent
      BY <1>2, <2>1, CountsLoans
    <3> QED
      BY <1>11, <1>12, <2>1, <3>1 DEF CountedOf
  <2>2. CASE g # f
    <3>1. g \in DOMAIN w \cap {"active", "overdue"} /\ x[g] = w[g]
      BY <1>11, <2>2
    <3>2. CountedOf(e, q.viewer, g)
      BY <1>9, <3>1
    <3> QED
      BY <1>2, <1>12, <3>1, <3>2 DEF CountedOf
  <2> QED
    BY <2>1, <2>2
<1>14. e2.moved = {} => /\ e2.today = today
                        /\ \A g \in DOMAIN x : x[g] = Board!Value(q.viewer, today, g)
  BY <1>2, <1>9, <1>11, <1>12
<1>15. Fresh(e2, q.viewer)
  <2>1. x \in [DOMAIN x -> Nat] /\ DOMAIN x \subseteq Figures
    BY <1>9, <1>11
  <2>2. e2.values = x
    BY <1>12
  <2>3. /\ e2 \in [expires : Int, start : 0 .. clock, today : Int, values : {e2.values},
                   moved : SUBSET Lent]
        /\ e2.values \in [DOMAIN e2.values -> Nat] /\ DOMAIN e2.values \subseteq Figures
        /\ e2.moved = {} =>
             /\ e2.today = today
             /\ \A g \in DOMAIN e2.values : e2.values[g] = Board!Value(q.viewer, today, g)
        /\ \A g \in DOMAIN e2.values \cap {"active", "overdue"} : CountedOf(e2, q.viewer, g)
    BY <1>12, <1>13, <1>14, <2>1, <2>2
  <2> QED
    BY <2>3 DEF Fresh
<1>16. Asking(q2)
  <2>1. /\ q2 \in [phase : {"reading", "answered"}, viewer : Watchers, hit : BOOLEAN, entry : {e2}]
        /\ q2.phase = "reading" /\ q2.entry = e2 /\ q2.viewer = q.viewer
    BY <1>5, <1>6, <1>8
  <2> QED
    BY <1>15, <2>1 DEF Asking
<1>17. /\ TablesInv' /\ clock' = clock /\ cache' = cache
       /\ \A d, u : Fresh(d, u) => Fresh(d, u)'
       /\ \A d : Asking(d) => Asking(d)'
  <2>1. UNCHANGED tables /\ clock' \in 1..MaxClock /\ clock <= clock'
    BY <1>6 DEF BoardInv
  <2> QED
    BY <1>6, <2>1, BoardStays
<1> QED
  BY <1>6, <1>16, <1>17 DEF BoardInv

\* What was read becomes what the viewer's next requests are given.
LEMMA AnswerKeepsBoard ==
  ASSUME BoardInv, NEW r \in Refreshes, Board!Answer(r)
  PROVE  BoardInv'
<1>1. PICK q : q = req[r]
  OBVIOUS
<1>2. PICK e, n : e = q.entry /\ n = e.start + Ttl
  OBVIOUS
<1>3. PICK e2 : e2 = [e EXCEPT !.expires = n]
  OBVIOUS
<1>4. PICK q2 : q2 = [q EXCEPT !.entry = e2, !.phase = "answered"]
  OBVIOUS
<1>5. /\ q.phase = "reading" /\ Figures \ DOMAIN e.values = {}
      /\ req' = [req EXCEPT ![r] = q2] /\ cache' = [cache EXCEPT ![q.viewer] = e2]
      /\ UNCHANGED <<tables, clock>>
  <2>1. [req[r].entry EXCEPT !.expires = Board!Expires(r)] = e2
    BY <1>1, <1>2, <1>3 DEF Board!Expires
  <2>2. /\ cache' = [cache EXCEPT ![req[r].viewer] = [req[r].entry EXCEPT !.expires = Board!Expires(r)]]
        /\ req' = [req EXCEPT ![r].entry = [req[r].entry EXCEPT !.expires = Board!Expires(r)],
                              ![r].phase = "answered"]
    BY DEF Board!Answer, Board!Key
  <2>3. cache' = [cache EXCEPT ![q.viewer] = e2] /\ req' = [req EXCEPT ![r].entry = e2, ![r].phase = "answered"]
    BY <1>1, <2>1, <2>2
  <2>4. req' = [req EXCEPT ![r] = q2]
    BY <1>1, <1>4, <2>3 DEF BoardInv
  <2> QED
    BY <1>1, <1>2, <2>3, <2>4 DEF Board!Answer, Board!Reading, Board!Missing, Board!tables, tables
<1>7. Asking(q)
  <2>1. req[r] = Board!Idle \/ Asking(req[r])
    BY DEF BoardInv
  <2>2. req[r] # Board!Idle
    BY <1>1, <1>5 DEF Board!Idle
  <2> QED
    BY <1>1, <2>1, <2>2
<1>8. /\ q \in [phase : {"reading", "answered"}, viewer : Watchers, hit : BOOLEAN, entry : {e}]
      /\ Fresh(e, q.viewer) /\ q.viewer \in Watchers
  BY <1>2, <1>7 DEF Asking
<1>9. /\ e2 \in [expires : Int, start : 0 .. clock, today : Int, values : {e2.values}, moved : SUBSET Lent]
      /\ e2.values = e.values /\ e2.moved = e.moved /\ e2.today = e.today /\ e2.start = e.start
      /\ e2.expires = e2.start + Ttl
  <2>1. e \in [expires : Int, start : 0 .. clock, today : Int, values : {e.values}, moved : SUBSET Lent]
    BY <1>8 DEF Fresh
  <2>2. n \in Int
    <3>1. e.start \in 0..clock /\ clock \in Int
      BY <2>1 DEF BoardInv
    <3> QED
      BY <1>2, <3>1, BoardConstants
  <2> QED
    BY <1>2, <1>3, <2>1, <2>2
<1>10. Fresh(e2, q.viewer) /\ DOMAIN e2.values = Figures
  <2>1. \A g : CountedOf(e, q.viewer, g) => CountedOf(e2, q.viewer, g)
    BY <1>9 DEF CountedOf
  <2> QED
    BY <1>5, <1>8, <1>9, <2>1 DEF Fresh
<1>11. Asking(q2)
  <2>1. /\ q2 \in [phase : {"reading", "answered"}, viewer : Watchers, hit : BOOLEAN, entry : {e2}]
        /\ q2.entry = e2 /\ q2.viewer = q.viewer
    BY <1>4, <1>8
  <2> QED
    BY <1>10, <2>1 DEF Asking
<1>12. /\ TablesInv' /\ clock' = clock
       /\ \A d, u : Fresh(d, u) => Fresh(d, u)'
       /\ \A d : Asking(d) => Asking(d)'
  <2>1. UNCHANGED tables /\ clock' \in 1..MaxClock /\ clock <= clock'
    BY <1>5 DEF BoardInv
  <2> QED
    BY <1>5, <2>1, BoardStays
<1>13. \A v \in Watchers : cache'[v] = IF v = q.viewer THEN e2 ELSE cache[v]
  BY <1>5 DEF BoardInv
<1>14. DOMAIN cache' = Watchers /\ DOMAIN req' = Refreshes
  BY <1>5 DEF BoardInv
<1>15. \A s \in Refreshes : req'[s] = Board!Idle \/ Asking(req'[s])
  BY <1>5, <1>11 DEF BoardInv
<1> QED
  BY <1>9, <1>10, <1>12, <1>13, <1>14, <1>15 DEF BoardInv

\* Showing an answer forgets the request.
LEMMA ShowKeepsBoard ==
  ASSUME BoardInv, NEW r \in Refreshes, Board!Show(r)
  PROVE  BoardInv'
<1>1. req' = [req EXCEPT ![r] = Board!Idle] /\ UNCHANGED <<tables, clock, cache>>
  BY DEF Board!Show, Board!tables, tables
<1>2. /\ TablesInv' /\ clock' = clock /\ cache' = cache
      /\ \A d, u : Fresh(d, u) => Fresh(d, u)'
      /\ \A d : Asking(d) => Asking(d)'
  <2>1. UNCHANGED tables /\ clock' \in 1..MaxClock /\ clock <= clock'
    BY <1>1 DEF BoardInv
  <2> QED
    BY <1>1, <2>1, BoardStays
<1> QED
  BY <1>1, <1>2 DEF BoardInv, Board!Idle

\* Time only makes entries older.
LEMMA SecondKeepsBoard ==
  ASSUME BoardInv, Board!Second
  PROVE  BoardInv'
<1>1. /\ UNCHANGED <<tables, cache, req>> /\ clock' \in 1..MaxClock /\ clock <= clock'
  BY BoardConstants DEF Board!Second, Board!tables, tables, BoardInv
<1>2. /\ TablesInv'
      /\ \A d, u : Fresh(d, u) => Fresh(d, u)'
      /\ \A d : Asking(d) => Asking(d)'
  BY <1>1, BoardStays
<1> QED
  BY <1>1, <1>2 DEF BoardInv, Board!Idle, Board!Nothing

\* The loans a step writes; all of them when the day goes on.
Seen == IF today' # today \/ night' # night THEN Lent ELSE {l \in Lent : loans'[l] # loans[l]}

\* No collection is written without its loan.
LEMMA NothingSeen ==
  ASSUME TablesInv, Rep!Write \/ Rep!Tick, Seen = {}
  PROVE  today' = today /\ loans' = loans /\ collections' = collections
<1>1. Lent # {} /\ today' = today /\ night' = night /\ \A l \in Lent : loans'[l] = loans[l]
  BY BackOfficeAssumption DEF Seen, Rep!PortfolioAssumption
<1>2. loans \in [Lent -> LoanStates] /\ loans' \in [Lent -> LoanStates]
  <2>1. TablesInv'
    BY TablesKept
  <2> QED
    BY <2>1 DEF TablesInv, TablesTyped
<1>3. loans' = loans
  BY <1>1, <1>2
<1>4. \A l \in Lent : loans[l].paid \in Int
  BY <1>2 DEF LoanStates
<1>5. ASSUME NEW l \in Lent, Rep!Disburse(l) PROVE FALSE
  <2>1. loans[l].status = "approved" /\ loans'[l].status = "active"
    BY <1>2, <1>5 DEF Rep!Disburse, LoanStates
  <2> QED
    BY <1>3, <2>1
<1>6. ASSUME NEW l \in Lent, Rep!Collect(l) PROVE FALSE
  <2>1. loans'[l].paid = loans[l].paid + 1
    BY <1>2, <1>6 DEF Rep!Collect, LoanStates
  <2> QED
    BY <1>3, <1>4, <2>1
<1>7. ASSUME NEW c \in DOMAIN collections, Rep!ReverseCollection(c) PROVE FALSE
  <2>1. PICK l \in Lent : l = collections[c].loan
    BY ReceiptType
  <2>2. loans'[l].paid = loans[l].paid - 1
    BY <1>2, <1>7, <2>1 DEF Rep!ReverseCollection, LoanStates
  <2> QED
    BY <1>3, <1>4, <2>2
<1>8. ASSUME NEW l \in Lent, NEW o \in Officers, Rep!Reassign(l, o) PROVE collections' = collections
  BY <1>8 DEF Rep!Reassign
<1>9. Rep!Spend \/ Rep!Tick => collections' = collections
  BY DEF Rep!Spend, Rep!Tick
<1> QED
  BY <1>1, <1>3, <1>5, <1>6, <1>7, <1>8, <1>9 DEF Rep!Write

\* What was read of the loans a step does not write is still so.
LEMMA FreshMoves ==
  ASSUME BoardInv, Rep!Write \/ Rep!Tick, clock' = clock, NEW e, NEW u, Fresh(e, u),
         NEW e2, e2 = [e EXCEPT !.moved = @ \cup Seen]
  PROVE  Fresh(e2, u)' /\ e2.values = e.values /\ e2.expires = e.expires /\ e2.start = e.start
<1>1. /\ e2 \in [expires : Int, start : 0 .. clock, today : Int, values : {e2.values},
                moved : SUBSET Lent]
      /\ e2.values = e.values /\ e2.moved = e.moved \cup Seen /\ e2.today = e.today
      /\ e2.expires = e.expires /\ e2.start = e.start
  <2>1. e \in [expires : Int, start : 0 .. clock, today : Int, values : {e.values},
               moved : SUBSET Lent]
    BY DEF Fresh
  <2>2. Seen \in SUBSET Lent
    BY DEF Seen
  <2> QED
    BY <2>1, <2>2
<1>2. ASSUME NEW s PROVE Board!InStatus(u, s)' \ e2.moved = Board!InStatus(u, s) \ e2.moved
  <2>1. \A l \in Lent \ e2.moved : loans'[l] = loans[l]
    BY <1>1 DEF Seen
  <2>2. /\ Board!InStatus(u, s) = {l \in Lent : /\ (u = Manager \/ loans[l].officer = u)
                                                /\ loans[l].status \in s}
        /\ Board!InStatus(u, s)' = {l \in Lent : /\ (u = Manager \/ loans'[l].officer = u)
                                                 /\ loans'[l].status \in s}
    BY DEF Board!InStatus, Board!Book
  <2> QED
    BY <2>1, <2>2
<1>3. ASSUME NEW f \in DOMAIN e2.values \cap {"active", "overdue"}
      PROVE  CountedOf(e2, u, f)'
  <2>1. CountedOf(e, u, f)
    BY <1>1, <1>3 DEF Fresh
  <2>2. PICK A \in SUBSET Lent :
          /\ e.values[f] = Cardinality(A)
          /\ A \ e.moved = Board!InStatus(u, {f}) \ e.moved
    BY <2>1 DEF CountedOf
  <2>3. A \ e2.moved = Board!InStatus(u, {f})' \ e2.moved
    <3>1. A \ e2.moved = Board!InStatus(u, {f}) \ e2.moved
      BY <1>1, <2>2
    <3>2. Board!InStatus(u, {f})' \ e2.moved = Board!InStatus(u, {f}) \ e2.moved
      BY <1>2
    <3> QED
      BY <3>1, <3>2
  <2>4. e2.values[f] = Cardinality(A)
    BY <1>1, <2>2
  <2> QED
    BY <2>3, <2>4 DEF CountedOf
<1>4. ASSUME e2.moved = {}
      PROVE  /\ e2.today = today'
             /\ \A f \in DOMAIN e2.values : e2.values[f] = Board!Value(u, today, f)'
  <2>1. e.moved = {} /\ Seen = {}
    BY <1>1, <1>4
  <2>2. today' = today /\ loans' = loans /\ collections' = collections
    BY <2>1, NothingSeen DEF BoardInv
  <2>3. \A f : Board!Value(u, today, f)' = Board!Value(u, today, f)
    <3>1. Board!Book(u)' = Board!Book(u)
      BY <2>2 DEF Board!Book
    <3>2. \A s : Board!InStatus(u, s)' = Board!InStatus(u, s)
      BY <2>2, <3>1 DEF Board!InStatus
    <3>3. Board!CollectedOn(u, today)' = Board!CollectedOn(u, today)
      BY <2>2, <3>1 DEF Board!CollectedOn
    <3> QED
      BY <2>2, <3>1, <3>2, <3>3 DEF Board!Value, Board!Overdue
  <2> QED
    BY <1>1, <2>1, <2>2, <2>3 DEF Fresh
<1>5. e2.values \in [DOMAIN e2.values -> Nat] /\ DOMAIN e2.values \subseteq Figures
  BY <1>1 DEF Fresh
<1>6. Fresh(e2, u)'
  BY <1>1, <1>3, <1>4, <1>5 DEF Fresh
<1> QED
  BY <1>1, <1>6

\* A loan that is written meanwhile is noted by everything read before.
LEMMA BesideKeepsBoard ==
  ASSUME BoardInv, Board!Beside
  PROVE  BoardInv'
<1>1. /\ Rep!Write \/ Rep!Tick
      /\ clock' = clock
      /\ cache' = [v \in Watchers |-> IF cache[v] = Board!Nothing THEN Board!Nothing
                                      ELSE [cache[v] EXCEPT !.moved = @ \cup Seen]]
      /\ req' = [r \in Refreshes |-> IF req[r] = Board!Idle THEN Board!Idle
                                     ELSE [req[r] EXCEPT !.entry.moved = @ \cup Seen]]
  BY SameWriters DEF Board!Beside, Seen
<1>2. TablesInv'
  BY <1>1, TablesKept DEF BoardInv
<1>3. ASSUME NEW v \in Watchers
      PROVE  \E d : /\ d = cache'[v]
                    /\ d # Board!Nothing => Fresh(d, v)' /\ DOMAIN d.values = Figures
                    /\ d.expires <= d.start + Ttl
  <2>1. CASE cache[v] = Board!Nothing
    <3>1. cache'[v] = Board!Nothing
      BY <1>1, <2>1
    <3> QED
      BY <2>1, <3>1 DEF BoardInv
  <2>2. CASE cache[v] # Board!Nothing
    <3>1. PICK e : e = cache[v]
      OBVIOUS
    <3>2. PICK e2 : e2 = [e EXCEPT !.moved = @ \cup Seen]
      OBVIOUS
    <3>3. cache'[v] = e2
      BY <1>1, <2>2, <3>1, <3>2
    <3>4. Fresh(e, v) /\ DOMAIN e.values = Figures /\ e.expires <= e.start + Ttl
      BY <2>2, <3>1 DEF BoardInv
    <3>5. Fresh(e2, v)' /\ e2.values = e.values /\ e2.expires = e.expires /\ e2.start = e.start
      BY <1>1, <3>2, <3>4, FreshMoves
    <3> QED
      BY <3>3, <3>4, <3>5
  <2> QED
    BY <2>1, <2>2
<1>4. ASSUME NEW r \in Refreshes
      PROVE  \E d : d = req'[r] /\ (d = Board!Idle \/ Asking(d)')
  <2>1. CASE req[r] = Board!Idle
    BY <1>1, <2>1
  <2>2. CASE req[r] # Board!Idle
    <3>1. PICK q : q = req[r]
      OBVIOUS
    <3>2. PICK e : e = q.entry
      OBVIOUS
    <3>3. PICK e2 : e2 = [e EXCEPT !.moved = @ \cup Seen]
      OBVIOUS
    <3>4. PICK q2 : q2 = [q EXCEPT !.entry = e2]
      OBVIOUS
    <3>5. req'[r] = q2
      <4>1. req'[r] = [q EXCEPT !.entry.moved = q.entry.moved \cup Seen]
        BY <1>1, <2>2, <3>1
      <4> QED
        BY <3>2, <3>3, <3>4, <4>1
    <3>6. Asking(q)
      BY <2>2, <3>1 DEF BoardInv
    <3>7. /\ Fresh(e, q.viewer) /\ (q.phase = "answered" => DOMAIN e.values = Figures)
          /\ q \in [phase : {"reading", "answered"}, viewer : Watchers, hit : BOOLEAN, entry : {e}]
      BY <3>2, <3>6 DEF Asking
    <3>8. Fresh(e2, q.viewer)' /\ e2.values = e.values
      BY <1>1, <3>3, <3>7, FreshMoves
    <3>9. /\ q2 \in [phase : {"reading", "answered"}, viewer : Watchers, hit : BOOLEAN, entry : {e2}]
          /\ q2.entry = e2 /\ q2.viewer = q.viewer /\ q2.phase = q.phase
      BY <3>4, <3>7
    <3>10. Asking(q2)'
      BY <3>7, <3>8, <3>9 DEF Asking
    <3> QED
      BY <3>5, <3>10
  <2> QED
    BY <2>1, <2>2
<1>5. DOMAIN cache' = Watchers /\ DOMAIN req' = Refreshes
  BY <1>1
<1>6. clock' \in 1..MaxClock
  BY <1>1 DEF BoardInv
<1> QED
  BY <1>2, <1>3, <1>4, <1>5, <1>6 DEF BoardInv, Board!Nothing, Board!Idle

\* So every step of the dashboard keeps its invariant,
LEMMA BoardKept ==
  ASSUME BoardInv, Board!Next
  PROVE  BoardInv'
BY BesideKeepsBoard, SecondKeepsBoard, GetKeepsBoard, ReadKeepsBoard, AnswerKeepsBoard, ShowKeepsBoard
   DEF Board!Next

\* and so do the steps that leave the dashboard alone.
LEMMA BoardUnchanged ==
  ASSUME BoardInv, UNCHANGED <<tables, dashboardVars>>
  PROVE  BoardInv'
<1>1. UNCHANGED tables /\ clock' = clock /\ cache' = cache /\ req' = req
  BY DEF dashboardVars
<1>2. clock' \in 1..MaxClock /\ clock <= clock'
  BY <1>1 DEF BoardInv
<1>3. /\ TablesInv'
      /\ \A d, u : Fresh(d, u) => Fresh(d, u)'
      /\ \A d : Asking(d) => Asking(d)'
  BY <1>1, <1>2, BoardStays
<1> QED
  BY <1>1, <1>2, <1>3 DEF BoardInv, Board!Idle, Board!Nothing

\* A figure for a status is the number of some loans, of which those that were
\* not written in the meantime are the ones in that status.
LEMMA TwoCounts ==
  ASSUME NEW moved \in SUBSET Lent, NEW A \in SUBSET Lent, NEW B \in SUBSET Lent,
         NEW X \in SUBSET Lent, NEW Y \in SUBSET Lent,
         A \ moved = X \ moved, B \ moved = Y \ moved, X \cap Y = {}
  PROVE  /\ Cardinality(A) + Cardinality(B) >= Cardinality((X \cup Y) \ moved)
         /\ Cardinality(A) + Cardinality(B) <= Cardinality((X \cup Y) \ moved) + 2 * Cardinality(moved)
<1>1. \A S \in SUBSET Lent : IsFiniteSet(S) /\ Cardinality(S) \in Nat
  BY LoansFinite, FS_Subset, FS_CardinalityType
<1>2. \A S \in SUBSET Lent : Cardinality(S \ moved) = Cardinality(S) - Cardinality(S \cap moved)
  BY <1>1, FS_Difference
<1>3. \A S \in SUBSET Lent : Cardinality(S \cap moved) <= Cardinality(moved) /\ Cardinality(S \cap moved) \in Nat
  <2> TAKE S \in SUBSET Lent
  <2>1. S \cap moved \in SUBSET moved /\ S \cap moved \in SUBSET Lent
    OBVIOUS
  <2>2. IsFiniteSet(moved)
    BY <1>1
  <2>3. Cardinality(S \cap moved) <= Cardinality(moved)
    BY <2>1, <2>2, FS_Subset
  <2>4. Cardinality(S \cap moved) \in Nat
    BY <1>1, <2>1
  <2> QED
    BY <2>3, <2>4
<1>4. (X \cup Y) \ moved = (A \ moved) \cup (B \ moved) /\ (A \ moved) \cap (B \ moved) = {}
  OBVIOUS
<1>5. Cardinality((X \cup Y) \ moved) = Cardinality(A \ moved) + Cardinality(B \ moved)
  <2>0. A \ moved \in SUBSET Lent /\ B \ moved \in SUBSET Lent
    OBVIOUS
  <2>1. IsFiniteSet(A \ moved) /\ IsFiniteSet(B \ moved)
    BY <1>1, <2>0
  <2>2. Cardinality((A \ moved) \cup (B \ moved))
          = Cardinality(A \ moved) + Cardinality(B \ moved) - Cardinality((A \ moved) \cap (B \ moved))
    BY <2>1, FS_Union
  <2>3. Cardinality((X \cup Y) \ moved) = Cardinality((A \ moved) \cup (B \ moved))
    BY <1>4, Zenon
  <2>4. Cardinality((A \ moved) \cap (B \ moved)) = 0
    BY <1>4, FS_EmptySet, Zenon
  <2>5. PICK a, b \in Nat : a = Cardinality(A \ moved) /\ b = Cardinality(B \ moved)
    BY <1>1, <2>0
  <2>6. Cardinality((X \cup Y) \ moved) = a + b - 0
    BY <2>2, <2>3, <2>4, <2>5, Zenon
  <2> QED
    BY <2>5, <2>6
<1>6. PICK a, b, c, d, m \in Nat :
        /\ a = Cardinality(A) /\ b = Cardinality(B) /\ m = Cardinality(moved)
        /\ c = Cardinality(A \cap moved) /\ d = Cardinality(B \cap moved) /\ c <= m /\ d <= m
  BY <1>1, <1>3
<1>7. Cardinality((X \cup Y) \ moved) = (a - c) + (b - d)
  BY <1>2, <1>5, <1>6
<1> QED
  BY <1>6, <1>7

\* What the invariant says of an answer, in the words of the dashboard.
LEMMA FiguresCount ==
  BoardInv => Board!TypeOK /\ Board!FiguresAreTheViewersOwn /\ Board!LoansCountedOnceUnlessMoved
<1> SUFFICES ASSUME BoardInv
             PROVE Board!TypeOK /\ Board!FiguresAreTheViewersOwn /\ Board!LoansCountedOnceUnlessMoved
  OBVIOUS
<1>1. ASSUME NEW r \in Refreshes, req[r] # Board!Idle
      PROVE  /\ req[r].viewer \in Watchers /\ Fresh(req[r].entry, req[r].viewer)
             /\ req[r].phase = "answered" => DOMAIN req[r].entry.values = Figures
  BY <1>1 DEF BoardInv, Asking
<1>2. \A r \in Refreshes : Board!Answered(r) => req[r] # Board!Idle
  BY DEF Board!Answered, Board!Idle
<1>3. ASSUME NEW e, NEW v, Fresh(e, v)
      PROVE  /\ e.start \in 0..clock /\ e.moved \in SUBSET Lent
             /\ \A f \in DOMAIN e.values : e.values[f] \in Nat
             /\ e.moved = {} => \A f \in DOMAIN e.values : e.values[f] = Board!Value(v, today, f)
  BY <1>3 DEF Fresh
<1>4. Board!TypeOK
  BY <1>1, <1>3 DEF Board!TypeOK, BoardInv
<1>5. Board!FiguresAreTheViewersOwn
  <2> SUFFICES ASSUME NEW r \in Refreshes, Board!Answered(r), req[r].entry.moved = {}
               PROVE  \A f \in Figures : req[r].entry.values[f] = Board!Value(req[r].viewer, today, f)
    BY DEF Board!FiguresAreTheViewersOwn
  <2> QED
    BY <1>1, <1>2, <1>3 DEF Board!Answered
<1>6. Board!LoansCountedOnceUnlessMoved
  <2> SUFFICES ASSUME NEW r \in Refreshes, Board!Answered(r)
               PROVE  LET values == req[r].entry.values
                          moved == req[r].entry.moved
                          counted == values["active"] + values["overdue"]
                          still == Board!InStatus(req[r].viewer, Board!Live) \ moved
                      IN  /\ counted >= Board!Cardinality(still)
                          /\ counted <= Board!Cardinality(still) + 2 * Board!Cardinality(moved)
    BY DEF Board!LoansCountedOnceUnlessMoved
  <2>1. PICK e, v : e = req[r].entry /\ v = req[r].viewer
    OBVIOUS
  <2>2. Fresh(e, v) /\ DOMAIN e.values = Figures
    BY <1>1, <1>2, <2>1 DEF Board!Answered
  <2>3. e.moved \in SUBSET Lent
    BY <1>3, <2>2
  <2>4. CountedOf(e, v, "active") /\ CountedOf(e, v, "overdue")
    BY <2>2, BoardConstants DEF Fresh
  <2>5. PICK X, Y : X = Board!InStatus(v, {"active"}) /\ Y = Board!InStatus(v, {"overdue"})
    OBVIOUS
  <2>6. PICK A \in SUBSET Lent : e.values["active"] = Cardinality(A) /\ A \ e.moved = X \ e.moved
    BY <2>4, <2>5 DEF CountedOf
  <2>7. PICK B \in SUBSET Lent : e.values["overdue"] = Cardinality(B) /\ B \ e.moved = Y \ e.moved
    BY <2>4, <2>5 DEF CountedOf
  <2>8. /\ X \in SUBSET Lent /\ Y \in SUBSET Lent /\ X \cap Y = {}
        /\ X \cup Y = Board!InStatus(v, Board!Live)
    BY <2>5 DEF Board!InStatus, Board!Book, Board!Live
  <2>9. /\ Cardinality(A) + Cardinality(B) >= Cardinality((X \cup Y) \ e.moved)
        /\ Cardinality(A) + Cardinality(B) <= Cardinality((X \cup Y) \ e.moved) + 2 * Cardinality(e.moved)
    BY <2>3, <2>6, <2>7, <2>8, TwoCounts
  <2> QED
    BY <2>1, <2>6, <2>7, <2>8, <2>9, BoardSize
<1> QED
  BY <1>4, <1>5, <1>6

\* The invariant of the dashboard holds where the dashboard is looked at.
BoardHolds == screen = "dashboard" => BoardInv

\* In every behaviour, as long as the dashboard is looked at.
LEMMA BoardHoldsAlways == BackOfficeSpec => []BoardHolds
<1>1. BackOfficeInit => BoardHolds
  <2> SUFFICES ASSUME BackOfficeInit PROVE BoardInv
    BY DEF BoardHolds
  <2>1. Rep!Init /\ Board!InitDashboard
    BY DEF BackOfficeInit, Rep!InitReports
  <2> QED
    BY <2>1, TablesStart, BoardStart
<1>2. BoardHolds /\ [BackOfficeNext]_backOfficeVars => BoardHolds'
  <2> SUFFICES ASSUME BoardHolds, [BackOfficeNext]_backOfficeVars, screen' = "dashboard"
               PROVE  BoardInv'
    BY DEF BoardHolds
  <2>1. CASE BackOfficeNext
    <3>1. screen = "dashboard" /\ Board!Next
      BY <2>1 DEF BackOfficeNext
    <3> QED
      BY <3>1, BoardKept DEF BoardHolds
  <2>2. CASE UNCHANGED backOfficeVars
    <3>1. screen = "dashboard" /\ UNCHANGED <<tables, dashboardVars>>
      BY <2>2 DEF backOfficeVars, readingVars
    <3> QED
      BY <3>1, BoardUnchanged DEF BoardHolds
  <2> QED
    BY <2>1, <2>2
<1> QED
  BY <1>1, <1>2, PTL DEF BackOfficeSpec

-----------------------------------------------------------------------------
(* The reports. *)

AllLoans == [byLoan |-> Lent, byCustomer |-> Lent]

\* Rows of the daily report are collections.
ReceiptRows == {Rep!Row(i, collections[i].amount) : i \in DOMAIN collections}

\* The report the tables give now to somebody who may see everything.
Asked(d) == [type |-> d.type, scope |-> AllLoans, dates |-> d.dates, filter |-> d.filter]
Now(d) ==
  CASE d.type = "daily-collection" ->
         Rep!DailyCollectionReport(Rep!DailyCollections(AllLoans, d.dates))
    [] d.type = "dpd-aging" -> Rep!DpdAgingReport(Rep!LoanRows(Rep!DpdAging(AllLoans)))
    [] OTHER -> Rep!Generated(Asked(d))

DeskTyped(d) ==
  /\ d \in [phase : {"scope", "rows", "lines", "shown", "saved", "refused"}, user : Readers,
            type : Types, dates : [given : BOOLEAN, start : Int, end : Int],
            filter : Rep!EmiFilters, format : {"page", "pdf", "xlsx"},
            scope : [byLoan : SUBSET Lent, byCustomer : SUBSET Lent], rows : {d.rows},
            shown : {d.shown}, file : {d.file}]
  /\ Rep!IsReport(d.shown) /\ Rep!IsReport(d.file)
  /\ d.phase = "shown" => d.format = "page"
  /\ d.format # "page" => d.user = Manager

\* A loan is of the user's customer, or its customer was reassigned.
Theirs(user, l) == l \in Lent /\ (loans[l].officer = user \/ l \in reassigned)

ScopeFits(d) ==
  /\ d.user \in Officers => \A l \in d.scope.byCustomer : Theirs(d.user, l)
  /\ d.user = Manager => d.scope = AllLoans

RowsFit(d) ==
  /\ d.type \in {"daily-collection", "dpd-aging"}
  /\ d.type = "daily-collection" =>
       /\ d.rows \subseteq ReceiptRows
       /\ d.user \in Officers => \A row \in d.rows : Theirs(d.user, collections[row.id].loan)
       /\ d.user = Manager /\ ~changed => d.rows = Rep!DailyCollections(AllLoans, d.dates)
  /\ d.type = "dpd-aging" =>
       /\ \E ls \in SUBSET Lent, f \in [Lent -> Int] : d.rows = {Rep!Row(l, f[l]) : l \in ls}
       /\ d.user = Manager /\ ~changed => d.rows = Rep!LoanRows(Rep!DpdAging(AllLoans))

\* What the properties say of the page, of a report it may show.
Tells(d, r) ==
  /\ d.type = "daily-collection" =>
       /\ r.rows \subseteq ReceiptRows
       /\ (\A row \in r.rows : row.amount > 0) => r.total = Rep!TotalOf(r.rows)
  /\ d.type \in {"trial-balance", "balance-sheet"} => r.total = r.other
  /\ d.user \in Officers
       /\ d.type \in {"daily-collection", "overdue", "loan-portfolio", "emi-schedule"}
       => \A row \in r.rows : Theirs(d.user, Rep!LoanOf(d.type, row.id))

DeskFits(d) ==
  /\ DeskTyped(d)
  /\ d.phase \in {"rows", "lines"} => ScopeFits(d)
  /\ d.phase = "lines" => RowsFit(d)
  /\ d.phase = "shown" => Tells(d, d.shown)
  /\ d.user = Manager /\ ~changed /\ (d.phase \in {"shown", "saved", "refused"} \/ d.format # "page")
       => d.shown = Now(d)
  /\ d.phase = "saved" /\ Rep!Shape(d.type) = "array" /\ ~changed => d.file = d.shown

DeskInv ==
  /\ TablesInv
  /\ (desk = Rep!Closed /\ reassigned = {} /\ ~changed) \/ DeskFits(desk)

\* The sum of integers over a set of rows is an integer, and so many times two
\* where every row has two.
LEMMA RowsAddUp ==
  ASSUME NEW rows, IsFiniteSet(rows), NEW f, \A r \in rows : f[r] \in Int
  PROVE  /\ Rep!SumOf(f, rows) \in Int
         /\ (\A r \in rows : f[r] = 2) => Rep!SumOf(f, rows) = 2 * Cardinality(rows)
<1>1. PICK n \in Nat : n = Cardinality(rows)
  BY FS_CardinalityType
<1>2. \E s \in [1..n -> rows] : Rep!IsInjective(s)
  <2>1. PICK m \in Nat : ExistsBijection(1..m, rows)
    BY FS_NatBijection
  <2>2. m = n
    BY <1>1, <2>1, FS_CountingElements
  <2>3. PICK s : s \in Bijection(1..n, rows)
    BY <2>1, <2>2 DEF ExistsBijection
  <2>4. s \in [1..n -> rows] /\ Rep!IsInjective(s)
    BY <2>3 DEF Bijection, Injection, IsInjective, Rep!IsInjective
  <2> QED
    BY <2>4
<1>3. PICK list : list = Rep!SetToSeq(rows)
  OBVIOUS
<1>4. list \in [1..n -> rows]
  BY <1>1, <1>2, <1>3, RepSize DEF Rep!SetToSeq
<1>5. PICK g : g = [i \in 1..n |-> f[list[i]]]
  OBVIOUS
<1>6. g \in [1..n -> Int]
  BY <1>4, <1>5
<1>7. Rep!SumOf(f, rows) = Total(n, g)
  BY <1>1, <1>3, <1>5, RepSize, RepTotal DEF Rep!SumOf
<1>8. ASSUME \A r \in rows : f[r] = 2 PROVE Total(n, g) = 2 * n
  <2> DEFINE s == [k \in 0..n |-> 2 * k]
  <2>1. \A k \in 1..n : g[k] = 2
    BY <1>4, <1>5, <1>8
  <2>2. s[0] = 0 /\ s[n] = 2 * n /\ \A k \in 1..n : s[k] = s[k - 1] + g[k]
    BY <2>1
  <2> HIDE DEF s
  <2>3. Total(n, g) = s[n]
    BY <1>6, <2>2, TotalIs
  <2> QED
    BY <2>2, <2>3
<1> QED
  BY <1>1, <1>6, <1>7, <1>8, TotalType

\* What some lines debit and credit to some accounts are integers.
LEMMA LinesAddUp ==
  ASSUME NEW lines \in Seq(PostedLines), NEW named
  PROVE  Rep!Debited(named, lines) \in Int /\ Rep!Credited(named, lines) \in Int
<1>1. PICK n \in Nat : n = Len(lines) /\ DOMAIN lines = 1..n
  OBVIOUS
<1>2. \A i \in 1..n : lines[i].debit \in Int /\ lines[i].credit \in Int
  <2> TAKE i \in 1..n
  <2>1. lines[i] \in PostedLines
    BY <1>1
  <2> QED
    BY <2>1 DEF PostedLines
<1>3. /\ [i \in 1..n |-> IF lines[i].account \in named THEN lines[i].debit ELSE 0] \in [1..n -> Int]
      /\ [i \in 1..n |-> IF lines[i].account \in named THEN lines[i].credit ELSE 0] \in [1..n -> Int]
  BY <1>2
<1> QED
  BY <1>1, <1>3, TotalType, RepTotal DEF Rep!Debited, Rep!Credited

\* Assets, income and expenses are all the accounts there are.
LEMMA CategoriesAddUp ==
  ASSUME NEW lines \in Seq(PostedLines)
  PROVE  /\ Rep!Debited(Rep!Accounts, lines)
              = Rep!Debited(Rep!OfCategory("asset"), lines) + Rep!Debited(Rep!OfCategory("income"), lines)
                  + Rep!Debited(Rep!OfCategory("expense"), lines)
         /\ Rep!Credited(Rep!Accounts, lines)
              = Rep!Credited(Rep!OfCategory("asset"), lines) + Rep!Credited(Rep!OfCategory("income"), lines)
                  + Rep!Credited(Rep!OfCategory("expense"), lines)
<1>1. PICK n \in Nat : n = Len(lines) /\ DOMAIN lines = 1..n
  OBVIOUS
<1>2. \A i \in 1..n : /\ lines[i].account \in Rep!Accounts
                      /\ lines[i].debit \in Int /\ lines[i].credit \in Int
  <2> TAKE i \in 1..n
  <2>1. lines[i] \in PostedLines
    BY <1>1
  <2> QED
    BY <2>1 DEF PostedLines
<1>3. PICK P, Q, R : P = Rep!OfCategory("asset") /\ Q = Rep!OfCategory("income") /\ R = Rep!OfCategory("expense")
  OBVIOUS
<1>4. \A a \in Rep!Accounts : \/ a \in P /\ a \notin Q /\ a \notin R
                              \/ a \notin P /\ a \in Q /\ a \notin R
                              \/ a \notin P /\ a \notin Q /\ a \in R
  BY <1>3 DEF Rep!OfCategory, Rep!Accounts, Rep!Category
<1> DEFINE D(A) == [i \in 1..n |-> IF lines[i].account \in A THEN lines[i].debit ELSE 0]
           C(A) == [i \in 1..n |-> IF lines[i].account \in A THEN lines[i].credit ELSE 0]
<1>5. \A A : Rep!Debited(A, lines) = Total(n, D(A)) /\ Rep!Credited(A, lines) = Total(n, C(A))
  BY <1>1, RepTotal DEF Rep!Debited, Rep!Credited
<1>6. \A A : D(A) \in [1..n -> Int] /\ C(A) \in [1..n -> Int]
  BY <1>2
<1>7. \A i \in 1..n : /\ D(Rep!Accounts)[i] = (D(P)[i] + D(Q)[i]) + D(R)[i]
                      /\ C(Rep!Accounts)[i] = (C(P)[i] + C(Q)[i]) + C(R)[i]
  BY <1>2, <1>4
<1> HIDE DEF D, C
<1>8. /\ Total(n, D(Rep!Accounts)) = Total(n, D(P)) + Total(n, D(Q)) + Total(n, D(R))
      /\ Total(n, C(Rep!Accounts)) = Total(n, C(P)) + Total(n, C(Q)) + Total(n, C(R))
  <2>1. Total(n, D(Rep!Accounts)) = Total(n, D(P)) + Total(n, D(Q)) + Total(n, D(R))
    <3>1. PICK x \in [1..n -> Int], f \in [1..n -> Int], g \in [1..n -> Int], h \in [1..n -> Int] :
            x = D(Rep!Accounts) /\ f = D(P) /\ g = D(Q) /\ h = D(R)
      BY <1>6
    <3>2. \A i \in 1..n : x[i] = (f[i] + g[i]) + h[i]
      BY <1>7, <3>1
    <3>3. Total(n, x) = Total(n, f) + Total(n, g) + Total(n, h)
      <4>1. PICK y : y = [i \in 1..n |-> f[i] + g[i]]
        OBVIOUS
      <4>2. y \in [1..n -> Int] /\ \A i \in 1..n : y[i] = f[i] + g[i]
        BY <4>1
      <4>3. Total(n, y) = Total(n, f) + Total(n, g)
        BY <4>2, TotalSum
      <4>4. \A i \in 1..n : x[i] = y[i] + h[i]
        BY <3>2, <4>2
      <4>5. Total(n, x) = Total(n, y) + Total(n, h)
        BY <4>2, <4>4, TotalSum
      <4> QED
        BY <4>3, <4>5
    <3> QED
      BY <3>1, <3>3
  <2>2. Total(n, C(Rep!Accounts)) = Total(n, C(P)) + Total(n, C(Q)) + Total(n, C(R))
    <3>1. PICK x \in [1..n -> Int], f \in [1..n -> Int], g \in [1..n -> Int], h \in [1..n -> Int] :
            x = C(Rep!Accounts) /\ f = C(P) /\ g = C(Q) /\ h = C(R)
      BY <1>6
    <3>2. \A i \in 1..n : x[i] = (f[i] + g[i]) + h[i]
      BY <1>7, <3>1
    <3>3. Total(n, x) = Total(n, f) + Total(n, g) + Total(n, h)
      <4>1. PICK y : y = [i \in 1..n |-> f[i] + g[i]]
        OBVIOUS
      <4>2. y \in [1..n -> Int] /\ \A i \in 1..n : y[i] = f[i] + g[i]
        BY <4>1
      <4>3. Total(n, y) = Total(n, f) + Total(n, g)
        BY <4>2, TotalSum
      <4>4. \A i \in 1..n : x[i] = y[i] + h[i]
        BY <3>2, <4>2
      <4>5. Total(n, x) = Total(n, y) + Total(n, h)
        BY <4>2, <4>4, TotalSum
      <4> QED
        BY <4>3, <4>5
    <3> QED
      BY <3>1, <3>3
  <2> QED
    BY <2>1, <2>2
<1> QED
  BY <1>3, <1>5, <1>8

\* The lines of an entry.
LEMMA PostingLines ==
  ASSUME TablesInv
  PROVE  /\ Len(entries) \in Nat /\ DOMAIN entries = 1..Len(entries)
         /\ \A e \in 1..Len(entries) : entries[e].lines \in Seq(PostedLines)
<1>1. entries \in Seq(Postings)
  BY DEF TablesInv, TablesTyped
<1>2. PICK n \in Nat : n = Len(entries) /\ DOMAIN entries = 1..n
  BY <1>1
<1>3. \A e \in 1..n : entries[e] \in Postings
  BY <1>1, <1>2
<1>4. \A e \in 1..n : entries[e].lines \in Seq(PostedLines)
  BY <1>3 DEF Postings
<1> QED
  BY <1>2, <1>4

\* What some entries debit and credit to some accounts are integers.
LEMMA EntriesAddUp ==
  ASSUME TablesInv, NEW E, NEW named
  PROVE  /\ Rep!Debits(named, E) \in Int /\ Rep!Credits(named, E) \in Int
         /\ Rep!Net(named, E) \in Int
<1>1. PICK n \in Nat : n = Len(entries) /\ DOMAIN entries = 1..n
  BY PostingLines
<1>2. \A e \in 1..n : /\ Rep!Debited(named, entries[e].lines) \in Int
                      /\ Rep!Credited(named, entries[e].lines) \in Int
  BY <1>1, PostingLines, LinesAddUp
<1>3. /\ [e \in 1..n |-> IF e \in E THEN Rep!Debited(named, entries[e].lines) ELSE 0] \in [1..n -> Int]
      /\ [e \in 1..n |-> IF e \in E THEN Rep!Credited(named, entries[e].lines) ELSE 0] \in [1..n -> Int]
  BY <1>2
<1>4. Rep!Debits(named, E) \in Int /\ Rep!Credits(named, E) \in Int
  BY <1>1, <1>3, TotalType, RepTotal DEF Rep!Debits, Rep!Credits
<1> QED
  BY <1>4 DEF Rep!Net

\* Over all the accounts, entries debit what they credit.
LEMMA EntriesBalance ==
  ASSUME TablesInv, NEW E
  PROVE  /\ Rep!Debits(Rep!Accounts, E) = Rep!Credits(Rep!Accounts, E)
         /\ Rep!Net(Rep!OfCategory("asset"), E)
              = 0 - Rep!Net(Rep!OfCategory("income"), E) - Rep!Net(Rep!OfCategory("expense"), E)
<1>1. PICK n \in Nat : n = Len(entries) /\ DOMAIN entries = 1..n
  BY PostingLines
<1> DEFINE D(A) == [e \in 1..n |-> IF e \in E THEN Rep!Debited(A, entries[e].lines) ELSE 0]
           C(A) == [e \in 1..n |-> IF e \in E THEN Rep!Credited(A, entries[e].lines) ELSE 0]
<1>2. \A A : Rep!Debits(A, E) = Total(n, D(A)) /\ Rep!Credits(A, E) = Total(n, C(A))
  BY <1>1, RepTotal DEF Rep!Debits, Rep!Credits
<1>3. \A A : D(A) \in [1..n -> Int] /\ C(A) \in [1..n -> Int]
  <2> TAKE A
  <2>1. \A e \in 1..n : /\ Rep!Debited(A, entries[e].lines) \in Int
                        /\ Rep!Credited(A, entries[e].lines) \in Int
    BY <1>1, PostingLines, LinesAddUp
  <2> QED
    BY <2>1
<1>4. D(Rep!Accounts) = C(Rep!Accounts)
  BY <1>1 DEF TablesInv, PostingsBalance
<1>5. PICK P, Q, R : P = Rep!OfCategory("asset") /\ Q = Rep!OfCategory("income") /\ R = Rep!OfCategory("expense")
  OBVIOUS
<1>6. \A e \in 1..n : /\ D(Rep!Accounts)[e] = (D(P)[e] + D(Q)[e]) + D(R)[e]
                      /\ C(Rep!Accounts)[e] = (C(P)[e] + C(Q)[e]) + C(R)[e]
  <2> TAKE e \in 1..n
  <2>1. PICK lines \in Seq(PostedLines) : lines = entries[e].lines
    BY <1>1, PostingLines
  <2>2. /\ Rep!Debited(Rep!Accounts, lines)
             = Rep!Debited(P, lines) + Rep!Debited(Q, lines) + Rep!Debited(R, lines)
        /\ Rep!Credited(Rep!Accounts, lines)
             = Rep!Credited(P, lines) + Rep!Credited(Q, lines) + Rep!Credited(R, lines)
    BY <1>5, CategoriesAddUp
  <2>3. CASE e \in E
    BY <2>1, <2>2, <2>3
  <2>4. CASE e \notin E
    BY <2>4
  <2> QED
    BY <2>3, <2>4
<1> HIDE DEF D, C
<1>7. Total(n, D(Rep!Accounts)) = Total(n, D(P)) + Total(n, D(Q)) + Total(n, D(R))
  <3>1. PICK x \in [1..n -> Int], f \in [1..n -> Int], g \in [1..n -> Int], h \in [1..n -> Int] :
          x = D(Rep!Accounts) /\ f = D(P) /\ g = D(Q) /\ h = D(R)
    BY <1>3
  <3>2. \A i \in 1..n : x[i] = (f[i] + g[i]) + h[i]
    BY <1>6, <3>1
  <3>3. PICK y : y = [i \in 1..n |-> f[i] + g[i]]
    OBVIOUS
  <3>4. y \in [1..n -> Int] /\ \A i \in 1..n : y[i] = f[i] + g[i]
    BY <3>3
  <3>5. Total(n, y) = Total(n, f) + Total(n, g)
    BY <3>4, TotalSum
  <3>6. \A i \in 1..n : x[i] = y[i] + h[i]
    BY <3>2, <3>4
  <3>7. Total(n, x) = Total(n, y) + Total(n, h)
    BY <3>4, <3>6, TotalSum
  <3> QED
    BY <3>1, <3>5, <3>7
<1>8. Total(n, C(Rep!Accounts)) = Total(n, C(P)) + Total(n, C(Q)) + Total(n, C(R))
  <3>1. PICK x \in [1..n -> Int], f \in [1..n -> Int], g \in [1..n -> Int], h \in [1..n -> Int] :
          x = C(Rep!Accounts) /\ f = C(P) /\ g = C(Q) /\ h = C(R)
    BY <1>3
  <3>2. \A i \in 1..n : x[i] = (f[i] + g[i]) + h[i]
    BY <1>6, <3>1
  <3>3. PICK y : y = [i \in 1..n |-> f[i] + g[i]]
    OBVIOUS
  <3>4. y \in [1..n -> Int] /\ \A i \in 1..n : y[i] = f[i] + g[i]
    BY <3>3
  <3>5. Total(n, y) = Total(n, f) + Total(n, g)
    BY <3>4, TotalSum
  <3>6. \A i \in 1..n : x[i] = y[i] + h[i]
    BY <3>2, <3>4
  <3>7. Total(n, x) = Total(n, y) + Total(n, h)
    BY <3>4, <3>6, TotalSum
  <3> QED
    BY <3>1, <3>5, <3>7
<1>9. PICK dp, dq, dr, cp, cq, cr \in Int :
        /\ dp = Total(n, D(P)) /\ dq = Total(n, D(Q)) /\ dr = Total(n, D(R))
        /\ cp = Total(n, C(P)) /\ cq = Total(n, C(Q)) /\ cr = Total(n, C(R))
  BY <1>3, TotalType
<1>10. dp + dq + dr = cp + cq + cr
  BY <1>4, <1>7, <1>8, <1>9
<1>11. /\ Rep!Net(P, E) = dp - cp /\ Rep!Net(Q, E) = dq - cq /\ Rep!Net(R, E) = dr - cr
  BY <1>2, <1>9 DEF Rep!Net
<1> QED
  BY <1>2, <1>4, <1>5, <1>10, <1>11

\* Entries of payments debit two each.
LEMMA ReceiptEntries ==
  ASSUME TablesInv, NEW E \in SUBSET DOMAIN entries,
         \A e \in E : Rep!Debited(Rep!Accounts, entries[e].lines) = 2
  PROVE  Rep!Debits(Rep!Accounts, E) = 2 * Cardinality(E)
<1>1. PICK n \in Nat : n = Len(entries) /\ DOMAIN entries = 1..n
  BY PostingLines
<1>2. PICK g : g = [e \in 1..n |-> IF e \in E THEN Rep!Debited(Rep!Accounts, entries[e].lines) ELSE 0]
  OBVIOUS
<1>3. g \in [1..n -> Int] /\ \A e \in 1..n : g[e] = IF e \in E THEN 2 ELSE 0
  BY <1>2
<1>4. Rep!Debits(Rep!Accounts, E) = Total(n, g)
  BY <1>1, <1>2, RepTotal DEF Rep!Debits
<1> DEFINE upTo(k) == E \cap 1..k
           s == [k \in 0..n |-> 2 * Cardinality(upTo(k))]
<1>5. \A k \in 0..n : IsFiniteSet(upTo(k)) /\ Cardinality(upTo(k)) \in Nat
  <2> TAKE k \in 0..n
  <2>1. IsFiniteSet(1..k) /\ upTo(k) \in SUBSET (1..k)
    BY FS_Interval
  <2> QED
    BY <2>1, FS_Subset, FS_CardinalityType
<1>6. upTo(0) = {} /\ upTo(n) = E
  BY <1>1
<1>7. ASSUME NEW k \in 1..n
      PROVE  s[k] = s[k - 1] + g[k]
  <2>1. k - 1 \in 0..n /\ k \in 0..n
    OBVIOUS
  <2>2. s[k] = 2 * Cardinality(upTo(k)) /\ s[k - 1] = 2 * Cardinality(upTo(k - 1))
    BY <2>1
  <2>3. PICK a \in Nat : a = Cardinality(upTo(k - 1)) /\ IsFiniteSet(upTo(k - 1))
    BY <1>5, <2>1
  <2>4. CASE k \in E
    <3>1. upTo(k) = upTo(k - 1) \cup {k} /\ k \notin upTo(k - 1)
      BY <2>4
    <3>2. Cardinality(upTo(k)) = a + 1
      BY <2>3, <3>1, FS_AddElement
    <3> QED
      BY <1>3, <2>2, <2>3, <2>4, <3>2
  <2>5. CASE k \notin E
    <3>1. upTo(k) = upTo(k - 1)
      BY <2>5
    <3>2. Cardinality(upTo(k)) = a
      BY <2>3, <3>1, Zenon
    <3>3. g[k] = 0
      BY <1>3, <2>5
    <3>4. s[k] = 2 * a /\ s[k - 1] = 2 * a
      BY <2>2, <2>3, <3>2, Zenon
    <3> HIDE DEF s
    <3> QED
      BY <3>3, <3>4
  <2> QED
    BY <2>4, <2>5
<1>8. s[0] = 0 /\ s[n] = 2 * Cardinality(E)
  <2>1. Cardinality(upTo(0)) = 0
    BY <1>6, FS_EmptySet
  <2> QED
    BY <1>6, <2>1
<1> HIDE DEF s, upTo
<1>9. Total(n, g) = s[n]
  BY <1>3, <1>7, <1>8, TotalIs
<1> QED
  BY <1>4, <1>8, <1>9

\* What a function makes of a finite set is a finite set.
LEMMA FiniteImage ==
  ASSUME NEW S, IsFiniteSet(S), NEW g
  PROVE  IsFiniteSet({g[x] : x \in S})
<1>1. PICK T : T = {g[x] : x \in S}
  OBVIOUS
<1>2. PICK h : h = [x \in S |-> g[x]]
  OBVIOUS
<1>3. h \in Surjection(S, T)
  BY <1>1, <1>2 DEF Surjection
<1> QED
  BY <1>1, <1>3, FS_Surjection

\* Rows with an integer each.
LEMMA RowsType ==
  ASSUME NEW S, IsFiniteSet(S), NEW f, \A x \in S : f[x] \in Int
  PROVE  LET rows == {Rep!Row(x, f[x]) : x \in S}
         IN  /\ IsFiniteSet(rows)
             /\ \A row \in rows : row.id \in S /\ row.amount = f[row.id] /\ row.amount \in Int
<1>1. PICK g : g = [x \in S |-> Rep!Row(x, f[x])]
  OBVIOUS
<1>2. {Rep!Row(x, f[x]) : x \in S} = {g[x] : x \in S}
  BY <1>1
<1>3. IsFiniteSet({Rep!Row(x, f[x]) : x \in S})
  BY <1>2, FiniteImage
<1> QED
  BY <1>3 DEF Rep!Row

\* The sum of such rows.
LEMMA TotalOfType ==
  ASSUME NEW rows, IsFiniteSet(rows), \A row \in rows : row.amount \in Int
  PROVE  /\ Rep!TotalOf(rows) \in Int
         /\ (\A row \in rows : row.amount = 2) => Rep!TotalOf(rows) = 2 * Cardinality(rows)
<1>1. PICK f : f = [row \in rows |-> row.amount]
  OBVIOUS
<1>2. \A row \in rows : f[row] = row.amount
  BY <1>1
<1>3. Rep!TotalOf(rows) = Rep!SumOf(f, rows)
  BY <1>1 DEF Rep!TotalOf
<1>4. \A row \in rows : f[row] \in Int
  BY <1>2
<1> QED
  BY <1>2, <1>3, <1>4, RowsAddUp

\* A report of such rows.
LEMMA ReportType ==
  ASSUME NEW rows, IsFiniteSet(rows), \A row \in rows : row.amount \in Int,
         NEW x \in Int, NEW y \in Int
  PROVE  LET r == Rep!Report(rows, x, y)
         IN  Rep!IsReport(r) /\ r.rows = rows /\ r.total = x /\ r.other = y
<1>1. Rep!Cardinality(rows) \in Nat
  BY RepSize, FS_CardinalityType
<1> QED
  BY <1>1 DEF Rep!IsReport, Rep!Report

\* Rows of loans.
LEMMA LoanRowsType ==
  ASSUME TablesInv, NEW ls \in SUBSET Lent
  PROVE  /\ IsFiniteSet(Rep!LoanRows(ls))
         /\ \A row \in Rep!LoanRows(ls) : row.id \in ls /\ row.amount \in Int
<1>1. PICK f : f = [l \in Lent |-> loans[l].cached]
  OBVIOUS
<1>2. \A l \in ls : f[l] = loans[l].cached /\ f[l] \in Int
  <2> TAKE l \in ls
  <2>1. loans[l] \in LoanStates
    BY DEF TablesInv, TablesTyped
  <2> QED
    BY <1>1, <2>1 DEF LoanStates
<1>3. IsFiniteSet(ls)
  BY LoansFinite, FS_Subset
<1>4. Rep!LoanRows(ls) = {Rep!Row(l, f[l]) : l \in ls}
  BY <1>2 DEF Rep!LoanRows
<1>5. /\ IsFiniteSet({Rep!Row(l, f[l]) : l \in ls})
      /\ \A row \in {Rep!Row(l, f[l]) : l \in ls} : row.id \in ls /\ row.amount = f[row.id] /\ row.amount \in Int
  BY <1>2, <1>3, RowsType
<1> QED
  BY <1>4, <1>5

\* Rows of accounts.
LEMMA BalancesType ==
  ASSUME TablesInv, NEW E, NEW named
  PROVE  /\ IsFiniteSet(Rep!Balances(named, E))
         /\ \A row \in Rep!Balances(named, E) : row.amount \in Int
<1>1. PICK S : S = Rep!AccountsOf(E) \cap named
  OBVIOUS
<1>2. IsFiniteSet(S)
  <2>1. S \in SUBSET Rep!Accounts
    BY <1>1 DEF Rep!AccountsOf
  <2>2. Rep!Accounts = ({"cash"} \cup {"receivable"}) \cup ({"interest"} \cup {"rent"})
    BY DEF Rep!Accounts
  <2>3. IsFiniteSet(Rep!Accounts)
    BY <2>2, FS_Singleton, FS_Union
  <2> QED
    BY <2>1, <2>3, FS_Subset
<1>3. PICK f : f = [a \in S |-> Rep!Net({a}, E)]
  OBVIOUS
<1>4. \A a \in S : f[a] = Rep!Net({a}, E) /\ f[a] \in Int
  BY <1>3, EntriesAddUp
<1>5. Rep!Balances(named, E) = {Rep!Row(a, f[a]) : a \in S}
  BY <1>1, <1>4 DEF Rep!Balances
<1>6. /\ IsFiniteSet({Rep!Row(a, f[a]) : a \in S})
      /\ \A row \in {Rep!Row(a, f[a]) : a \in S} : row.amount \in Int
  BY <1>2, <1>4, RowsType
<1> QED
  BY <1>5, <1>6

\* What a page may ask for in one statement is a report, with what it is to show.
LEMMA GeneratedFits ==
  ASSUME TablesInv, NEW d, DeskTyped(d), ScopeFits(d), d.type \notin {"daily-collection", "dpd-aging"}
  PROVE  Rep!IsReport(Rep!Generated(d)) /\ Tells(d, Rep!Generated(d))
<1>1. PICK t, W, r : t = d.type /\ W = Rep!Within(d.scope) /\ r = Rep!Generated(d)
  OBVIOUS
<1>2. /\ d.scope.byLoan \in SUBSET Lent /\ d.scope.byCustomer \in SUBSET Lent
      /\ W \in SUBSET Lent /\ W \subseteq d.scope.byCustomer
  BY <1>1 DEF DeskTyped, Rep!Within
<1>3. t \notin {"daily-collection", "dpd-aging"}
  BY <1>1
<1>4. d.user \in Officers => \A l \in W : Theirs(d.user, l)
  BY <1>2 DEF ScopeFits
<1>5. CASE t = "overdue"
  <2>1. PICK ls : ls = Rep!OverdueLoans(d.scope)
    OBVIOUS
  <2>2. ls \subseteq W
    BY <1>1, <2>1 DEF Rep!OverdueLoans
  <2>3. /\ IsFiniteSet(Rep!LoanRows(ls))
        /\ \A row \in Rep!LoanRows(ls) : row.id \in ls /\ row.amount \in Int
    BY <1>2, <2>2, LoanRowsType
  <2>4. r = Rep!Report(Rep!LoanRows(ls), 0, 0)
    BY <1>1, <1>5, <2>1 DEF Rep!Generated
  <2>5. Rep!IsReport(r) /\ r.rows = Rep!LoanRows(ls)
    BY <2>3, <2>4, ReportType
  <2>6. Rep!LoanOf(t, 0) = 0 /\ \A row \in r.rows : Rep!LoanOf(t, row.id) \in W
    BY <1>5, <2>2, <2>3, <2>5 DEF Rep!LoanOf
  <2> QED
    BY <1>1, <1>4, <1>5, <2>5, <2>6 DEF Tells
<1>6. CASE t = "loan-portfolio"
  <2>3. /\ IsFiniteSet(Rep!LoanRows(W))
        /\ \A row \in Rep!LoanRows(W) : row.id \in W /\ row.amount \in Int
    BY <1>2, LoanRowsType
  <2>4. PICK x, y : x = Rep!TotalOf(Rep!LoanRows(W)) /\ y = Parts * Rep!Cardinality(Rep!LoanRows(W))
    OBVIOUS
  <2>5. x \in Int /\ y \in Int
    <3>1. Rep!Cardinality(Rep!LoanRows(W)) \in Nat
      BY <2>3, RepSize, FS_CardinalityType
    <3> QED
      BY <2>3, <2>4, <3>1, TotalOfType, LoansFinite
  <2>6. r = Rep!Report(Rep!LoanRows(W), x, y)
    BY <1>1, <1>6, <2>4 DEF Rep!Generated
  <2>7. Rep!IsReport(r) /\ r.rows = Rep!LoanRows(W)
    BY <2>3, <2>5, <2>6, ReportType
  <2>8. \A row \in r.rows : Rep!LoanOf(t, row.id) \in W
    BY <1>6, <2>3, <2>7 DEF Rep!LoanOf
  <2> QED
    BY <1>1, <1>4, <1>6, <2>7, <2>8 DEF Tells
<1>7. CASE t = "disbursement"
  <2>1. PICK S : S = {l \in d.scope.byLoan : /\ loans[l].disbursed # 0
                                             /\ Rep!OnDays(d.dates, loans[l].disbursed)}
    OBVIOUS
  <2>2. IsFiniteSet(S)
    <3>1. S \in SUBSET Lent
      BY <1>2, <2>1
    <3> QED
      BY <3>1, LoansFinite, FS_Subset
  <2>3. PICK f : f = [l \in S |-> Parts]
    OBVIOUS
  <2>4. PICK rows : rows = Rep!Disbursements(d.scope, d.dates)
    OBVIOUS
  <2>5. rows = {Rep!Row(l, f[l]) : l \in S}
    BY <2>1, <2>3, <2>4 DEF Rep!Disbursements
  <2>6. IsFiniteSet(rows) /\ \A row \in rows : row.amount \in Int
    <3>1. \A l \in S : f[l] \in Int
      BY <2>3, LoansFinite
    <3>2. /\ IsFiniteSet({Rep!Row(l, f[l]) : l \in S})
          /\ \A row \in {Rep!Row(l, f[l]) : l \in S} : row.amount \in Int
      BY <2>2, <3>1, RowsType
    <3> QED
      BY <2>5, <3>2
  <2>7. Rep!TotalOf(rows) \in Int
    BY <2>6, TotalOfType
  <2>8. r = Rep!Report(rows, Rep!TotalOf(rows), 0)
    BY <1>1, <1>7, <2>4 DEF Rep!Generated
  <2>9. Rep!IsReport(r)
    BY <2>6, <2>7, <2>8, ReportType
  <2> QED
    BY <1>1, <1>7, <2>9 DEF Tells
<1>8. CASE t = "trial-balance"
  <2>1. PICK rows, x, y : /\ rows = Rep!Balances(Rep!Accounts, Rep!UntilNow)
                          /\ x = Rep!Debits(Rep!Accounts, Rep!UntilNow)
                          /\ y = Rep!Credits(Rep!Accounts, Rep!UntilNow)
    OBVIOUS
  <2>2. /\ IsFiniteSet(rows) /\ \A row \in rows : row.amount \in Int
        /\ x \in Int /\ y \in Int /\ x = y
    BY <2>1, BalancesType, EntriesAddUp, EntriesBalance
  <2>3. r = Rep!Report(rows, x, y)
    BY <1>1, <1>8, <2>1 DEF Rep!Generated, Rep!TrialBalanceReport
  <2>4. Rep!IsReport(r) /\ r.total = r.other
    BY <2>2, <2>3, ReportType
  <2> QED
    BY <1>1, <1>8, <2>4 DEF Tells
<1>9. CASE t = "balance-sheet"
  <2>1. PICK x, y : /\ x = Rep!Net(Rep!OfCategory("asset"), Rep!UntilNow)
                    /\ y = 0 - Rep!Net(Rep!OfCategory("income"), Rep!UntilNow)
                             - Rep!Net(Rep!OfCategory("expense"), Rep!UntilNow)
    OBVIOUS
  <2>2. x \in Int /\ y \in Int /\ x = y
    BY <2>1, EntriesAddUp, EntriesBalance
  <2>3. r = Rep!Report({}, x, y)
    BY <1>1, <1>9, <2>1 DEF Rep!Generated, Rep!BalanceSheetReport
  <2>4. Rep!IsReport(r) /\ r.total = r.other
    BY <2>2, <2>3, ReportType, FS_EmptySet
  <2> QED
    BY <1>1, <1>9, <2>4 DEF Tells
<1>10. CASE t = "profit-loss"
  <2>1. PICK E, P, Q : E = Rep!During(d.dates) /\ P = Rep!OfCategory("income") /\ Q = Rep!OfCategory("expense")
    OBVIOUS
  <2>2. PICK B, C : B = Rep!Balances(P, E) /\ C = Rep!Balances(Q, E)
    OBVIOUS
  <2>3. /\ IsFiniteSet(B) /\ \A row \in B : row.amount \in Int
        /\ IsFiniteSet(C) /\ \A row \in C : row.amount \in Int
    BY <2>2, BalancesType
  <2>4. PICK g : g = [row \in B |-> Rep!Row(row.id, 0 - row.amount)]
    OBVIOUS
  <2>5. PICK M : M = {Rep!Row(row.id, 0 - row.amount) : row \in B}
    OBVIOUS
  <2>6. IsFiniteSet(M) /\ \A row \in M : row.amount \in Int
    <3>1. M = {g[row] : row \in B}
      BY <2>4, <2>5
    <3>2. IsFiniteSet(M)
      BY <2>3, <3>1, FiniteImage
    <3>3. \A row \in M : row.amount \in Int
      BY <2>3, <2>5 DEF Rep!Row
    <3> QED
      BY <3>2, <3>3
  <2>7. IsFiniteSet(M \cup C) /\ \A row \in M \cup C : row.amount \in Int
    BY <2>3, <2>6, FS_Union
  <2>8. 0 - Rep!Net(P, E) \in Int /\ Rep!Net(Q, E) \in Int
    BY EntriesAddUp
  <2>9. r = Rep!Report(M \cup C, 0 - Rep!Net(P, E), Rep!Net(Q, E))
    BY <1>1, <1>10, <2>1, <2>2, <2>5 DEF Rep!Generated, Rep!ProfitLossReport
  <2>10. Rep!IsReport(r)
    BY <2>7, <2>8, <2>9, ReportType
  <2> QED
    BY <1>1, <1>10, <2>10 DEF Tells
<1>11. CASE t = "emi-schedule"
  <2>1. PICK S : S = {l \in W : /\ loans[l].status \in Rep!Live
                                /\ Rep!InWindow(d.dates, loans[l].due)
                                /\ Rep!InstallmentStatus(l) \in Rep!Asked(d.filter)}
    OBVIOUS
  <2>2. S \subseteq W /\ S \in SUBSET Lent /\ IsFiniteSet(S)
    <3>1. S \subseteq W /\ S \in SUBSET Lent
      BY <1>2, <2>1
    <3> QED
      BY <3>1, LoansFinite, FS_Subset
  <2>3. PICK f : f = [l \in S |-> Rep!Payable - 2 * loans[l].paid]
    OBVIOUS
  <2>4. PICK rows : rows = Rep!EmiSchedule(d.scope, d.dates, d.filter)
    OBVIOUS
  <2>5. rows = {Rep!Row(l, f[l]) : l \in S}
    BY <1>1, <2>1, <2>3, <2>4 DEF Rep!EmiSchedule
  <2>6. IsFiniteSet(rows) /\ \A row \in rows : row.id \in S /\ row.amount \in Int
    <3>1. \A l \in S : f[l] \in Int
      <4> TAKE l \in S
      <4>1. loans[l] \in LoanStates
        BY <2>2 DEF TablesInv, TablesTyped
      <4>2. loans[l].paid \in Int
        BY <4>1, LoansFinite DEF LoanStates
      <4> QED
        BY <2>3, <4>2, LoansFinite DEF Rep!Payable
    <3>2. /\ IsFiniteSet({Rep!Row(l, f[l]) : l \in S})
          /\ \A row \in {Rep!Row(l, f[l]) : l \in S} : row.id \in S /\ row.amount \in Int
      BY <2>2, <3>1, RowsType
    <3> QED
      BY <2>5, <3>2
  <2>7. PICK n \in Nat, x \in Int : n = Rep!Cardinality(rows) /\ x = Rep!TotalOf(rows)
    BY <2>6, TotalOfType, RepSize, FS_CardinalityType
  <2>8. r = Rep!Report(rows, Rep!Payable * n, Rep!Payable * n - x)
    BY <1>1, <1>11, <2>4, <2>7 DEF Rep!Generated
  <2>9. Rep!Payable * n \in Int /\ Rep!Payable * n - x \in Int
    BY <2>7, LoansFinite DEF Rep!Payable
  <2>10. Rep!IsReport(r) /\ r.rows = rows
    BY <2>6, <2>8, <2>9, ReportType
  <2>11. \A row \in r.rows : Rep!LoanOf(t, row.id) \in W
    BY <1>11, <2>2, <2>6, <2>10 DEF Rep!LoanOf
  <2> QED
    BY <1>1, <1>4, <1>11, <2>10, <2>11 DEF Tells
<1>12. CASE t \notin {"overdue", "loan-portfolio", "disbursement", "trial-balance", "profit-loss",
                      "balance-sheet", "emi-schedule"}
  <2>1. r = Rep!NoReport
    BY <1>1, <1>12 DEF Rep!Generated
  <2>2. Rep!IsReport(r) /\ r.rows = {}
    BY <2>1 DEF Rep!IsReport, Rep!NoReport
  <2> QED
    BY <1>1, <1>3, <1>12, <2>2 DEF Tells
<1> QED
  BY <1>5, <1>6, <1>7, <1>8, <1>9, <1>10, <1>11, <1>12

\* The rows of the daily report are collections, and finitely many.
LEMMA ReceiptRowsType ==
  ASSUME TablesInv
  PROVE  /\ IsFiniteSet(ReceiptRows)
         /\ \A row \in ReceiptRows :
              /\ row.id \in DOMAIN collections /\ row = Rep!Row(row.id, collections[row.id].amount)
              /\ row.amount = collections[row.id].amount /\ row.amount \in {2, -2}
<1>1. PICK m \in Nat : DOMAIN collections = 1..m
  BY DEF TablesInv, TablesTyped
<1>2. \A i \in 1..m : collections[i].amount \in {2, -2}
  BY <1>1 DEF TablesInv, ReceiptsFit
<1>3. PICK f : f = [i \in 1..m |-> collections[i].amount]
  OBVIOUS
<1>4. ReceiptRows = {Rep!Row(i, f[i]) : i \in 1..m}
  BY <1>1, <1>3 DEF ReceiptRows
<1>5. IsFiniteSet(1..m) /\ \A i \in 1..m : f[i] \in Int
  <2>1. IsFiniteSet(1..m)
    BY FS_Interval
  <2>2. \A i \in 1..m : f[i] \in Int
    BY <1>2, <1>3
  <2> QED
    BY <2>1, <2>2
<1>6. IsFiniteSet(ReceiptRows)
  BY <1>4, <1>5, RowsType
<1>7. ASSUME NEW row \in ReceiptRows
      PROVE  /\ row.id \in DOMAIN collections /\ row = Rep!Row(row.id, collections[row.id].amount)
             /\ row.amount = collections[row.id].amount /\ row.amount \in {2, -2}
  <2>1. PICK i \in 1..m : row = Rep!Row(i, collections[i].amount)
    BY <1>1 DEF ReceiptRows
  <2>2. row.id = i /\ row.amount = collections[i].amount
    BY <2>1 DEF Rep!Row
  <2> QED
    BY <1>1, <1>2, <2>1, <2>2
<1> QED
  BY <1>6, <1>7

\* A daily report whose rows are no reversals adds up: every row has an entry of
\* its own, and each of both is worth two.
LEMMA DailyFits ==
  ASSUME TablesInv, NEW rows \in SUBSET ReceiptRows
  PROVE  LET r == Rep!DailyCollectionReport(rows)
         IN  /\ Rep!IsReport(r) /\ r.rows = rows
             /\ (\A row \in rows : row.amount > 0) => r.total = Rep!TotalOf(rows)
<1>1. PICK E : E = {collections[row.id].entry : row \in rows}
  OBVIOUS
<1>2. PICK x \in Int, y \in Int : x = Rep!Debits(Rep!Accounts, E) /\ y = Rep!Credits(Rep!Accounts, E)
  BY EntriesAddUp
<1>3. Rep!DailyCollectionReport(rows) = Rep!Report(rows, x, y)
  BY <1>1, <1>2 DEF Rep!DailyCollectionReport
<1>4. IsFiniteSet(rows) /\ \A row \in rows : row.amount \in Int
  BY ReceiptRowsType, FS_Subset
<1>5. /\ Rep!IsReport(Rep!Report(rows, x, y))
      /\ Rep!Report(rows, x, y).rows = rows /\ Rep!Report(rows, x, y).total = x
  BY <1>4, ReportType
<1>6. ASSUME \A row \in rows : row.amount > 0
      PROVE  x = Rep!TotalOf(rows)
  <2>1. \A row \in rows : row.amount = 2
    BY <1>6, ReceiptRowsType
  <2>2. Rep!TotalOf(rows) = 2 * Cardinality(rows)
    BY <1>4, <2>1, TotalOfType
  <2>3. \A row \in rows : /\ row.id \in DOMAIN collections
                          /\ collections[row.id].entry \in DOMAIN entries
                          /\ Rep!Debited(Rep!Accounts, entries[collections[row.id].entry].lines) = 2
    BY ReceiptRowsType DEF TablesInv, ReceiptsFit, PostingsBalance
  <2>4. E \in SUBSET DOMAIN entries /\ \A e \in E : Rep!Debited(Rep!Accounts, entries[e].lines) = 2
    BY <1>1, <2>3
  <2>5. x = 2 * Cardinality(E)
    BY <1>2, <2>4, ReceiptEntries
  <2>6. PICK g : g = [row \in rows |-> collections[row.id].entry]
    OBVIOUS
  <2>7. g \in Bijection(rows, E)
    <3>1. g \in Surjection(rows, E)
      BY <1>1, <2>6 DEF Surjection
    <3>2. ASSUME NEW p \in rows, NEW q \in rows, g[p] = g[q] PROVE p = q
      <4>1. p.id = q.id
        BY <2>3, <2>6, <3>2 DEF TablesInv, ReceiptsFit
      <4> QED
        BY <4>1, ReceiptRowsType
    <3> QED
      BY <3>1, <3>2 DEF Surjection, Bijection, Injection, IsInjective
  <2>8. Cardinality(E) = Cardinality(rows)
    BY <1>4, <2>7, FS_Bijection DEF ExistsBijection
  <2> QED
    BY <2>2, <2>5, <2>8, Zenon
<1> QED
  BY <1>3, <1>5, <1>6

\* The aging report is a report, whatever amounts its loans had.
LEMMA AgingFits ==
  ASSUME TablesInv, NEW ls \in SUBSET Lent, NEW f \in [Lent -> Int]
  PROVE  LET rows == {Rep!Row(l, f[l]) : l \in ls}
         IN  Rep!IsReport(Rep!DpdAgingReport(rows))
<1>1. PICK rows : rows = {Rep!Row(l, f[l]) : l \in ls}
  OBVIOUS
<1>2. IsFiniteSet(ls) /\ \A l \in ls : f[l] \in Int
  BY LoansFinite, FS_Subset
<1>3. IsFiniteSet(rows) /\ \A row \in rows : row.amount \in Int
  BY <1>1, <1>2, RowsType
<1>4. PICK x \in Int, y \in Int :
        /\ x = Rep!TotalOf(rows)
        /\ y = Rep!Net({"receivable"}, {e \in DOMAIN entries : entries[e].source \in {row.id : row \in rows}})
  BY <1>3, TotalOfType, EntriesAddUp
<1>5. Rep!DpdAgingReport(rows) = Rep!Report(rows, x, y)
  BY <1>4 DEF Rep!DpdAgingReport
<1>6. Rep!IsReport(Rep!Report(rows, x, y))
  BY <1>3, ReportType
<1> QED
  BY <1>1, <1>5, <1>6

\* A collection keeps its loan, amount, date and entry.
LEMMA ReceiptsStand ==
  ASSUME TablesInv, Rep!Write \/ Rep!Tick
  PROVE  /\ DOMAIN collections \subseteq DOMAIN collections'
         /\ \A i \in DOMAIN collections : /\ collections'[i].loan = collections[i].loan
                                          /\ collections'[i].amount = collections[i].amount
                                          /\ collections'[i].date = collections[i].date
<1>1. collections \in Seq(Receipts) /\ DOMAIN collections = 1..Len(collections)
  BY DEF TablesInv, TablesTyped
<1>2. CASE collections' = collections
  BY <1>2
<1>3. ASSUME NEW l \in Lent, Rep!Collect(l)
      PROVE  /\ DOMAIN collections \subseteq DOMAIN collections'
             /\ \A i \in DOMAIN collections : collections'[i] = collections[i]
  <2>1. PICK row : collections' = Append(collections, row)
    BY <1>3 DEF Rep!Collect
  <2> QED
    BY <1>1, <2>1
<1>4. ASSUME NEW c \in DOMAIN collections, Rep!ReverseCollection(c)
      PROVE  /\ DOMAIN collections \subseteq DOMAIN collections'
             /\ \A i \in DOMAIN collections : /\ collections'[i].loan = collections[i].loan
                                              /\ collections'[i].amount = collections[i].amount
                                              /\ collections'[i].date = collections[i].date
  <2>1. PICK row, olds : /\ collections' = Append(olds, row)
                         /\ olds = [collections EXCEPT ![c].posted = FALSE]
    BY <1>4 DEF Rep!ReverseCollection
  <2>2. PICK n \in Nat : n = Len(collections) /\ DOMAIN collections = 1..n
    <3>1. Len(collections) \in Nat
      BY <1>1
    <3> QED
      BY <1>1, <3>1
  <2>3. /\ olds \in Seq({olds[i] : i \in 1..n}) /\ Len(olds) = n
        /\ \A i \in 1..n : /\ olds[i].loan = collections[i].loan
                           /\ olds[i].amount = collections[i].amount
                           /\ olds[i].date = collections[i].date
    <3>1. \A i \in 1..n : collections[i] \in Receipts
      BY <1>1, <2>2
    <3>2. DOMAIN olds = 1..n /\ \A i \in 1..n : olds[i] = IF i = c THEN [collections[c] EXCEPT !.posted = FALSE]
                                                                ELSE collections[i]
      BY <2>1, <2>2
    <3>3. olds \in [1..n -> {olds[i] : i \in 1..n}]
      BY <2>1, <2>2, <3>2
    <3>4. olds \in Seq({olds[i] : i \in 1..n}) /\ Len(olds) = n
      BY <3>3
    <3>5. \A i \in 1..n : /\ olds[i].loan = collections[i].loan
                          /\ olds[i].amount = collections[i].amount
                          /\ olds[i].date = collections[i].date
      BY <3>1, <3>2 DEF Receipts
    <3> QED
      BY <3>4, <3>5
  <2>4. DOMAIN collections' = 1..n+1 /\ \A i \in 1..n : collections'[i] = olds[i]
    BY <2>1, <2>3
  <2> QED
    BY <2>2, <2>3, <2>4
<1>5. Rep!Tick => collections' = collections
  BY DEF Rep!Tick
<1>6. /\ \A l \in Lent : Rep!Disburse(l) => collections' = collections
      /\ \A l \in Lent, o \in Officers : Rep!Reassign(l, o) => collections' = collections
      /\ Rep!Spend => collections' = collections
  BY DEF Rep!Disburse, Rep!Reassign, Rep!Spend
<1> QED
  BY <1>2, <1>3, <1>4, <1>5, <1>6 DEF Rep!Write

\* and so the rows of daily reports.
LEMMA ReceiptRowsStay ==
  ASSUME TablesInv, Rep!Write \/ Rep!Tick
  PROVE  ReceiptRows \subseteq ReceiptRows'
<1> SUFFICES ASSUME NEW row \in ReceiptRows PROVE row \in ReceiptRows'
  OBVIOUS
<1>1. PICK i \in DOMAIN collections : row = Rep!Row(i, collections[i].amount)
  BY DEF ReceiptRows
<1>2. i \in DOMAIN collections' /\ row = Rep!Row(i, collections'[i].amount)
  BY <1>1, ReceiptsStand
<1> QED
  BY <1>2 DEF ReceiptRows

\* Reports made of the same tables are the same.
LEMMA SameReports ==
  ASSUME UNCHANGED tables
  PROVE  /\ TablesInv' <=> TablesInv
         /\ \A d : Now(d)' = Now(d)
         /\ ReceiptRows' = ReceiptRows
<1>0. UNCHANGED <<today, night, loans, collections, entries>>
  BY DEF tables
<1>1. \A ls : Rep!LoanRows(ls)' = Rep!LoanRows(ls)
  BY <1>0 DEF Rep!LoanRows
<1>2. \A dates, d : Rep!InWindow(dates, d)' = Rep!InWindow(dates, d)
  BY <1>0 DEF Rep!InWindow, Rep!From, Rep!To, Rep!UtcDay, Rep!Midnight
<1>3. \A dates, d : Rep!OnDays(dates, d)' = Rep!OnDays(dates, d)
  BY <1>0 DEF Rep!OnDays
<1>4. \A s, dates : Rep!DailyCollections(s, dates)' = Rep!DailyCollections(s, dates)
  BY <1>0, <1>2 DEF Rep!DailyCollections
<1>5. \A named, E : Rep!Debits(named, E)' = Rep!Debits(named, E) /\ Rep!Credits(named, E)' = Rep!Credits(named, E)
  BY <1>0 DEF Rep!Debits, Rep!Credits
<1>6. \A named, E : Rep!Net(named, E)' = Rep!Net(named, E)
  BY <1>5 DEF Rep!Net
<1>7. \A rows : Rep!DailyCollectionReport(rows)' = Rep!DailyCollectionReport(rows)
  BY <1>0, <1>5 DEF Rep!DailyCollectionReport
<1>8. \A rows : Rep!DpdAgingReport(rows)' = Rep!DpdAgingReport(rows)
  BY <1>0, <1>6 DEF Rep!DpdAgingReport
<1>9. \A s : Rep!DpdAging(s)' = Rep!DpdAging(s) /\ Rep!OverdueLoans(s)' = Rep!OverdueLoans(s)
  BY <1>0 DEF Rep!DpdAging, Rep!OverdueLoans
<1>10. \A s, dates : Rep!Disbursements(s, dates)' = Rep!Disbursements(s, dates)
  BY <1>0, <1>3 DEF Rep!Disbursements
<1>11. \A s, dates, filter : Rep!EmiSchedule(s, dates, filter)' = Rep!EmiSchedule(s, dates, filter)
  BY <1>0, <1>2 DEF Rep!EmiSchedule, Rep!InstallmentStatus
<1>12. \A E : Rep!AccountsOf(E)' = Rep!AccountsOf(E)
  BY <1>0 DEF Rep!AccountsOf
<1>13. \A named, E : Rep!Balances(named, E)' = Rep!Balances(named, E)
  BY <1>6, <1>12 DEF Rep!Balances
<1>14. Rep!UntilNow' = Rep!UntilNow /\ \A dates : Rep!During(dates)' = Rep!During(dates)
  BY <1>0, <1>2 DEF Rep!UntilNow, Rep!During, Rep!UtcDay
<1>15. Rep!TrialBalanceReport' = Rep!TrialBalanceReport /\ Rep!BalanceSheetReport' = Rep!BalanceSheetReport
  BY <1>5, <1>6, <1>13, <1>14 DEF Rep!TrialBalanceReport, Rep!BalanceSheetReport
<1>16. \A dates : Rep!ProfitLossReport(dates)' = Rep!ProfitLossReport(dates)
  BY <1>6, <1>13, <1>14 DEF Rep!ProfitLossReport
<1>17. \A d : Rep!Generated(d)' = Rep!Generated(d)
  BY <1>1, <1>9, <1>10, <1>11, <1>15, <1>16 DEF Rep!Generated
<1>18. \A d : Now(d)' = Now(d)
  BY <1>1, <1>4, <1>7, <1>8, <1>9, <1>17 DEF Now
<1>19. ReceiptRows' = ReceiptRows
  BY <1>0 DEF ReceiptRows
<1> QED
  BY <1>18, <1>19, SameTables

\* and who may see them, as long as nobody is reassigned.
LEMMA SameDesk ==
  ASSUME UNCHANGED <<tables, reassigned, changed>>
  PROVE  \A d : /\ ScopeFits(d)' <=> ScopeFits(d)
                /\ RowsFit(d)' <=> RowsFit(d)
                /\ \A r : Tells(d, r)' <=> Tells(d, r)
                /\ DeskFits(d)' <=> DeskFits(d)
<1>0. UNCHANGED tables /\ UNCHANGED <<today, night, loans, collections, entries, reassigned, changed>>
  BY DEF tables
<1>1. \A u, l : Theirs(u, l)' <=> Theirs(u, l)
  BY <1>0 DEF Theirs
<1>2. \A d : ScopeFits(d)' <=> ScopeFits(d)
  BY <1>1 DEF ScopeFits
<1>3. \A s, dates : Rep!DailyCollections(s, dates)' = Rep!DailyCollections(s, dates)
  <2>1. \A dates, d : Rep!InWindow(dates, d)' = Rep!InWindow(dates, d)
    BY <1>0 DEF Rep!InWindow, Rep!From, Rep!To, Rep!UtcDay, Rep!Midnight
  <2> QED
    BY <1>0, <2>1 DEF Rep!DailyCollections
<1>4. \A s : Rep!LoanRows(Rep!DpdAging(s))' = Rep!LoanRows(Rep!DpdAging(s))
  BY <1>0 DEF Rep!LoanRows, Rep!DpdAging
<1>5. ReceiptRows' = ReceiptRows /\ \A d : Now(d)' = Now(d)
  BY <1>0, SameReports
<1>6. \A d : RowsFit(d)' <=> RowsFit(d)
  BY <1>0, <1>1, <1>3, <1>4, <1>5 DEF RowsFit
<1>7. \A d, r : Tells(d, r)' <=> Tells(d, r)
  BY <1>0, <1>1, <1>5 DEF Tells, Rep!LoanOf
<1>8. \A d : DeskFits(d)' <=> DeskFits(d)
  BY <1>0, <1>2, <1>5, <1>6, <1>7 DEF DeskFits
<1> QED
  BY <1>2, <1>6, <1>7, <1>8

\* So a step of the page alone keeps the invariant if what is open then fits.
LEMMA DeskMoves ==
  ASSUME DeskInv, UNCHANGED <<tables, reassigned, changed>>, NEW d, desk' = d, DeskFits(d)
  PROVE  DeskInv'
<1>1. TablesInv'
  BY SameReports DEF DeskInv, tables
<1>2. DeskFits(d)'
  BY SameDesk
<1>3. \E e : e = desk' /\ DeskFits(e)'
  BY <1>2
<1> QED
  BY <1>1, <1>3 DEF DeskInv

\* The report is the same for what was asked, in whatever phase the page is.
LEMMA NowSame ==
  ASSUME NEW d, NEW e, d.type = e.type, d.dates = e.dates, d.filter = e.filter
  PROVE  Now(d) = Now(e)
BY DEF Now, Asked

\* Managers, collectors and officers are different users.
LEMMA ReportConstants ==
  /\ Readers \subseteq Officers \cup {Manager, Collector}
  /\ Manager \notin Officers /\ Collector \notin Officers /\ Collector # Manager
BY BackOfficeAssumption DEF Rep!ReportsAssumption

\* A page that shows nothing yet has an empty report.
LEMMA NoReportType == Rep!IsReport(Rep!NoReport)
BY DEF Rep!IsReport, Rep!NoReport

\* A page that was opened has asked for nothing yet.
LEMMA OpenKeepsDesk ==
  ASSUME DeskInv, NEW u \in Readers, NEW t \in Types, NEW dates \in Rep!Dates, NEW f \in Rep!EmiFilters,
         Rep!Open(u, t, dates, f)
  PROVE  DeskInv'
<1>1. PICK d : /\ d = desk' /\ UNCHANGED <<tables, reassigned, changed>>
               /\ d = [phase |-> "scope", user |-> u, type |-> t, dates |-> dates,
                       filter |-> f, format |-> "page", scope |-> Rep!Scope(Manager), rows |-> {},
                       shown |-> Rep!NoReport, file |-> Rep!NoReport]
  BY DEF Rep!Open, Rep!Keep, Rep!tables, tables
<1>2. Rep!Scope(Manager) = AllLoans
  BY ReportConstants DEF Rep!Scope, AllLoans
<1>3. dates \in [given : BOOLEAN, start : Int, end : Int]
  <2>1. today \in Int
    BY DEF DeskInv, TablesInv, TablesTyped
  <2>2. CASE dates = Rep!Default
    BY <2>2 DEF Rep!Default
  <2>3. CASE dates \in [given : {TRUE}, start : 1 .. today, end : 1 .. today]
    <3>1. PICK S : S = 1 .. today
      OBVIOUS
    <3>2. \A x \in S : x \in Int
      BY <2>1, <3>1
    <3>3. dates \in [given : {TRUE}, start : S, end : S]
      BY <2>3, <3>1
    <3> QED
      BY <3>2, <3>3
  <2> QED
    BY <2>2, <2>3 DEF Rep!Dates
<1>4. DeskTyped(d)
  BY <1>1, <1>2, <1>3, NoReportType DEF DeskTyped, AllLoans
<1>5. DeskFits(d)
  BY <1>1, <1>4 DEF DeskFits
<1> QED
  BY <1>1, <1>5, DeskMoves

\* The scope of a user: of a manager all loans, of an officer the own customers.
LEMMA ReadScopeKeepsDesk ==
  ASSUME DeskInv, Rep!ReadScope
  PROVE  DeskInv'
<1>1. DeskFits(desk) /\ desk.phase = "scope"
  BY DEF Rep!ReadScope, Rep!At, DeskInv, Rep!Closed
<1>2. PICK c, d : /\ c = desk /\ d = desk' /\ UNCHANGED <<tables, reassigned, changed>>
                  /\ d = [c EXCEPT !.phase = "rows", !.scope = Rep!Scope(c.user)]
  BY DEF Rep!ReadScope, Rep!Keep, Rep!tables, tables
<1>3. DeskTyped(c) /\ DeskFits(c) /\ c.user \in Readers
  BY <1>1, <1>2 DEF DeskFits, DeskTyped
<1>4. PICK s : s = Rep!Scope(c.user)
  OBVIOUS
<1>5. /\ s \in [byLoan : SUBSET Lent, byCustomer : SUBSET Lent]
      /\ c.user \in Officers => \A l \in s.byCustomer : loans[l].officer = c.user
      /\ c.user = Manager => s = AllLoans
  <2>1. CASE c.user = Manager
    BY <1>4, <2>1, ReportConstants DEF Rep!Scope, AllLoans
  <2>2. CASE c.user \in Officers
    BY <1>4, <2>2, ReportConstants DEF Rep!Scope
  <2>3. CASE c.user = Collector
    BY <1>4, <2>3, ReportConstants DEF Rep!Scope
  <2> QED
    BY <1>3, <2>1, <2>2, <2>3, ReportConstants
<1>6. /\ d.phase = "rows" /\ d.user = c.user /\ d.type = c.type /\ d.dates = c.dates
      /\ d.filter = c.filter /\ d.format = c.format /\ d.scope = s /\ d.rows = c.rows
      /\ d.shown = c.shown /\ d.file = c.file
  BY <1>2, <1>3, <1>4 DEF DeskTyped
<1>7. DeskTyped(d)
  BY <1>2, <1>3, <1>4, <1>5, <1>6 DEF DeskTyped
<1>8. ScopeFits(d)
  BY <1>5, <1>6 DEF ScopeFits, Theirs
<1>9. d.user = Manager /\ ~changed /\ d.format # "page" => d.shown = Now(d)
  BY <1>3, <1>6, NowSame DEF DeskFits
<1>10. DeskFits(d)
  BY <1>6, <1>7, <1>8, <1>9 DEF DeskFits
<1> QED
  BY <1>2, <1>10, DeskMoves

\* What is generated has the fields of a report and no others.
LEMMA GeneratedBuilt ==
  ASSUME NEW d
  PROVE  \E rows, n, x, y :
           /\ Rep!Generated(d) = [rows |-> rows, count |-> n, total |-> x, other |-> y]
BY DEF Rep!Generated, Rep!Report, Rep!NoReport, Rep!TrialBalanceReport, Rep!ProfitLossReport,
       Rep!BalanceSheetReport

\* and so has what the tables give now.
LEMMA NowBuilt ==
  ASSUME NEW d
  PROVE  \E rows, n, x, y : Now(d) = [rows |-> rows, count |-> n, total |-> x, other |-> y]
<1>1. \A e : \E rows, n, x, y : Rep!Generated(e) = [rows |-> rows, count |-> n, total |-> x, other |-> y]
  BY GeneratedBuilt
<1>2. \A e : \E rows, n, x, y : Rep!DailyCollectionReport(e) = [rows |-> rows, count |-> n, total |-> x, other |-> y]
  BY DEF Rep!DailyCollectionReport, Rep!Report
<1>3. \A e : \E rows, n, x, y : Rep!DpdAgingReport(e) = [rows |-> rows, count |-> n, total |-> x, other |-> y]
  BY DEF Rep!DpdAgingReport, Rep!Report
<1>4. CASE d.type = "daily-collection"
  BY <1>2, <1>4 DEF Now
<1>5. CASE d.type = "dpd-aging"
  BY <1>3, <1>5 DEF Now
<1>6. CASE d.type \notin {"daily-collection", "dpd-aging"}
  <2>1. Now(d) = Rep!Generated(Asked(d))
    BY <1>6 DEF Now
  <2> QED
    BY <1>1, <2>1
<1> QED
  BY <1>4, <1>5, <1>6

\* A report that is complete is shown, or becomes a file.
LEMMA DeliveredKeepsDesk ==
  ASSUME DeskInv, DeskFits(desk), UNCHANGED <<tables, reassigned, changed>>,
         NEW r, Rep!IsReport(r), Tells(desk, r), desk.user = Manager /\ ~changed => r = Now(desk),
         desk' = Rep!Delivered(r)
  PROVE  DeskInv'
<1>1. PICK c, d : c = desk /\ d = desk'
  OBVIOUS
<1>2. DeskTyped(c) /\ DeskFits(c)
  BY <1>1 DEF DeskFits
<1>3. CASE c.format = "page"
  <2>1. d = [c EXCEPT !.phase = "shown", !.shown = r]
    BY <1>1, <1>3 DEF Rep!Delivered
  <2>2. /\ d.phase = "shown" /\ d.user = c.user /\ d.type = c.type /\ d.dates = c.dates
        /\ d.filter = c.filter /\ d.format = c.format /\ d.scope = c.scope /\ d.rows = c.rows
        /\ d.shown = r /\ d.file = c.file
    BY <1>2, <2>1 DEF DeskTyped
  <2>3. DeskTyped(d)
    BY <1>2, <1>3, <2>1, <2>2 DEF DeskTyped
  <2>4. Tells(d, r)
    BY <1>1, <2>2 DEF Tells
  <2>5. d.user = Manager /\ ~changed => r = Now(d)
    BY <1>1, <2>2, NowSame
  <2>6. DeskFits(d)
    BY <2>2, <2>3, <2>4, <2>5 DEF DeskFits
  <2> QED
    BY <1>1, <2>6, DeskMoves
<1>4. CASE c.format = "xlsx" /\ ~Rep!HasColumns(r)
  <2>1. d = [c EXCEPT !.phase = "refused"]
    BY <1>1, <1>4 DEF Rep!Delivered
  <2>2. /\ d.phase = "refused" /\ d.user = c.user /\ d.type = c.type /\ d.dates = c.dates
        /\ d.filter = c.filter /\ d.format = c.format /\ d.scope = c.scope /\ d.rows = c.rows
        /\ d.shown = c.shown /\ d.file = c.file
    BY <1>2, <2>1 DEF DeskTyped
  <2>3. DeskTyped(d)
    BY <1>2, <2>1, <2>2 DEF DeskTyped
  <2>4. d.user = Manager /\ ~changed => d.shown = Now(d)
    BY <1>2, <1>4, <2>2, NowSame DEF DeskFits
  <2>5. DeskFits(d)
    BY <2>2, <2>3, <2>4 DEF DeskFits
  <2> QED
    BY <1>1, <2>5, DeskMoves
<1>5. CASE c.format # "page" /\ ~(c.format = "xlsx" /\ ~Rep!HasColumns(r))
  <2>1. d = [c EXCEPT !.phase = "saved", !.file = Rep!FileOf(r)]
    BY <1>1, <1>5 DEF Rep!Delivered
  <2>2. /\ d.phase = "saved" /\ d.user = c.user /\ d.type = c.type /\ d.dates = c.dates
        /\ d.filter = c.filter /\ d.format = c.format /\ d.scope = c.scope /\ d.rows = c.rows
        /\ d.shown = c.shown /\ d.file = Rep!FileOf(r)
    BY <1>2, <2>1 DEF DeskTyped
  <2>3. Rep!IsReport(Rep!FileOf(r))
    BY DEF Rep!FileOf, Rep!IsReport
  <2>4. DeskTyped(d)
    BY <1>2, <2>1, <2>2, <2>3 DEF DeskTyped
  <2>5. d.user = Manager /\ ~changed => d.shown = Now(d)
    BY <1>2, <1>5, <2>2, NowSame DEF DeskFits
  <2>6. ASSUME Rep!Shape(d.type) = "array", ~changed
        PROVE  d.file = d.shown
    <3>1. d.user = Manager /\ r = Now(c) /\ c.shown = Now(c)
      BY <1>1, <1>2, <1>5, <2>2, <2>6 DEF DeskFits, DeskTyped
    <3>2. Rep!FileOf(r) = [r EXCEPT !.rows = r.rows]
      BY <1>1, <2>2, <2>6 DEF Rep!FileOf
    <3>3. PICK rows, n, x, y : r = [rows |-> rows, count |-> n, total |-> x, other |-> y]
      BY <3>1, NowBuilt
    <3>4. [r EXCEPT !.rows = r.rows] = r
      BY <3>3
    <3> QED
      BY <2>2, <3>1, <3>2, <3>4
  <2>7. DeskFits(d)
    BY <2>2, <2>4, <2>5, <2>6 DEF DeskFits
  <2> QED
    BY <1>1, <2>7, DeskMoves
<1> QED
  BY <1>3, <1>4, <1>5

\* The rows of the reports of two statements are read in the scope.
LEMMA ReadRowsKeepsDesk ==
  ASSUME DeskInv, Rep!ReadRows
  PROVE  DeskInv'
<1>1. PICK c, d : /\ c = desk /\ d = desk' /\ UNCHANGED <<tables, reassigned, changed>>
                  /\ c.phase = "rows"
  BY DEF Rep!ReadRows, Rep!At, Rep!Keep, Rep!tables, tables
<1>2. DeskFits(c) /\ DeskTyped(c) /\ ScopeFits(c) /\ TablesInv
  BY <1>1 DEF DeskInv, DeskFits, Rep!Closed
<1>3. /\ c.scope.byLoan \in SUBSET Lent /\ c.scope.byCustomer \in SUBSET Lent
      /\ c.user = Manager => c.scope = AllLoans
      /\ c.user \in Officers => \A l \in Rep!Within(c.scope) : Theirs(c.user, l)
  BY <1>2 DEF DeskTyped, ScopeFits, Rep!Within
<1>4. CASE c.type \in {"daily-collection", "dpd-aging"}
  <2>1. PICK rows : rows = IF c.type = "daily-collection" THEN Rep!DailyCollections(c.scope, c.dates)
                           ELSE Rep!LoanRows(Rep!DpdAging(c.scope))
    OBVIOUS
  <2>2. d = [c EXCEPT !.phase = "lines", !.rows = rows]
    BY <1>1, <1>4, <2>1 DEF Rep!ReadRows
  <2>3. /\ d.phase = "lines" /\ d.user = c.user /\ d.type = c.type /\ d.dates = c.dates
        /\ d.filter = c.filter /\ d.format = c.format /\ d.scope = c.scope /\ d.rows = rows
        /\ d.shown = c.shown /\ d.file = c.file
    BY <1>2, <2>2 DEF DeskTyped
  <2>4. DeskTyped(d)
    BY <1>2, <2>2, <2>3 DEF DeskTyped
  <2>5. ScopeFits(d)
    BY <1>2, <2>3 DEF ScopeFits
  <2>6. ASSUME c.type = "daily-collection" PROVE RowsFit(d)
    <3>1. rows = Rep!DailyCollections(c.scope, c.dates)
      BY <2>1, <2>6
    <3>2. rows \subseteq ReceiptRows
      BY <3>1 DEF Rep!DailyCollections, ReceiptRows
    <3>3. \A row \in rows : collections[row.id].loan \in Rep!Within(c.scope)
      BY <3>1 DEF Rep!DailyCollections, Rep!Row
    <3>4. d.user = Manager => rows = Rep!DailyCollections(AllLoans, d.dates)
      BY <1>3, <2>3, <3>1
    <3> QED
      BY <1>3, <2>3, <2>6, <3>2, <3>3, <3>4 DEF RowsFit
  <2>7. ASSUME c.type = "dpd-aging" PROVE RowsFit(d)
    <3>1. PICK ls : ls = Rep!DpdAging(c.scope)
      OBVIOUS
    <3>2. ls \in SUBSET Lent
      BY <1>3, <3>1 DEF Rep!DpdAging
    <3>3. PICK f : f = [l \in Lent |-> loans[l].cached]
      OBVIOUS
    <3>4. f \in [Lent -> Int]
      <4>1. \A l \in Lent : loans[l] \in LoanStates
        BY <1>2 DEF TablesInv, TablesTyped
      <4>2. \A l \in Lent : loans[l].cached \in Int
        BY <4>1 DEF LoanStates
      <4> QED
        BY <3>3, <4>2
    <3>5. rows = Rep!LoanRows(ls)
      BY <2>1, <2>7, <3>1
    <3>6. rows = {Rep!Row(l, f[l]) : l \in ls}
      BY <3>2, <3>3, <3>5 DEF Rep!LoanRows
    <3>7. d.user = Manager => rows = Rep!LoanRows(Rep!DpdAging(AllLoans))
      BY <1>3, <2>3, <3>1, <3>5
    <3> QED
      BY <2>3, <2>7, <3>2, <3>4, <3>6, <3>7 DEF RowsFit
  <2>8. RowsFit(d)
    BY <1>4, <2>6, <2>7
  <2>9. d.user = Manager /\ ~changed /\ d.format # "page" => d.shown = Now(d)
    BY <1>2, <2>3, NowSame DEF DeskFits
  <2>10. DeskFits(d)
    BY <2>3, <2>4, <2>5, <2>8, <2>9 DEF DeskFits
  <2> QED
    BY <1>1, <2>10, DeskMoves
<1>5. CASE c.type \notin {"daily-collection", "dpd-aging"}
  <2>1. desk' = Rep!Delivered(Rep!Generated(desk))
    BY <1>1, <1>5 DEF Rep!ReadRows
  <2>2. PICK r : r = Rep!Generated(desk)
    OBVIOUS
  <2>3. Rep!IsReport(r) /\ Tells(desk, r)
    BY <1>1, <1>2, <1>5, <2>2, GeneratedFits
  <2>4. ASSUME desk.user = Manager
        PROVE  r = Now(desk)
    <3>1. c.scope = AllLoans
      BY <1>1, <1>3, <2>4
    <3>2. PICK a : a = Asked(c)
      OBVIOUS
    <3>3. a.type = c.type /\ a.scope = c.scope /\ a.dates = c.dates /\ a.filter = c.filter
      BY <3>1, <3>2 DEF Asked
    <3>4. Rep!Generated(a) = Rep!Generated(c)
      BY <3>3 DEF Rep!Generated
    <3>5. Now(c) = Rep!Generated(a)
      BY <1>5, <3>2 DEF Now
    <3> QED
      BY <1>1, <2>2, <3>4, <3>5
  <2> QED
    BY <1>1, <1>2, <2>1, <2>2, <2>3, <2>4, DeliveredKeepsDesk
<1> QED
  BY <1>4, <1>5

\* Their journal lines are read after the rows.
LEMMA ReadLinesKeepsDesk ==
  ASSUME DeskInv, Rep!ReadLines
  PROVE  DeskInv'
<1>1. PICK c : c = desk /\ UNCHANGED <<tables, reassigned, changed>> /\ c.phase = "lines"
  BY DEF Rep!ReadLines, Rep!At, Rep!Keep, Rep!tables, tables
<1>2. DeskFits(c) /\ RowsFit(c) /\ TablesInv
  BY <1>1 DEF DeskInv, DeskFits, Rep!Closed
<1>3. PICK r : r = IF c.type = "daily-collection" THEN Rep!DailyCollectionReport(c.rows)
                                                  ELSE Rep!DpdAgingReport(c.rows)
  OBVIOUS
<1>4. desk' = Rep!Delivered(r)
  BY <1>1, <1>3 DEF Rep!ReadLines
<1>5. CASE c.type = "daily-collection"
  <2>1. r = Rep!DailyCollectionReport(c.rows)
    BY <1>3, <1>5
  <2>2. /\ c.rows \in SUBSET ReceiptRows
        /\ c.user \in Officers => \A row \in c.rows : Theirs(c.user, collections[row.id].loan)
        /\ c.user = Manager /\ ~changed => c.rows = Rep!DailyCollections(AllLoans, c.dates)
    BY <1>2, <1>5 DEF RowsFit
  <2>3. /\ Rep!IsReport(r) /\ r.rows = c.rows
        /\ (\A row \in c.rows : row.amount > 0) => r.total = Rep!TotalOf(c.rows)
    BY <1>2, <2>1, <2>2, DailyFits
  <2>4. Tells(c, r)
    BY <1>5, <2>2, <2>3 DEF Tells, Rep!LoanOf
  <2>5. c.user = Manager /\ ~changed => r = Now(c)
    BY <1>5, <2>1, <2>2 DEF Now
  <2> QED
    BY <1>1, <1>2, <1>4, <2>3, <2>4, <2>5, DeliveredKeepsDesk
<1>6. CASE c.type = "dpd-aging"
  <2>1. r = Rep!DpdAgingReport(c.rows)
    BY <1>3, <1>6
  <2>2. PICK ls \in SUBSET Lent, f \in [Lent -> Int] : c.rows = {Rep!Row(l, f[l]) : l \in ls}
    BY <1>2, <1>6 DEF RowsFit
  <2>3. Rep!IsReport(r)
    BY <1>2, <2>1, <2>2, AgingFits
  <2>4. Tells(c, r)
    BY <1>6 DEF Tells
  <2>5. c.user = Manager /\ ~changed => r = Now(c)
    BY <1>2, <1>6, <2>1 DEF Now, RowsFit
  <2> QED
    BY <1>1, <1>2, <1>4, <2>3, <2>4, <2>5, DeliveredKeepsDesk
<1> QED
  BY <1>2, <1>5, <1>6 DEF RowsFit

\* An export asks for the report that is shown again.
LEMMA PressKeepsDesk ==
  ASSUME DeskInv, NEW format \in {"pdf", "xlsx"}, Rep!PressExport(format)
  PROVE  DeskInv'
<1>1. PICK c, d : /\ c = desk /\ d = desk' /\ UNCHANGED <<tables, reassigned, changed>>
                  /\ c.phase = "shown" /\ c.user = Manager
                  /\ d = [c EXCEPT !.phase = "scope", !.format = format]
  BY DEF Rep!PressExport, Rep!At, Rep!Keep, Rep!tables, tables
<1>2. DeskFits(c) /\ DeskTyped(c)
  BY <1>1 DEF DeskInv, DeskFits, Rep!Closed
<1>3. /\ d.phase = "scope" /\ d.user = c.user /\ d.type = c.type /\ d.dates = c.dates
      /\ d.filter = c.filter /\ d.format = format /\ d.scope = c.scope /\ d.rows = c.rows
      /\ d.shown = c.shown /\ d.file = c.file
  BY <1>1, <1>2 DEF DeskTyped
<1>4. DeskTyped(d)
  BY <1>1, <1>2, <1>3 DEF DeskTyped
<1>5. ~changed => d.shown = Now(d)
  <2>1. Now(d) = Now(c)
    BY <1>3, NowSame
  <2>2. ~changed => c.shown = Now(c)
    BY <1>1, <1>2 DEF DeskFits
  <2> QED
    BY <1>3, <2>1, <2>2
<1>6. DeskFits(d)
  BY <1>3, <1>4, <1>5 DEF DeskFits
<1> QED
  BY <1>1, <1>6, DeskMoves

\* What the others write while a page is open is remembered, and takes no
\* collection away.
LEMMA BesideKeepsDesk ==
  ASSUME DeskInv, Rep!Beside
  PROVE  DeskInv'
<1>1. TablesInv /\ TablesInv' /\ desk' = desk /\ (Rep!Write \/ Rep!Tick)
  BY TablesKept DEF DeskInv, Rep!Beside
<1>2. CASE desk = Rep!Closed
  <2>1. ~DeskFits(desk)
    BY <1>2 DEF DeskFits, DeskTyped, Rep!Closed
  <2>2. reassigned' = {} /\ changed' = FALSE
    BY <1>2 DEF Rep!Beside, Rep!At, Rep!Closed
  <2> QED
    BY <1>1, <1>2, <2>2 DEF DeskInv
<1>3. CASE DeskFits(desk)
  <2>1. PICK d : d = desk /\ d = desk' /\ DeskFits(d) /\ DeskTyped(d)
    BY <1>1, <1>3 DEF DeskFits
  <2>2. d.phase # "closed"
    BY <2>1 DEF DeskTyped
  <2>3. /\ changed' = TRUE
        /\ reassigned' = reassigned \cup {l \in Lent : loans'[l].officer # loans[l].officer}
    BY <2>1, <2>2 DEF Rep!Beside, Rep!At
  <2>4. \A u, l : Theirs(u, l) => Theirs(u, l)'
    BY <2>3 DEF Theirs
  <2>5. ReceiptRows \subseteq ReceiptRows'
    BY <1>1, ReceiptRowsStay
  <2>6. \A row \in ReceiptRows : collections'[row.id].loan = collections[row.id].loan
    BY <1>1, ReceiptsStand, ReceiptRowsType
  <2>7. ScopeFits(d) => ScopeFits(d)'
    BY <2>4 DEF ScopeFits
  <2>8. RowsFit(d) => RowsFit(d)'
    BY <2>3, <2>4, <2>5, <2>6 DEF RowsFit
  <2>9. ASSUME NEW r, Tells(d, r)
        PROVE  Tells(d, r)'
    <3>1. d.type = "daily-collection" => \A row \in r.rows : row \in ReceiptRows /\ row \in ReceiptRows'
      BY <2>5, <2>9 DEF Tells
    <3>2. d.type = "daily-collection" =>
            \A row \in r.rows : Rep!LoanOf(d.type, row.id)' = Rep!LoanOf(d.type, row.id)
      BY <2>6, <3>1 DEF Rep!LoanOf
    <3>3. d.type # "daily-collection" =>
            \A row \in r.rows : Rep!LoanOf(d.type, row.id)' = Rep!LoanOf(d.type, row.id)
      BY DEF Rep!LoanOf
    <3>4. d.user \in Officers
            /\ d.type \in {"daily-collection", "overdue", "loan-portfolio", "emi-schedule"}
            => \A row \in r.rows : Theirs(d.user, Rep!LoanOf(d.type, row.id))'
      <4> SUFFICES ASSUME d.user \in Officers,
                          d.type \in {"daily-collection", "overdue", "loan-portfolio", "emi-schedule"},
                          NEW row \in r.rows
                   PROVE  Theirs(d.user, Rep!LoanOf(d.type, row.id))'
        OBVIOUS
      <4>1. PICK l : l = Rep!LoanOf(d.type, row.id) /\ Theirs(d.user, l)
        BY <2>9 DEF Tells
      <4>2. Theirs(d.user, l)'
        BY <2>4, <4>1
      <4>3. Rep!LoanOf(d.type, row.id)' = l
        BY <3>2, <3>3, <4>1
      <4> QED
        BY <4>2, <4>3 DEF Theirs
    <3> QED
      BY <2>9, <3>1, <3>4 DEF Tells
  <2>10. DeskFits(d)'
    BY <2>1, <2>3, <2>7, <2>8, <2>9 DEF DeskFits
  <2>11. \E e : e = desk' /\ DeskFits(e)'
    BY <2>1, <2>10
  <2> QED
    BY <1>1, <2>11 DEF DeskInv
<1> QED
  BY <1>2, <1>3 DEF DeskInv

\* Leaving a page forgets it.
LEMMA LeaveKeepsDesk ==
  ASSUME DeskInv, Rep!Leave
  PROVE  DeskInv'
<1>1. UNCHANGED tables /\ desk' = Rep!Closed /\ reassigned' = {} /\ changed' = FALSE
  BY DEF Rep!Leave, Rep!tables, tables
<1>2. TablesInv'
  BY <1>1, SameReports DEF DeskInv
<1> QED
  BY <1>1, <1>2 DEF DeskInv, Rep!Closed

\* No page is open at the start.
LEMMA DeskStart == Rep!InitReports => DeskInv
BY TablesStart DEF Rep!InitReports, DeskInv

\* So every step of the report page keeps its invariant,
LEMMA DeskKept ==
  ASSUME DeskInv, Rep!Next
  PROVE  DeskInv'
BY BesideKeepsDesk, OpenKeepsDesk, ReadScopeKeepsDesk, ReadRowsKeepsDesk, ReadLinesKeepsDesk,
   PressKeepsDesk, LeaveKeepsDesk DEF Rep!Next

\* and so do the steps that leave it alone.
LEMMA DeskUnchanged ==
  ASSUME DeskInv, UNCHANGED <<tables, reportVars>>
  PROVE  DeskInv'
<1>1. UNCHANGED <<tables, reassigned, changed>> /\ desk' = desk
  BY DEF reportVars
<1>2. CASE desk = Rep!Closed /\ reassigned = {} /\ ~changed
  <2>1. TablesInv'
    BY <1>1, SameReports DEF DeskInv
  <2> QED
    BY <1>1, <1>2, <2>1 DEF DeskInv, Rep!Closed
<1>3. CASE DeskFits(desk)
  <2>1. PICK d : d = desk /\ d = desk' /\ DeskFits(d)
    BY <1>1, <1>3
  <2> QED
    BY <1>1, <2>1, DeskMoves
<1> QED
  BY <1>2, <1>3 DEF DeskInv

\* What the invariant says of a report, in the words of the report page.
LEMMA ReportsTell ==
  ASSUME DeskInv
  PROVE  /\ Rep!TypeOK /\ Rep!DailyTotalMatchesItsRows /\ Rep!StatementsBalance
         /\ Rep!OfficersSeeTheirCustomers /\ Rep!DailyReportMissesNothing
         /\ Rep!FileHasWhatThePageShows
<1>1. Rep!TypeOK
  <2>1. /\ today \in 1..MaxDay /\ night \in BOOLEAN
        /\ \A c \in DOMAIN collections : collections[c].entry \in DOMAIN entries
    BY DEF DeskInv, TablesInv, TablesTyped, ReceiptsFit
  <2>2. \A l \in Lent : loans[l].status \in Rep!Statuses /\ loans[l].paid \in 0..Parts
    <3> TAKE l \in Lent
    <3>1. loans[l] \in LoanStates
      BY DEF DeskInv, TablesInv, TablesTyped
    <3> QED
      BY <3>1 DEF LoanStates
  <2>3. \A l \in Lent : loans[l].cached = IF loans[l].status = "approved" THEN 0
                                          ELSE Rep!Payable - 2 * loans[l].paid
    BY DEF DeskInv, TablesInv, PaymentsCount
  <2>4. desk # Rep!Closed => Rep!IsReport(desk.shown) /\ Rep!IsReport(desk.file)
    BY DEF DeskInv, DeskFits, DeskTyped
  <2> QED
    BY <2>1, <2>2, <2>3, <2>4 DEF Rep!TypeOK
<1>2. ASSUME desk.phase = "shown"
      PROVE  /\ Tells(desk, desk.shown) /\ desk.user \in Readers
             /\ desk.user = Manager /\ ~changed => desk.shown = Now(desk)
  BY <1>2 DEF DeskInv, DeskFits, DeskTyped, Rep!Closed
<1>3. Rep!DailyTotalMatchesItsRows
  BY <1>2 DEF Rep!DailyTotalMatchesItsRows, Rep!Showing, Rep!At, Tells
<1>4. Rep!StatementsBalance
  BY <1>2 DEF Rep!StatementsBalance, Rep!At, Tells
<1>5. Rep!OfficersSeeTheirCustomers
  BY <1>2 DEF Rep!OfficersSeeTheirCustomers, Rep!OnlyOwnRowsIn, Rep!FilteredByCustomer,
              Rep!At, Tells, Theirs
<1>6. ASSUME Rep!Showing("daily-collection"), desk.user = Manager, desk.dates.given, ~changed,
             NEW i \in DOMAIN collections, collections[i].posted,
             collections[i].date \in desk.dates.start .. desk.dates.end
      PROVE  \E row \in desk.shown.rows : row.id = i
  <2>1. desk.phase = "shown" /\ desk.type = "daily-collection"
    BY <1>6 DEF Rep!Showing, Rep!At
  <2>2. DeskFits(desk) /\ DeskTyped(desk)
    BY <2>1 DEF DeskInv, DeskFits, Rep!Closed
  <2>3. PICK rows : rows = Rep!DailyCollections(AllLoans, desk.dates)
    OBVIOUS
  <2>4. desk.shown = Rep!DailyCollectionReport(rows)
    BY <1>2, <1>6, <2>1, <2>3 DEF Now
  <2>5. desk.shown.rows = rows
    BY <2>4 DEF Rep!DailyCollectionReport, Rep!Report
  <2>6. collections[i].loan \in Lent /\ collections[i].date \in Int
    <3>1. collections[i] \in Receipts
      BY DEF DeskInv, TablesInv, TablesTyped
    <3> QED
      BY <3>1 DEF Receipts
  <2>7. collections[i].loan \in Rep!Within(AllLoans)
    BY <2>6 DEF Rep!Within, AllLoans
  <2>8. desk.dates.start \in Int /\ desk.dates.end \in Int
    BY <2>2 DEF DeskTyped
  <2>9. Rep!InWindow(desk.dates, collections[i].date)
    BY <1>6, <2>6, <2>8 DEF Rep!InWindow, Rep!From, Rep!To, Rep!Midnight
  <2>10. Rep!Row(i, collections[i].amount) \in rows
    BY <1>6, <2>3, <2>7, <2>9 DEF Rep!DailyCollections
  <2> QED
    BY <2>5, <2>10 DEF Rep!Row
<1>7. Rep!DailyReportMissesNothing
  BY <1>6 DEF Rep!DailyReportMissesNothing
<1>8. Rep!FileHasWhatThePageShows
  BY DEF Rep!FileHasWhatThePageShows, Rep!At, DeskInv, DeskFits, Rep!Closed
<1> QED
  BY <1>1, <1>3, <1>4, <1>5, <1>7, <1>8

-----------------------------------------------------------------------------
(* The exports. *)

ListFits(list) == Len(list.rows) <= PageSize /\ Len(list.rows) <= list.total
PageFits(p) ==
  \/ /\ p \in [at : {"collections"}, typed : {p.typed}, applied : {p.applied},
               number : Nat \ {0}, list : {p.list}]
     /\ ListFits(p.list)
  \/ /\ p \in [at : {"loans"}, status : {p.status}, number : Nat \ {0}, list : {p.list}]
     /\ ListFits(p.list)
  \/ p \in [at : {"customers"}, search : {p.search}]

\* The dates that are sent are those of the filters that were applied.
SentFits(b) ==
  /\ b.domain \in {"collections", "loans", "customers"} /\ b.unmask \in BOOLEAN
  /\ b.domain = "collections" => b.query = [from |-> b.seen.from, to |-> b.seen.to]

ListsInv ==
  /\ TablesInv /\ PageFits(page)
  /\ button.phase = "sent" => SentFits(button)
  /\ button.phase = "saved" => Len(button.file.ids) <= FileCap
                               /\ button.audit.count = Len(Lists!DataRowsOf(button.file))
  /\ Lists!ListedRowsAreExported /\ Lists!FileIsWithinTheDates /\ Lists!FullNumbersWereChosen

\* Cardinality is the same in the instance of the exports.
LEMMA ListsSize == \A S : Lists!Cardinality(S) = Cardinality(S)
<1>1. \A S : Lists!IsFiniteSet(S) <=> IsFiniteSet(S)
  BY DEF Lists!IsFiniteSet, IsFiniteSet
<1> QED
  BY <1>1 DEF Lists!Cardinality, Cardinality

\* The exports have the writers of the reports beside them.
LEMMA SameClerks ==
  /\ Lists!Write <=> Rep!Write
  /\ Lists!Tick <=> Rep!Tick
  BY DEF Lists!Write, Rep!Write, Lists!Tick, Rep!Tick, Lists!Disburse, Rep!Disburse, Lists!Collect, Rep!Collect,
    Lists!Reassign, Rep!Reassign, Lists!ReverseCollection, Rep!ReverseCollection, Lists!Spend, Rep!Spend,
    Lists!Post, Rep!Post, Lists!Midnight, Rep!Midnight, Lists!Debit, Rep!Debit, Lists!Credit, Rep!Credit, Lists!Mirror, Rep!Mirror,
    Lists!Payable, Rep!Payable, Lists!PastDue, Rep!PastDue, Lists!Dpd, Rep!Dpd, Lists!StatusAfterPayment, Rep!StatusAfterPayment,
    Lists!Live, Rep!Live, Lists!UtcDay, Rep!UtcDay, Lists!tables, Rep!tables

\* A file has room for a row and a page for one.
LEMMA ExportConstants ==
  FileCap \in Nat \ {0} /\ PageSize \in Nat \ {0} /\ CanUnmask \in BOOLEAN
BY BackOfficeAssumption DEF Lists!ExportsAssumption

\* A page of a list has no more rows than it may and than there are.
LEMMA PagedFits ==
  ASSUME NEW ids, IsFiniteSet(ids), NEW number \in Nat \ {0}
  PROVE  ListFits(Lists!Paged(ids, number))
<1>1. PICK count \in Nat : count = Lists!Cardinality(ids)
  BY ListsSize, FS_CardinalityType
<1>2. PICK skip \in Int : skip = (number - 1) * PageSize
  BY ExportConstants
<1>3. PICK shown : shown = IF count <= skip THEN 0 ELSE Lists!Lesser(PageSize, count - skip)
  OBVIOUS
<1>4. skip >= 0
  <2>1. number - 1 >= 0 /\ PageSize >= 0
    BY ExportConstants
  <2> QED
    BY <1>2, <2>1, ExportConstants
<1>5. shown \in Nat /\ shown <= PageSize /\ shown <= count
  BY <1>1, <1>2, <1>3, <1>4, ExportConstants DEF Lists!Lesser
<1>6. PICK f : f = [k \in 1..shown |-> Lists!Kth(ids, count + 1 - skip - k)]
  OBVIOUS
<1>7. Len(f) = shown
  <2>1. PICK S : S = {f[k] : k \in 1..shown}
    OBVIOUS
  <2>2. f \in [1..shown -> S]
    BY <1>6, <2>1
  <2> QED
    BY <1>5, <2>2
<1>8. Lists!Paged(ids, number).rows = f /\ Lists!Paged(ids, number).total = count
  BY <1>1, <1>2, <1>3, <1>6 DEF Lists!Paged
<1> QED
  BY <1>5, <1>7, <1>8 DEF ListFits

\* A list that is loading is empty.
LEMMA LoadingFits == ListFits(Lists!Loading)
BY ExportConstants DEF ListFits, Lists!Loading

\* What the first rows of a query leave out is no newer, and then there is no
\* room for it.
LEMMA TakesFits ==
  ASSUME NEW ids, IsFiniteSet(ids), NEW key, NEW s \in Lists!Takes(ids, key)
  PROVE  /\ Len(s) \in Nat /\ Len(s) <= FileCap /\ s \in [1..Len(s) -> ids]
         /\ \A i \in ids : \/ i \in Lists!Range(s)
                           \/ /\ Len(s) = FileCap
                              /\ \A j \in Lists!Range(s) : key[j] >= key[i]
<1>1. PICK c \in Nat : c = Cardinality(ids) /\ c = Lists!Cardinality(ids)
  BY ListsSize, FS_CardinalityType
<1>2. PICK n : n = Lists!Min({FileCap, c})
  OBVIOUS
<1>3. n \in {FileCap, c} /\ n <= FileCap /\ n <= c
  <2>1. \E x \in {FileCap, c} : \A y \in {FileCap, c} : x <= y
    BY ExportConstants
  <2> QED
    BY <1>2, <2>1 DEF Lists!Min
<1>4. /\ s \in [1..n -> ids] /\ Lists!IsInjective(s)
      /\ \A id \in ids \ Lists!Range(s), i \in 1..n : key[s[i]] >= key[id]
  BY <1>1, <1>2 DEF Lists!Takes
<1>5. n \in Nat
  BY <1>3, ExportConstants
<1>6. Len(s) = n
  BY <1>4, <1>5
<1>7. ASSUME NEW i \in ids, i \notin Lists!Range(s)
      PROVE  n = FileCap /\ \A j \in Lists!Range(s) : key[j] >= key[i]
  <2>1. \A j \in Lists!Range(s) : key[j] >= key[i]
    BY <1>4, <1>7 DEF Lists!Range
  <2>2. ASSUME n = c PROVE FALSE
    <3>1. IsFiniteSet(1..n) /\ Cardinality(1..n) = n
      BY <1>5, FS_Interval
    <3>2. s \in Injection(1..n, ids)
      BY <1>4 DEF Injection, IsInjective, Lists!IsInjective
    <3>3. s \in Surjection(1..n, ids)
      BY <1>1, <2>2, <3>1, <3>2, FS_Injection
    <3> QED
      BY <1>4, <1>7, <3>3 DEF Surjection, Lists!Range
  <2> QED
    BY <1>3, <2>1, <2>2
<1> QED
  BY <1>3, <1>4, <1>5, <1>6, <1>7

\* The rows of a sheet are at its end.
LEMMA SheetEnds ==
  ASSUME NEW S, NEW head \in Seq(S), NEW rest \in Seq(S)
  PROVE  LET sheet == head \o rest
             rows == SubSeq(sheet, Len(sheet) - Len(rest) + 1, Len(sheet))
         IN  Len(rows) = Len(rest) /\ \A r \in 1..Len(rest) : rows[r] = rest[r]
<1>1. PICK h \in Nat, n \in Nat : h = Len(head) /\ n = Len(rest)
  OBVIOUS
<1>2. PICK sheet : sheet = head \o rest
  OBVIOUS
<1>3. sheet \in Seq(S) /\ Len(sheet) = h + n /\ \A r \in 1..n : sheet[h + r] = rest[r]
  BY <1>1, <1>2
<1>4. PICK rows : rows = SubSeq(sheet, h + 1, h + n)
  OBVIOUS
<1>5. Len(rows) = n /\ \A r \in 1..n : rows[r] = sheet[h + r]
  BY <1>1, <1>3, <1>4
<1>6. (h + n) - n + 1 = h + 1
  BY <1>1
<1> QED
  BY <1>1, <1>2, <1>3, <1>4, <1>5, <1>6

\* The rows under the header of a sheet are one for each row that was read, with
\* every cell formatted by its column.
LEMMA DataRowsFit ==
  ASSUME NEW columns, NEW n \in Nat, NEW rows, DOMAIN rows = 1..n, NEW filters, NEW unmask,
         NEW file, file.sheet = Lists!Sheet(columns, rows, filters, unmask), Len(file.ids) = n
  PROVE  /\ Len(Lists!DataRowsOf(file)) = n /\ DOMAIN Lists!DataRowsOf(file) = 1..n
         /\ \A r \in 1..n :
              Lists!DataRowsOf(file)[r]
                = [c \in DOMAIN columns |->
                     Lists!Formatted(columns[c], rows[r][columns[c].key], unmask)]
<1>1. PICK lines \in Nat : lines = 1 + (IF filters THEN 1 ELSE 0) + (IF TRUE THEN 1 ELSE 0)
  OBVIOUS
<1>2. PICK notes : notes = [i \in 1..lines |-> [c \in DOMAIN columns |-> Lists!Note]]
  OBVIOUS
<1>3. PICK top : top = Lists!Header(columns)
  OBVIOUS
<1>4. PICK rest : rest = [r \in 1..n |-> [c \in DOMAIN columns |->
                            Lists!Formatted(columns[c], rows[r][columns[c].key], unmask)]]
  OBVIOUS
<1>5. PICK S : S = {notes[i] : i \in 1..lines} \cup {<<>>, top} \cup {rest[r] : r \in 1..n}
  OBVIOUS
<1>6. notes \in Seq(S) /\ rest \in Seq(S) /\ Len(rest) = n
  <2>1. notes \in [1..lines -> S]
    BY <1>2, <1>5
  <2>2. rest \in [1..n -> S]
    BY <1>4, <1>5
  <2> QED
    BY <2>1, <2>2
<1>7. << <<>> >> \in Seq(S) /\ <<top>> \in Seq(S)
  BY <1>5
<1>8. PICK head : head = (notes \o << <<>> >>) \o <<top>>
  OBVIOUS
<1>9. head \in Seq(S)
  BY <1>6, <1>7, <1>8
<1>10. file.sheet = head \o rest
  BY <1>1, <1>2, <1>3, <1>4, <1>8 DEF Lists!Sheet, Lists!ExportToBuffer, Lists!Heading
<1>11. PICK data : data = Lists!DataRowsOf(file)
  OBVIOUS
<1>12. Len(data) = n /\ \A r \in 1..n : data[r] = rest[r]
  BY <1>6, <1>9, <1>10, <1>11, SheetEnds DEF Lists!DataRowsOf
<1>13. DOMAIN data = 1..n
  BY <1>11, <1>12 DEF Lists!DataRowsOf
<1> QED
  BY <1>4, <1>11, <1>12, <1>13

\* A step that gives no file keeps the invariant if page and button still fit.
LEMMA ListsMove ==
  ASSUME TablesInv', NEW p, page' = p, PageFits(p), NEW b, button' = b, b.phase # "saved",
         b.phase = "sent" => SentFits(b)
  PROVE  ListsInv'
<1>1. PageFits(page') /\ (button'.phase = "sent" => SentFits(button')) /\ button'.phase # "saved"
  OBVIOUS
<1> QED
  BY <1>1 DEF ListsInv, Lists!ListedRowsAreExported, Lists!FileIsWithinTheDates,
              Lists!FullNumbersWereChosen, Lists!Saved

\* Every step but an answer settles the button.
LEMMA SettleFits ==
  ASSUME ListsInv, Lists!Settle
  PROVE  \E b : button' = b /\ b.phase # "saved" /\ (b.phase = "sent" => SentFits(b))
<1>1. CASE button.phase \in {"saved", "failed"}
  BY <1>1 DEF Lists!Settle, Lists!Idle
<1>2. CASE button.phase \notin {"saved", "failed"}
  BY <1>2 DEF Lists!Settle, ListsInv
<1> QED
  BY <1>1, <1>2

\* A step of the page leaves the tables alone and settles the button.
LEMMA PageMoves ==
  ASSUME ListsInv, UNCHANGED tables, Lists!Settle, NEW p, page' = p, PageFits(p)
  PROVE  ListsInv'
<1>1. TablesInv'
  BY SameReports DEF ListsInv
<1>2. PICK b : button' = b /\ b.phase # "saved" /\ (b.phase = "sent" => SentFits(b))
  BY SettleFits
<1> QED
  BY <1>1, <1>2, ListsMove

\* The pages as they open.
LEMMA PagesStart ==
  /\ PageFits(Lists!CollectionsPage) /\ PageFits(Lists!LoansPage) /\ PageFits(Lists!CustomersPage)
BY LoadingFits DEF PageFits, Lists!CollectionsPage, Lists!LoansPage, Lists!CustomersPage

\* The collections page is open at the start, and nothing is pressed.
LEMMA ListsStart == Lists!InitExports /\ TablesInv => ListsInv
<1> SUFFICES ASSUME Lists!InitExports, TablesInv PROVE ListsInv
  OBVIOUS
<1>1. page = Lists!CollectionsPage /\ button.phase = "idle"
  BY DEF Lists!InitExports, Lists!Idle
<1> QED
  BY <1>1, PagesStart DEF ListsInv, Lists!ListedRowsAreExported, Lists!FileIsWithinTheDates,
              Lists!FullNumbersWereChosen, Lists!Saved

\* The others write while a page is open.
LEMMA ClerksKeepLists ==
  ASSUME ListsInv, Lists!Beside
  PROVE  ListsInv'
<1>1. TablesInv' /\ Lists!Settle /\ page' = page
  BY SameClerks, TablesKept DEF Lists!Beside, ListsInv
<1>2. PICK b : button' = b /\ b.phase # "saved" /\ (b.phase = "sent" => SentFits(b))
  BY <1>1, SettleFits
<1> QED
  BY <1>1, <1>2, ListsMove DEF ListsInv

\* Another page, and what is done on the one that is open.
LEMMA OpenKeepsLists ==
  ASSUME ListsInv, NEW p \in {Lists!CollectionsPage, Lists!LoansPage, Lists!CustomersPage}, Lists!Open(p)
  PROVE  ListsInv'
<1>1. UNCHANGED tables /\ page' = p /\ button' = Lists!Idle
  BY DEF Lists!Open, Lists!Stay, Lists!tables, tables
<1>2. TablesInv'
  BY <1>1, SameReports DEF ListsInv
<1>3. PageFits(p)
  BY PagesStart
<1>4. Lists!Idle.phase = "idle"
  BY DEF Lists!Idle
<1> QED
  BY <1>1, <1>2, <1>3, <1>4, ListsMove

\* Filters start the list again.
LEMMA FiltersKeepLists ==
  ASSUME ListsInv, \/ \E f \in Inputs : Lists!Type(f)
                   \/ Lists!Apply \/ Lists!ClearFilters
                   \/ \E s \in {"any"} \cup Lists!Statuses : Lists!StatusChange(s)
                   \/ \E l \in {Lists!AnyLoan} \cup Lent : Lists!Search(l)
  PROVE  ListsInv'
<1>1. UNCHANGED tables /\ Lists!Settle
  BY DEF Lists!Type, Lists!Apply, Lists!ClearFilters, Lists!StatusChange, Lists!Search, Lists!Stay,
         Lists!tables, tables
<1>2. PICK q : q = page /\ PageFits(q)
  BY DEF ListsInv
<1>3. ASSUME NEW f \in Inputs, Lists!Type(f)
      PROVE  \E p : page' = p /\ PageFits(p)
  <2>1. PICK p : p = [q EXCEPT !.typed = f] /\ page' = p /\ q.at = "collections"
    BY <1>2, <1>3 DEF Lists!Type
  <2>2. /\ p \in [at : {"collections"}, typed : {f}, applied : {q.applied},
                  number : Nat \ {0}, list : {q.list}]
        /\ ListFits(q.list)
    BY <1>2, <2>1 DEF PageFits
  <2>3. p.typed = f /\ p.applied = q.applied /\ p.list = q.list
    BY <2>2
  <2> QED
    BY <2>1, <2>2, <2>3 DEF PageFits
<1>4. ASSUME Lists!Apply
      PROVE  \E p : page' = p /\ PageFits(p)
  <2>1. PICK p : /\ p = [q EXCEPT !.applied = q.typed, !.number = 1, !.list = Lists!Loading]
                 /\ page' = p /\ q.at = "collections"
    BY <1>2, <1>4 DEF Lists!Apply
  <2>2. p \in [at : {"collections"}, typed : {q.typed}, applied : {q.typed},
               number : Nat \ {0}, list : {Lists!Loading}]
    <3>1. q \in [at : {"collections"}, typed : {q.typed}, applied : {q.applied},
                 number : Nat \ {0}, list : {q.list}]
      BY <1>2, <2>1 DEF PageFits
    <3>2. PICK t, a, n, x : q = [at |-> "collections", typed |-> t, applied |-> a, number |-> n, list |-> x]
      BY <3>1
    <3>3. p = [at |-> "collections", typed |-> t, applied |-> t, number |-> 1, list |-> Lists!Loading]
      BY <2>1, <3>2
    <3>4. q.typed = t
      BY <3>2
    <3> QED
      BY <3>3, <3>4
  <2>3. p.typed = q.typed /\ p.applied = q.typed /\ p.list = Lists!Loading
    BY <2>2
  <2> QED
    BY <2>1, <2>2, <2>3, LoadingFits DEF PageFits
<1>5. ASSUME Lists!ClearFilters
      PROVE  \E p : page' = p /\ PageFits(p)
  <2>1. PICK p : /\ p = [Lists!CollectionsPage EXCEPT !.typed = Lists!NoFilter, !.applied = Lists!NoFilter]
                 /\ page' = p
    BY <1>5 DEF Lists!ClearFilters
  <2>2. p = [at |-> "collections", typed |-> Lists!NoFilter, applied |-> Lists!NoFilter,
             number |-> 1, list |-> Lists!Loading]
    BY <2>1 DEF Lists!CollectionsPage
  <2>3. PICK none, list : none = Lists!NoFilter /\ list = Lists!Loading
    OBVIOUS
  <2>4. p \in [at : {"collections"}, typed : {none}, applied : {none}, number : Nat \ {0}, list : {list}]
    BY <2>2, <2>3
  <2>5. p.typed = none /\ p.applied = none /\ p.list = list
    BY <2>2, <2>3
  <2>6. ListFits(p.list)
    BY <2>3, <2>5, LoadingFits
  <2> QED
    BY <2>1, <2>4, <2>5, <2>6 DEF PageFits
<1>6. ASSUME NEW s, Lists!StatusChange(s)
      PROVE  \E p : page' = p /\ PageFits(p)
  <2>1. PICK p : p = [Lists!LoansPage EXCEPT !.status = s] /\ page' = p
    BY <1>6 DEF Lists!StatusChange
  <2>2. p = [at |-> "loans", status |-> s, number |-> 1, list |-> Lists!Loading]
    BY <2>1 DEF Lists!LoansPage
  <2> QED
    BY <2>1, <2>2, LoadingFits DEF PageFits
<1>7. ASSUME NEW l, Lists!Search(l)
      PROVE  \E p : page' = p /\ PageFits(p)
  <2>1. PICK p : p = [q EXCEPT !.search = l] /\ page' = p /\ q.at = "customers"
    BY <1>2, <1>7 DEF Lists!Search
  <2>2. p \in [at : {"customers"}, search : {l}]
    BY <1>2, <2>1 DEF PageFits
  <2>3. p.search = l
    BY <2>2
  <2> QED
    BY <2>1, <2>2, <2>3 DEF PageFits
<1>8. PICK p : page' = p /\ PageFits(p)
  BY <1>3, <1>4, <1>5, <1>6, <1>7
<1> QED
  BY <1>1, <1>8, PageMoves

\* Another page of a list is loaded anew.
LEMMA TurnKeepsLists ==
  ASSUME ListsInv, NEW number, Lists!Turn(number)
  PROVE  ListsInv'
<1>1. UNCHANGED tables /\ Lists!Settle
  BY DEF Lists!Turn, Lists!Stay, Lists!tables, tables
<1>2. PICK q : q = page /\ PageFits(q) /\ q.at \in {"collections", "loans"}
  BY DEF ListsInv, Lists!Turn, Lists!OnList
<1>3. q.number \in Nat \ {0}
  BY <1>2 DEF PageFits
<1>4. number \in Nat \ {0}
  BY <1>2, <1>3 DEF Lists!Turn
<1>5. PICK p : p = [q EXCEPT !.number = number, !.list = Lists!Loading] /\ page' = p
  BY <1>2 DEF Lists!Turn
<1>6. CASE q.at = "collections"
  <2>1. /\ p \in [at : {"collections"}, typed : {q.typed}, applied : {q.applied},
                  number : Nat \ {0}, list : {Lists!Loading}]
    BY <1>2, <1>4, <1>5, <1>6 DEF PageFits
  <2>2. p.typed = q.typed /\ p.applied = q.applied /\ p.list = Lists!Loading
    BY <2>1
  <2>3. PageFits(p)
    BY <2>1, <2>2, LoadingFits DEF PageFits
  <2> QED
    BY <1>1, <1>5, <2>3, PageMoves
<1>7. CASE q.at = "loans"
  <2>1. p \in [at : {"loans"}, status : {q.status}, number : Nat \ {0}, list : {Lists!Loading}]
    BY <1>2, <1>4, <1>5, <1>7 DEF PageFits
  <2>2. p.status = q.status /\ p.list = Lists!Loading
    BY <2>1
  <2>3. PageFits(p)
    BY <2>1, <2>2, LoadingFits DEF PageFits
  <2> QED
    BY <1>1, <1>5, <2>3, PageMoves
<1> QED
  BY <1>2, <1>6, <1>7

\* A list that is loaded has what matches the filters that were applied.
LEMMA LoadKeepsLists ==
  ASSUME ListsInv, Lists!Load
  PROVE  ListsInv'
<1>1. UNCHANGED tables /\ Lists!Settle
  BY DEF Lists!Load, Lists!Stay, Lists!tables, tables
<1>2. PICK q : q = page /\ PageFits(q) /\ q.at \in {"collections", "loans"}
  BY DEF ListsInv, Lists!Load, Lists!OnList
<1>3. PICK ids : ids = IF q.at = "collections" THEN Lists!Listed(q.applied)
                       ELSE {Lists!NumberOf[l] : l \in Lists!LoansOf(q.status)}
  OBVIOUS
<1>4. PICK p : p = [q EXCEPT !.list = Lists!Paged(ids, q.number)] /\ page' = p
  BY <1>2, <1>3 DEF Lists!Load
<1>5. IsFiniteSet(ids)
  <2>1. CASE q.at = "collections"
    <3>1. PICK n \in Nat : DOMAIN collections = 1..n
      BY DEF ListsInv, TablesInv, TablesTyped
    <3>2. ids \in SUBSET (1..n)
      BY <1>3, <2>1, <3>1 DEF Lists!Listed
    <3>3. IsFiniteSet(1..n)
      BY FS_Interval
    <3> QED
      BY <3>2, <3>3, FS_Subset
  <2>2. CASE q.at # "collections"
    <3>1. Lists!LoansOf(q.status) \in SUBSET Lent
      BY DEF Lists!LoansOf
    <3>2. IsFiniteSet(Lists!LoansOf(q.status))
      BY <3>1, LoansFinite, FS_Subset
    <3>3. PICK g : g = Lists!NumberOf
      OBVIOUS
    <3> QED
      BY <1>3, <2>2, <3>2, <3>3, FiniteImage
  <2> QED
    BY <2>1, <2>2
<1>6. PICK list : list = Lists!Paged(ids, q.number) /\ ListFits(list)
  <2>1. q.number \in Nat \ {0}
    BY <1>2 DEF PageFits
  <2> QED
    BY <1>5, <2>1, PagedFits
<1>7. CASE q.at = "collections"
  <2>1. /\ p \in [at : {"collections"}, typed : {q.typed}, applied : {q.applied},
                  number : Nat \ {0}, list : {list}]
    BY <1>2, <1>4, <1>6, <1>7 DEF PageFits
  <2>2. p.typed = q.typed /\ p.applied = q.applied /\ p.list = list
    BY <2>1
  <2>3. PageFits(p)
    BY <1>6, <2>1, <2>2 DEF PageFits
  <2> QED
    BY <1>1, <1>4, <2>3, PageMoves
<1>8. CASE q.at = "loans"
  <2>1. p \in [at : {"loans"}, status : {q.status}, number : Nat \ {0}, list : {list}]
    BY <1>2, <1>4, <1>6, <1>8 DEF PageFits
  <2>2. p.status = q.status /\ p.list = list
    BY <2>1
  <2>3. PageFits(p)
    BY <1>6, <2>1, <2>2 DEF PageFits
  <2> QED
    BY <1>1, <1>4, <2>3, PageMoves
<1> QED
  BY <1>2, <1>7, <1>8

\* The button is pressed, and sends what the page hands it.
LEMMA SentKeepsLists ==
  ASSUME ListsInv, \/ Lists!Press \/ Lists!Dismiss \/ Lists!Fail
                   \/ \E b \in BOOLEAN : Lists!Choose(b)
  PROVE  ListsInv'
<1>1. UNCHANGED tables /\ page' = page
  BY DEF Lists!Press, Lists!Dismiss, Lists!Fail, Lists!Choose, Lists!Stay, Lists!tables, tables
<1>2. TablesInv' /\ PageFits(page)
  BY <1>1, SameReports DEF ListsInv
<1>3. ASSUME NEW unmask \in BOOLEAN
      PROVE  Lists!Sent(unmask).phase = "sent" /\ SentFits(Lists!Sent(unmask))
  <2>1. page.at \in {"collections", "loans", "customers"}
    BY <1>2 DEF PageFits
  <2>2. PICK s : s = Lists!Sent(unmask)
    OBVIOUS
  <2>3. /\ s.phase = "sent" /\ s.domain = page.at /\ s.unmask = unmask /\ s.query = Lists!Query
        /\ page.at = "collections" => s.seen = page.applied
    BY <2>2 DEF Lists!Sent
  <2>4. page.at = "collections" => Lists!Query = [from |-> page.applied.from, to |-> page.applied.to]
    BY DEF Lists!Query
  <2> QED
    BY <2>1, <2>2, <2>3, <2>4 DEF SentFits
<1>4. \/ button' \in {Lists!Idle, [phase |-> "asking"], [phase |-> "failed"]}
      \/ \E unmask \in BOOLEAN : button' = Lists!Sent(unmask)
  BY DEF Lists!Press, Lists!Dismiss, Lists!Fail, Lists!Choose
<1>5. \E b : button' = b /\ b.phase # "saved" /\ (b.phase = "sent" => SentFits(b))
  BY <1>3, <1>4 DEF Lists!Idle
<1> QED
  BY <1>1, <1>2, <1>5, ListsMove

\* The file of the collections has what the dates allow, and no row that is on
\* the list is left out but for newer ones.
LEMMA CollectionsFile ==
  ASSUME TablesInv, NEW seen, NEW query, query = [from |-> seen.from, to |-> seen.to],
         NEW file \in Lists!ExportCollections(query)
  PROVE  /\ Len(file.ids) <= FileCap /\ Len(Lists!DataRowsOf(file)) = Len(file.ids)
         /\ \A i \in Lists!Listed(seen) :
              \/ i \in Lists!Range(file.ids)
              \/ /\ Len(file.ids) = FileCap
                 /\ \A j \in Lists!Range(file.ids) : collections[j].date >= collections[i].date
         /\ \A i \in Lists!Range(file.ids) :
              /\ query.from # Lists!Unset => collections[i].date >= query.from
              /\ query.to # Lists!Unset => collections[i].date <= query.to
<1>1. PICK ids, key : ids = Lists!Matched(query) /\ key = [i \in DOMAIN collections |-> collections[i].date]
  OBVIOUS
<1>2. ids \subseteq DOMAIN collections /\ IsFiniteSet(ids)
  <2>1. PICK n \in Nat : DOMAIN collections = 1..n
    BY DEF TablesInv, TablesTyped
  <2>2. ids \in SUBSET (1..n)
    BY <1>1, <2>1 DEF Lists!Matched
  <2>3. IsFiniteSet(1..n)
    BY FS_Interval
  <2> QED
    BY <2>1, <2>2, <2>3, FS_Subset
<1>3. PICK s, columns, rows, filters :
        /\ s \in Lists!Takes(ids, key) /\ file.ids = s /\ DOMAIN rows = DOMAIN s
        /\ file.sheet = Lists!Sheet(columns, rows, filters, FALSE)
  <2>1. PICK s \in Lists!Takes(ids, key) :
          file = [ids |-> s,
            sheet |-> Lists!Sheet(<<Lists!Column("payment_date", "date"), Lists!Column("loan_number", "string"),
                              Lists!Column("amount_paise", "currency"), Lists!Column("status", "string")>>,
                            [r \in DOMAIN s |->
                               [payment_date |-> Lists!Value("date", collections[s[r]].date),
                                loan_number |-> Lists!Value("string", collections[s[r]].loan),
                                amount_paise |-> Lists!Value("bigint", collections[s[r]].amount),
                                status |-> Lists!Value("string", IF collections[s[r]].posted
                                                           THEN "posted" ELSE "reversed")]],
                            query.from # Lists!Unset \/ query.to # Lists!Unset, FALSE)]
    BY <1>1, Zenon DEF Lists!ExportCollections
  <2> QED
    BY <2>1
<1>4. /\ Len(s) \in Nat /\ Len(s) <= FileCap /\ s \in [1..Len(s) -> ids]
      /\ \A i \in ids : \/ i \in Lists!Range(s)
                        \/ /\ Len(s) = FileCap
                           /\ \A j \in Lists!Range(s) : key[j] >= key[i]
  BY <1>2, <1>3, TakesFits
<1>5. Len(Lists!DataRowsOf(file)) = Len(s)
  <2>1. PICK n \in Nat : n = Len(s) /\ Len(file.ids) = n /\ DOMAIN rows = 1..n
    BY <1>3, <1>4
  <2>2. PICK unmask : file.sheet = Lists!Sheet(columns, rows, filters, unmask)
    BY <1>3
  <2>3. Len(Lists!DataRowsOf(file)) = n
    BY <2>1, <2>2, DataRowsFit
  <2> QED
    BY <2>1, <2>3
<1>6. Lists!Range(s) \subseteq ids
  BY <1>4 DEF Lists!Range
<1>7. \A i \in ids : key[i] = collections[i].date
  BY <1>1, <1>2
<1>8. Lists!Listed(seen) \subseteq ids
  BY <1>1 DEF Lists!Listed, Lists!Matched
<1>9. \A i \in ids : /\ query.from # Lists!Unset => collections[i].date >= query.from
                     /\ query.to # Lists!Unset => collections[i].date <= query.to
  BY <1>1 DEF Lists!Matched
<1> QED
  BY <1>3, <1>4, <1>5, <1>6, <1>7, <1>8, <1>9

\* The other files have a row for everything that was read.
LEMMA LoansFile ==
  ASSUME NEW status, NEW file \in Lists!ExportLoans(status)
  PROVE  Len(file.ids) <= FileCap /\ Len(Lists!DataRowsOf(file)) = Len(file.ids)
<1>1. PICK ids, key : ids = Lists!LoansOf(status) /\ key = Lists!NumberOf
  OBVIOUS
<1>2. IsFiniteSet(ids)
  <2>1. ids \in SUBSET Lent
    BY <1>1 DEF Lists!LoansOf
  <2> QED
    BY <2>1, LoansFinite, FS_Subset
<1>3. PICK s, columns, rows, filters :
        /\ s \in Lists!Takes(ids, key) /\ file.ids = s /\ DOMAIN rows = DOMAIN s
        /\ file.sheet = Lists!Sheet(columns, rows, filters, FALSE)
  <2>1. PICK s \in Lists!Takes(ids, key) :
          file = [ids |-> s,
            sheet |-> Lists!Sheet(<<Lists!Column("loan_number", "string"),
                              Lists!Column("cached_outstanding_paise", "currency"),
                              Lists!Column("dpd", "number"), Lists!Column("status", "string")>>,
                            [r \in DOMAIN s |->
                               [loan_number |-> Lists!Value("string", s[r]),
                                cached_outstanding_paise |-> Lists!Value("bigint", loans[s[r]].cached),
                                dpd |-> Lists!Value("number", loans[s[r]].dpd),
                                status |-> Lists!Value("string", loans[s[r]].status)]],
                            status # "any", FALSE)]
    BY <1>1, Zenon DEF Lists!ExportLoans
  <2> QED
    BY <2>1
<1>4. Len(s) \in Nat /\ Len(s) <= FileCap /\ s \in [1..Len(s) -> ids]
  BY <1>2, <1>3, TakesFits
<1>5. PICK n \in Nat : n = Len(s) /\ Len(file.ids) = n /\ DOMAIN rows = 1..n
  BY <1>3, <1>4
<1>6. PICK unmask : file.sheet = Lists!Sheet(columns, rows, filters, unmask)
  BY <1>3
<1>7. Len(Lists!DataRowsOf(file)) = n
  BY <1>5, <1>6, DataRowsFit
<1> QED
  BY <1>4, <1>5, <1>7

\* The numbers of customers are full when that was chosen.
LEMMA CustomersFile ==
  ASSUME NEW search, NEW unmask \in BOOLEAN, NEW file \in Lists!ExportCustomers(search, unmask)
  PROVE  /\ Len(file.ids) <= FileCap /\ Len(Lists!DataRowsOf(file)) = Len(file.ids)
         /\ file.ids # <<>> =>
              ((\E r \in DOMAIN Lists!DataRowsOf(file) : Lists!DataRowsOf(file)[r][2].form = "string")
                 <=> unmask)
<1>1. PICK ids, key : ids = {l \in Lent : search \in {Lists!AnyLoan, l}} /\ key = Lists!NumberOf
  OBVIOUS
<1>2. IsFiniteSet(ids)
  <2>1. ids \in SUBSET Lent
    BY <1>1
  <2> QED
    BY <2>1, LoansFinite, FS_Subset
<1>3. PICK columns : columns = <<Lists!Column("full_name", "string"),
                                 [Lists!Column("mobile", "string") EXCEPT !.mask = TRUE]>>
  OBVIOUS
<1>4. PICK s, rows, filters :
        /\ s \in Lists!Takes(ids, key) /\ file.ids = s
        /\ rows = [r \in DOMAIN s |-> [full_name |-> Lists!Value("string", s[r]),
                                       mobile |-> Lists!Value("string", s[r])]]
        /\ file.sheet = Lists!Sheet(columns, rows, filters, unmask)
  <2>1. PICK s \in Lists!Takes(ids, key) :
          file = [ids |-> s,
            sheet |-> Lists!Sheet(columns,
                            [r \in DOMAIN s |-> [full_name |-> Lists!Value("string", s[r]),
                                                mobile |-> Lists!Value("string", s[r])]],
                            search # Lists!AnyLoan, unmask)]
    BY <1>1, <1>3, Zenon DEF Lists!ExportCustomers
  <2> QED
    BY <2>1
<1>5. Len(s) \in Nat /\ Len(s) <= FileCap /\ s \in [1..Len(s) -> ids]
  BY <1>2, <1>4, TakesFits
<1>6. PICK n \in Nat : n = Len(s) /\ DOMAIN s = 1..n
  BY <1>5
<1>7. DOMAIN rows = 1..n /\ \A r \in 1..n : rows[r].mobile = Lists!Value("string", s[r])
  BY <1>4, <1>6
<1>8. PICK data : data = Lists!DataRowsOf(file)
  OBVIOUS
<1>9. /\ Len(data) = n /\ DOMAIN data = 1..n
      /\ \A r \in 1..n :
           data[r] = [c \in DOMAIN columns |->
                        Lists!Formatted(columns[c], rows[r][columns[c].key], unmask)]
  <2>1. file.sheet = Lists!Sheet(columns, rows, filters, unmask) /\ Len(file.ids) = n
    BY <1>4, <1>6
  <2>2. DOMAIN rows = 1..n
    BY <1>7
  <2> QED
    BY <1>8, <2>1, <2>2, DataRowsFit
<1>10. /\ DOMAIN columns = 1..2 /\ columns[2].key = "mobile" /\ columns[2].type = "string"
       /\ columns[2].mask = TRUE
  BY <1>3 DEF Lists!Column
<1>11. ASSUME NEW r \in 1..n
       PROVE  data[r][2].form = IF unmask THEN "string" ELSE "masked"
  <2>1. data[r][2] = Lists!Formatted(columns[2], rows[r][columns[2].key], unmask)
    BY <1>9, <1>10
  <2>2. PICK raw : raw = rows[r][columns[2].key] /\ raw.type = "string"
    <3>1. rows[r][columns[2].key] = Lists!Value("string", s[r])
      BY <1>7, <1>10
    <3> QED
      BY <3>1 DEF Lists!Value
  <2>3. CASE unmask = TRUE
    <3>1. Lists!Formatted(columns[2], raw, unmask) = Lists!Cell("string", raw.of)
      BY <1>10, <2>2, <2>3 DEF Lists!Formatted
    <3> QED
      BY <2>1, <2>2, <2>3, <3>1 DEF Lists!Cell
  <2>4. CASE unmask = FALSE
    <3>1. Lists!Formatted(columns[2], raw, unmask) = Lists!Cell("masked", raw.of)
      BY <1>10, <2>2, <2>4 DEF Lists!Formatted
    <3> QED
      BY <2>1, <2>2, <2>4, <3>1 DEF Lists!Cell
  <2> QED
    BY <2>3, <2>4
<1>12. s # <<>> => n >= 1
  <2>1. ASSUME n = 0 PROVE s = <<>>
    <3>1. 1..n = {}
      BY <2>1
    <3> QED
      BY <1>5, <1>6, <3>1
  <2> QED
    BY <2>1
<1>13. ASSUME s # <<>>
       PROVE  (\E r \in DOMAIN data : data[r][2].form = "string") <=> unmask
  <2>1. 1 \in 1..n
    BY <1>12, <1>13
  <2>2. CASE unmask = TRUE
    BY <1>9, <1>11, <2>1, <2>2
  <2>3. CASE unmask = FALSE
    BY <1>9, <1>11, <2>3
  <2> QED
    BY <2>2, <2>3
<1> QED
  BY <1>4, <1>5, <1>6, <1>8, <1>9, <1>13

\* So the answer to what was sent keeps the invariant.
LEMMA ServeKeepsLists ==
  ASSUME ListsInv, Lists!Serve
  PROVE  ListsInv'
<1>1. PICK b : b = button /\ SentFits(b) /\ b.phase = "sent"
  BY DEF ListsInv, Lists!Serve
<1>2. UNCHANGED tables /\ UNCHANGED <<today, night, loans, collections, entries>> /\ page' = page
  BY DEF Lists!Serve, Lists!tables, tables
<1>3. TablesInv /\ TablesInv' /\ PageFits(page')
  BY <1>2, SameReports DEF ListsInv
<1>4. PICK file \in Lists!FilesServed, audited \in BOOLEAN :
        button' = [phase |-> "saved", domain |-> b.domain, query |-> b.query,
                   unmask |-> b.unmask, file |-> file, listed |-> Lists!Listed(b.seen),
                   audit |-> [written |-> audited, count |-> Len(file.ids),
                              piiUnmasked |-> b.unmask]]
  BY <1>1 DEF Lists!Serve
<1>5. PICK d : /\ d = button' /\ d.phase = "saved" /\ d.domain = b.domain /\ d.query = b.query
               /\ d.unmask = b.unmask /\ d.file = file /\ d.listed = Lists!Listed(b.seen)
               /\ d.audit.count = Len(file.ids) /\ d.audit.piiUnmasked = b.unmask
  BY <1>4
<1>6. b.domain = "collections" => file \in Lists!ExportCollections(b.query)
  BY <1>1, <1>4 DEF Lists!FilesServed
<1>7. b.domain = "loans" => file \in Lists!ExportLoans(b.query.status)
  BY <1>1, <1>4 DEF Lists!FilesServed
<1>8. b.domain = "customers" => file \in Lists!ExportCustomers(b.query.search, b.unmask)
  BY <1>1, <1>4 DEF Lists!FilesServed
<1>9. Len(file.ids) <= FileCap /\ Len(Lists!DataRowsOf(file)) = Len(file.ids)
  BY <1>1, <1>3, <1>6, <1>7, <1>8, CollectionsFile, LoansFile, CustomersFile DEF SentFits
<1>10. ASSUME d.domain = "collections"
       PROVE  /\ \A i \in d.listed :
                   \/ i \in Lists!Range(file.ids)
                   \/ /\ Len(file.ids) = FileCap
                      /\ \A j \in Lists!Range(file.ids) : collections[j].date >= collections[i].date
              /\ \A i \in Lists!Range(file.ids) :
                   /\ d.query.from # Lists!Unset => collections[i].date >= d.query.from
                   /\ d.query.to # Lists!Unset => collections[i].date <= d.query.to
  <2>1. PICK seen, query : seen = b.seen /\ query = b.query /\ query = [from |-> seen.from, to |-> seen.to]
    BY <1>1, <1>5, <1>10 DEF SentFits
  <2>2. file \in Lists!ExportCollections(query)
    BY <1>5, <1>6, <1>10, <2>1
  <2> QED
    BY <1>3, <1>5, <2>1, <2>2, CollectionsFile
<1>11. ASSUME d.domain = "customers", file.ids # <<>>
       PROVE  (\E r \in DOMAIN Lists!DataRowsOf(file) : Lists!DataRowsOf(file)[r][2].form = "string")
                 <=> d.unmask
  BY <1>1, <1>5, <1>8, <1>11, CustomersFile DEF SentFits
<1>12. Lists!ListedRowsAreExported'
  BY <1>2, <1>5, <1>10 DEF Lists!ListedRowsAreExported, Lists!Saved
<1>13. Lists!FileIsWithinTheDates'
  BY <1>2, <1>5, <1>10 DEF Lists!FileIsWithinTheDates, Lists!Saved
<1>14. Lists!FullNumbersWereChosen'
  BY <1>5, <1>11 DEF Lists!FullNumbersWereChosen, Lists!Saved
<1> QED
  BY <1>3, <1>5, <1>9, <1>12, <1>13, <1>14 DEF ListsInv

\* So every step of the lists keeps their invariant,
LEMMA ListsKept ==
  ASSUME ListsInv, Lists!Next
  PROVE  ListsInv'
BY ClerksKeepLists, OpenKeepsLists, FiltersKeepLists, TurnKeepsLists, LoadKeepsLists, SentKeepsLists,
   ServeKeepsLists DEF Lists!Next

\* and so do the steps that leave them alone.
LEMMA ListsUnchanged ==
  ASSUME ListsInv, UNCHANGED <<tables, exportVars>>
  PROVE  ListsInv'
<1>1. UNCHANGED tables /\ UNCHANGED <<today, night, loans, collections, entries, page, button>>
  BY DEF tables, exportVars
<1>2. TablesInv'
  BY <1>1, SameReports DEF ListsInv
<1>3. PICK p, b : p = page /\ p = page' /\ b = button /\ b = button'
  BY <1>1
<1>4. /\ Lists!ListedRowsAreExported' /\ Lists!FileIsWithinTheDates' /\ Lists!FullNumbersWereChosen'
  BY <1>1 DEF ListsInv, Lists!ListedRowsAreExported, Lists!FileIsWithinTheDates,
              Lists!FullNumbersWereChosen, Lists!Saved
<1> QED
  BY <1>2, <1>3, <1>4 DEF ListsInv

\* What the invariant says of a file, in the words of the export button.
LEMMA ListsTell ==
  ASSUME ListsInv
  PROVE  /\ Lists!TypeOK /\ Lists!ListedRowsAreExported /\ Lists!FileIsWithinTheDates
         /\ Lists!FullNumbersWereChosen
<1>1. \A l \in Lent : loans[l].status \in Lists!Statuses /\ loans[l].paid \in 0..Parts
  <2> TAKE l \in Lent
  <2>1. loans[l] \in LoanStates
    BY DEF ListsInv, TablesInv, TablesTyped
  <2> QED
    BY <2>1 DEF LoanStates, Rep!Statuses, Lists!Statuses
<1>2. Lists!OnList => /\ page.number \in Nat \ {0}
                      /\ Len(page.list.rows) <= PageSize /\ Len(page.list.rows) <= page.list.total
  BY DEF ListsInv, Lists!OnList, PageFits, ListFits
<1> QED
  BY <1>1, <1>2 DEF ListsInv, Lists!TypeOK, Lists!Saved

\* The invariants of the reports and the exports hold where they are looked at.
DeskHolds == screen = "reports" => DeskInv
ListsHold == screen = "exports" => ListsInv

\* A report shows all the rows it is about and only rows its viewer may see, its
\* sums are those of its rows, and its file is what was on screen; a file of the
\* exports has what the list had with the filters that were applied, no more than
\* its dates allow, and full numbers if they were chosen (ReportService,
\* ReportExportService, ExportsService).
THEOREM ReadersTellTheirRowsAlways == BackOfficeSpec => []ReadersTellTheirRows
<1>1. BackOfficeInit => DeskHolds /\ ListsHold
  <2> SUFFICES ASSUME BackOfficeInit PROVE DeskInv /\ ListsInv
    BY DEF DeskHolds, ListsHold
  <2>1. Rep!InitReports /\ Rep!Init /\ Lists!InitExports
    BY DEF BackOfficeInit, Rep!InitReports
  <2> QED
    BY <2>1, TablesStart, DeskStart, ListsStart
<1>2. DeskHolds /\ [BackOfficeNext]_backOfficeVars => DeskHolds'
  <2> SUFFICES ASSUME DeskHolds, [BackOfficeNext]_backOfficeVars, screen' = "reports"
               PROVE  DeskInv'
    BY DEF DeskHolds
  <2>1. CASE BackOfficeNext
    <3>1. screen = "reports" /\ Rep!Next
      BY <2>1 DEF BackOfficeNext
    <3> QED
      BY <3>1, DeskKept DEF DeskHolds
  <2>2. CASE UNCHANGED backOfficeVars
    <3>1. screen = "reports" /\ UNCHANGED <<tables, reportVars>>
      BY <2>2 DEF backOfficeVars, readingVars
    <3> QED
      BY <3>1, DeskUnchanged DEF DeskHolds
  <2> QED
    BY <2>1, <2>2
<1>3. ListsHold /\ [BackOfficeNext]_backOfficeVars => ListsHold'
  <2> SUFFICES ASSUME ListsHold, [BackOfficeNext]_backOfficeVars, screen' = "exports"
               PROVE  ListsInv'
    BY DEF ListsHold
  <2>1. CASE BackOfficeNext
    <3>1. screen = "exports" /\ Lists!Next
      BY <2>1 DEF BackOfficeNext
    <3> QED
      BY <3>1, ListsKept DEF ListsHold
  <2>2. CASE UNCHANGED backOfficeVars
    <3>1. screen = "exports" /\ UNCHANGED <<tables, exportVars>>
      BY <2>2 DEF backOfficeVars, readingVars
    <3> QED
      BY <3>1, ListsUnchanged DEF ListsHold
  <2> QED
    BY <2>1, <2>2
<1>4. DeskHolds /\ ListsHold => ReadersTellTheirRows
  BY ReportsTell, ListsTell DEF DeskHolds, ListsHold, ReadersTellTheirRows
<1> QED
  BY <1>1, <1>2, <1>3, <1>4, PTL DEF BackOfficeSpec

\* A step of the dashboard that answers from the cache finds an entry there that
\* was read less than Ttl ago, whoever asked for it.
LEMMA HitsAreRecent ==
  ASSUME BoardInv, Board!Next
  PROVE  \A r \in Refreshes :
           req[r] = Board!Idle /\ req'[r] # Board!Idle /\ req'[r].hit => clock - req'[r].entry.start < Ttl
<1> SUFFICES ASSUME NEW r \in Refreshes, req[r] = Board!Idle, req'[r] # Board!Idle, req'[r].hit
             PROVE  clock - req'[r].entry.start < Ttl
  OBVIOUS
<1>1. DOMAIN req = Refreshes
  BY DEF BoardInv
<1>2. ~Board!Second /\ ~Board!Beside
  BY DEF Board!Second, Board!Beside
<1>3. ASSUME NEW q \in Refreshes, NEW v \in Watchers, Board!Get(q, v)
      PROVE  clock - req'[r].entry.start < Ttl
  <2>1. PICK answer : /\ req' = [req EXCEPT ![q] = answer]
                      /\ answer = IF cache[v].expires > clock
                                  THEN [phase |-> "answered", viewer |-> v, hit |-> TRUE, entry |-> cache[v]]
                                  ELSE [phase |-> "reading", viewer |-> v, hit |-> FALSE,
                                        entry |-> [Board!Nothing EXCEPT !.start = clock, !.today = today]]
    BY <1>3 DEF Board!Get, Board!Key
  <2>2. q = r /\ req'[r] = answer
    BY <1>1, <2>1
  <2>3. cache[v].expires > clock /\ answer.entry = cache[v]
    BY <2>1, <2>2
  <2>4. clock \in Int /\ cache[v].expires \in Int /\ cache[v].start \in Int
    <3>1. clock \in Int
      BY DEF BoardInv
    <3>2. CASE cache[v] = Board!Nothing
      BY <3>1, <3>2 DEF Board!Nothing
    <3>3. CASE cache[v] # Board!Nothing
      <4>1. Fresh(cache[v], v)
        BY <3>3 DEF BoardInv
      <4> QED
        BY <3>1, <4>1 DEF Fresh
    <3> QED
      BY <3>2, <3>3
  <2>5. cache[v].expires <= cache[v].start + Ttl
    BY DEF BoardInv
  <2> QED
    BY <2>2, <2>3, <2>4, <2>5, BoardConstants
<1>4. ASSUME NEW q \in Refreshes, \/ \E f \in Figures : Board!Read(q, f)
                                  \/ Board!Answer(q) \/ Board!Show(q)
      PROVE  FALSE
  <2>1. req[q].phase \in {"reading", "answered"}
    BY <1>4 DEF Board!Read, Board!Answer, Board!Show, Board!Reading
  <2>2. q # r
    BY <2>1 DEF Board!Idle
  <2>3. req'[r] = req[r]
    BY <1>1, <1>4, <2>2 DEF Board!Read, Board!Answer, Board!Show
  <2> QED
    BY <2>3
<1> QED
  BY <1>2, <1>3, <1>4 DEF Board!Next

\* Figures that come from the cache were read less than Ttl ago, although the
\* request that read them may have taken long and answered late.
THEOREM CachedFiguresAreRecentAlways == BackOfficeSpec => Board!CachedFiguresAreRecent
<1> DEFINE Recent == \A r \in Refreshes :
             req[r] = Board!Idle /\ req'[r] # Board!Idle /\ req'[r].hit => clock - req'[r].entry.start < Ttl
<1>1. BoardHolds /\ [BackOfficeNext]_backOfficeVars => [Recent]_(Board!vars)
  <2> SUFFICES ASSUME BoardHolds, [BackOfficeNext]_backOfficeVars PROVE Recent
    OBVIOUS
  <2>1. CASE BackOfficeNext /\ screen = "dashboard"
    <3>1. BoardInv /\ Board!Next
      BY <2>1 DEF BackOfficeNext, BoardHolds
    <3> QED
      BY <3>1, HitsAreRecent
  <2>2. CASE UNCHANGED backOfficeVars \/ (BackOfficeNext /\ screen # "dashboard")
    <3>1. req' = req
      BY <2>2 DEF BackOfficeNext, backOfficeVars, readingVars, dashboardVars
    <3> QED
      BY <3>1
  <2> QED
    BY <2>1, <2>2
<1> QED
  BY <1>1, BoardHoldsAlways, PTL DEF BackOfficeSpec, Board!CachedFiguresAreRecent

\* The figures of the dashboard are the viewer's own, from the cache or not,
\* and count each loan once unless it was written while the figures were read
\* one after another; and those from the cache are recent (DashboardService).
THEOREM FiguresCountOnceAlways == BackOfficeSpec => FiguresCountOnce
<1>1. BoardHolds =>
        (screen = "dashboard" =>
           Board!TypeOK /\ Board!FiguresAreTheViewersOwn /\ Board!LoansCountedOnceUnlessMoved)
  BY FiguresCount DEF BoardHolds
<1> QED
  BY <1>1, BoardHoldsAlways, CachedFiguresAreRecentAlways, PTL DEF FiguresCountOnce

-----------------------------------------------------------------------------
(* The office of the back office. *)

\* What is proved of the office holds of the back office: the pages that read
\* the tables write nothing of the office.
THEOREM BackOfficeIsAnOffice == BackOfficeSpec => OfficeSpec
<1>1. BackOfficeInit => OfficeInit
  BY DEF BackOfficeInit
<1>2. [BackOfficeNext]_backOfficeVars => [OfficeNext]_officeVars
  <2>1. BackOfficeNext => OfficeNext \/ UNCHANGED officeVars
    BY DEF BackOfficeNext
  <2>2. UNCHANGED backOfficeVars => UNCHANGED officeVars
    BY DEF backOfficeVars
  <2> QED
    BY <2>1, <2>2
<1> QED
  BY <1>1, <1>2, PTL DEF BackOfficeSpec, OfficeSpec
=============================================================================
