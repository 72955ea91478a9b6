------------------------- MODULE LoanAccount_proofs -------------------------
(***************************************************************************)
(* What holds of a loan account for every schedule, product and calendar.  *)
(* In order:                                                               *)
(*   the types, and that nothing is overpaid (AccountInvariant);           *)
(*   one settlement, reversals in pairs, the flags of a penalty;           *)
(*   the paid amounts are the net of the allocations (PaidInv);            *)
(*   the general ledger is what the schedule and the penalties say         *)
(*   (LedgerTiesToAccountsAlways), and what an allocation spends;          *)
(*   the cached balance brackets what is owed (BalanceInv);                *)
(*   a loan closes or is foreclosed only against what is owed.             *)
(* The sums and the allocation passes are those of Paise_proofs.           *)
(***************************************************************************)
EXTENDS LoanAccount, Paise_proofs

(***************************************************************************)
(* NeverOverpaid is not inductive: a reversal would overpay an installment *)
(* if it took back a negative allocation.  Only compensating rows carry    *)
(* those, and they cannot be reversed.                                     *)
(***************************************************************************)
NonNegative(alloc) ==
  /\ \A k \in DOMAIN alloc.penalty : alloc.penalty[k] \in Nat
  /\ \A i \in Installments : alloc.interest[i] \in Nat /\ alloc.principal[i] \in Nat

AllocationsNonNegative ==
  \A c \in DOMAIN collections :
    collections[c].kind # "reversal" => NonNegative(collections[c].alloc)

AccountInv == TypeOK /\ NeverOverpaid /\ AllocationsNonNegative

-----------------------------------------------------------------------------
(* A function on the positions of a sequence is a sequence. *)
LEMMA SequenceOfFunction ==
  ASSUME NEW S, NEW s, NEW T, s \in Seq(T), NEW f \in [DOMAIN s -> S]
  PROVE  f \in Seq(S) /\ Len(f) = Len(s) /\ DOMAIN f = DOMAIN s
<1>1. Len(s) \in Nat /\ DOMAIN s = 1..Len(s)
  OBVIOUS
<1>2. f \in [1..Len(s) -> S]
  BY <1>1
<1>3. f \in Seq(S)
  BY <1>1, <1>2
<1> QED
  BY <1>1, <1>2, <1>3

(* The rows of the tables, field by field. *)
LEMMA RowTypes ==
  ASSUME TypeOK
  PROVE  /\ \A i \in Installments : /\ installments[i] \in InstallmentRows
                                   /\ installments[i].principalPaid \in Nat
                                   /\ installments[i].interestPaid \in Nat
                                   /\ installments[i].penaltyPaid \in Nat
         /\ Len(penalties) \in Nat /\ DOMAIN penalties = 1..Len(penalties)
         /\ \A k \in DOMAIN penalties : /\ penalties[k] \in PenaltyRows
                                       /\ penalties[k].installment \in Installments
                                       /\ penalties[k].period \in 1..Periods
                                       /\ penalties[k].amount \in Nat
                                       /\ penalties[k].paid \in Nat
<1>1. installments \in [Installments -> InstallmentRows] /\ penalties \in Seq(PenaltyRows)
  BY Zenon DEF TypeOK
<1>2. \A i \in Installments : installments[i] \in InstallmentRows
  BY <1>1
<1>3. Len(penalties) \in Nat /\ DOMAIN penalties = 1..Len(penalties)
  BY <1>1
<1>4. \A k \in DOMAIN penalties : penalties[k] \in PenaltyRows
  BY <1>1
<1>5. \A i \in Installments : /\ installments[i].principalPaid \in Nat
                              /\ installments[i].interestPaid \in Nat
                              /\ installments[i].penaltyPaid \in Nat
  BY <1>2 DEF InstallmentRows
<1>6. \A k \in DOMAIN penalties : /\ penalties[k].installment \in Installments
                                  /\ penalties[k].period \in 1..Periods
                                  /\ penalties[k].amount \in Nat
                                  /\ penalties[k].paid \in Nat
  BY <1>4 DEF PenaltyRows
<1> QED
  BY <1>2, <1>3, <1>4, <1>5, <1>6

LEMMA IntervalSequence ==
  ASSUME NEW S, NEW n \in Nat, NEW f \in [1..n -> S]
  PROVE  f \in Seq(S)
OBVIOUS

LEMMA DivisionType ==
  ASSUME NEW a \in Nat, NEW b \in Nat \ {0}
  PROVE  HalfUp(a, b) \in Nat
BY DEF HalfUp

(* The earliest due day of the unpaid installments is one of the due days. *)
LEMMA DpdType ==
  ASSUME NEW insts, NEW d \in Int
  PROVE  Dpd(insts, d) \in Nat
<1>1. CASE Unpaid(insts) = {}
  BY <1>1 DEF Dpd
<1>2. CASE Unpaid(insts) # {}
  <2> DEFINE days == {DueDay[i] : i \in Unpaid(insts)}
  <2>1. Unpaid(insts) \subseteq Installments
    BY DEF Unpaid
  <2>2. days \in SUBSET Nat /\ days # {}
    BY <1>2, <2>1, ScheduleAssumption
  <2>3. PICK m \in days : \A e \in days : m <= e
    BY <2>2, LeastElement
  <2>4. \E i \in Unpaid(insts) : \A j \in Unpaid(insts) : DueDay[i] <= DueDay[j]
    BY <2>3
  <2>5. EarliestDue(insts) \in Nat
    BY <2>1, <2>4, ScheduleAssumption DEF EarliestDue
  <2> QED
    BY <1>2, <2>5 DEF Dpd, AtLeastZero
<1> QED
  BY <1>1, <1>2

-----------------------------------------------------------------------------
(* The sums the handlers take are integers. *)
LEMMA OutstandingType ==
  ASSUME NEW insts \in [Installments -> InstallmentRows]
  PROVE  ScheduleOutstanding(insts) \in Int
<1> DEFINE f == [i \in Installments |-> (Principal[i] - insts[i].principalPaid)
                                        + (Interest[i] - insts[i].interestPaid)]
<1>1. \A i \in Installments : insts[i].principalPaid \in Nat /\ insts[i].interestPaid \in Nat
  <2>1. \A i \in Installments : insts[i] \in InstallmentRows
    OBVIOUS
  <2> QED
    BY <2>1 DEF InstallmentRows
<1>2. \A i \in Installments : Principal[i] \in Nat /\ Interest[i] \in Nat
  BY ScheduleAssumption
<1>3. f \in [1..N -> Int]
  <2>1. \A i \in Installments : (Principal[i] - insts[i].principalPaid)
                               + (Interest[i] - insts[i].interestPaid) \in Int
    BY <1>1, <1>2
  <2> QED
    BY <2>1, Zenon DEF Installments
<1> HIDE DEF f
<1>4. Total(N, f) \in Int
  BY <1>3, TotalType, ScheduleAssumption
<1> QED
  BY <1>4 DEF ScheduleOutstanding, f

LEMMA PendingTypes ==
  ASSUME NEW pens \in Seq(PenaltyRows)
  PROVE  PendingGross(pens) \in Nat /\ PendingNet(pens) \in Nat
<1> DEFINE g == [k \in DOMAIN pens |-> IF IsPending(pens[k]) THEN pens[k].amount ELSE 0]
           h == [k \in DOMAIN pens |-> IF IsPending(pens[k])
                                      THEN AtLeastZero(pens[k].amount - pens[k].paid) ELSE 0]
<1>1. Len(pens) \in Nat /\ DOMAIN pens = 1..Len(pens)
  OBVIOUS
<1>2. \A k \in DOMAIN pens : pens[k].amount \in Nat /\ pens[k].paid \in Nat
  <2>1. \A k \in DOMAIN pens : pens[k] \in PenaltyRows
    OBVIOUS
  <2> QED
    BY <2>1 DEF PenaltyRows
<1>3. g \in [1..Len(pens) -> Nat] /\ h \in [1..Len(pens) -> Nat]
  BY <1>1, <1>2 DEF AtLeastZero
<1> HIDE DEF g, h
<1>4. Total(Len(pens), g) \in Nat /\ Total(Len(pens), h) \in Nat
  BY <1>1, <1>3, TotalNonNegative
<1> QED
  BY <1>4 DEF PendingGross, PendingNet, g, h

LEMMA ScheduleTotals ==
  TotalPrincipal \in Nat /\ TotalInterest \in Nat
BY TotalNonNegative, ScheduleAssumption DEF TotalPrincipal, TotalInterest, Installments

LEMMA PrincipalType ==
  ASSUME TypeOK
  PROVE  OutstandingPrincipal \in Nat
<1> DEFINE f == [i \in Installments |-> Principal[i] - installments[i].principalPaid]
<1>1. f \in [1..N -> Int]
  BY RowTypes, ScheduleAssumption DEF Installments
<1> HIDE DEF f
<1>2. Total(N, f) \in Int
  BY <1>1, TotalType, ScheduleAssumption
<1> QED
  BY <1>2 DEF OutstandingPrincipal, AtLeastZero, f

-----------------------------------------------------------------------------
(* The allocation engine, for any state of the account. *)
LEMMA DuesTypes ==
  ASSUME TypeOK
  PROVE  /\ InterestDues \in [1..N -> Int]
         /\ PrincipalDues \in [1..N -> Int]
         /\ Len(penalties) \in Nat
         /\ DOMAIN penalties = 1..Len(penalties)
         /\ \A p : PenaltyDues(p) \in [1..Len(penalties) -> Int]
<1>1. InterestDues \in [1..N -> Int] /\ PrincipalDues \in [1..N -> Int]
  <2>1. \A i \in Installments : Principal[i] \in Nat /\ Interest[i] \in Nat
    BY ScheduleAssumption
  <2>2. \A i \in Installments : installments[i].principalPaid \in Nat
                              /\ installments[i].interestPaid \in Nat
    BY RowTypes
  <2> QED
    BY <2>1, <2>2 DEF InterestDues, PrincipalDues, Installments
<1>2. \A p : PenaltyDues(p) \in [1..Len(penalties) -> Int]
  BY RowTypes DEF PenaltyDues
<1> QED
  BY <1>1, <1>2, RowTypes

LEMMA PenaltyLeftExists ==
  ASSUME TypeOK, NEW budget \in Nat
  PROVE  \E g : g = [p \in 0..Periods |->
                      IF p = 0 THEN budget
                      ELSE Leftover(g[p - 1], Len(penalties), PenaltyDues(p))]
<1> DEFINE step(b, p) == Leftover(b, Len(penalties), PenaltyDues(p))
           P(m) == \E g \in [0..m -> Nat] :
                     g[0] = budget /\ \A p \in 1..m : g[p] = step(g[p - 1], p)
           X == {m \in Nat : P(m)}
<1>0. \A b \in Nat, p \in Nat : step(b, p) \in Nat
  <2> SUFFICES ASSUME NEW b \in Nat, NEW p \in Nat PROVE step(b, p) \in Nat
    OBVIOUS
  <2>1. step(b, p) \in 0..b
    BY DuesTypes, LeftoverBounds, Zenon
  <2> QED
    BY <2>1
<1> HIDE DEF step
<1>1. P(0)
  <2> DEFINE g == [k \in 0..0 |-> budget]
  <2>1. g \in [0..0 -> Nat] /\ g[0] = budget /\ 1..0 = {}
    OBVIOUS
  <2> QED
    BY <2>1
<1>2. ASSUME NEW m \in Nat, P(m) PROVE P(m + 1)
  <2>1. PICK g \in [0..m -> Nat] : g[0] = budget /\ \A p \in 1..m : g[p] = step(g[p - 1], p)
    BY <1>2
  <2> DEFINE h == [p \in 0..(m + 1) |-> IF p = m + 1 THEN step(g[m], m + 1) ELSE g[p]]
  <2>2. step(g[m], m + 1) \in Nat
    <3>1. g[m] \in Nat /\ m + 1 \in Nat
      BY <2>1
    <3> QED
      BY <3>1, <1>0, Zenon
  <2>3. h \in [0..(m + 1) -> Nat] /\ h[0] = budget
    BY <2>1, <2>2
  <2>4. \A p \in 1..(m + 1) : h[p] = step(h[p - 1], p)
    BY <2>1
  <2> HIDE DEF h
  <2> QED
    BY <2>3, <2>4
<1> HIDE DEF P
<1>3. 0 \in X /\ \A m \in Nat : m \in X => m + 1 \in X
  BY <1>1, <1>2
<1>4. X = Nat
  BY <1>3, SetInduction
<1>5. P(Periods)
  BY <1>4, ProductAssumption
<1>6. PICK g \in [0..Periods -> Nat] :
        g[0] = budget /\ \A p \in 1..Periods : g[p] = step(g[p - 1], p)
  BY <1>5 DEF P
<1>7. g = [p \in 0..Periods |-> IF p = 0 THEN budget ELSE step(g[p - 1], p)]
  BY <1>6, ProductAssumption
<1>8. \E f : f = [p \in 0..Periods |-> IF p = 0 THEN budget ELSE step(f[p - 1], p)]
  BY <1>7, Zenon
<1> QED
  BY <1>8, Zenon DEF step

LEMMA PenaltyLeftType ==
  ASSUME TypeOK, NEW budget \in Nat
  PROVE  \A p \in 0..Periods : PenaltyLeft(budget)[p] \in Nat
<1> DEFINE left == PenaltyLeft(budget)
           X == {m \in Nat : m <= Periods => left[m] \in Nat}
<1>1. left = [p \in 0..Periods |->
                IF p = 0 THEN budget
                ELSE Leftover(left[p - 1], Len(penalties), PenaltyDues(p))]
  BY PenaltyLeftExists, Zenon DEF PenaltyLeft
<1> HIDE DEF left
<1>2. 0 \in X
  BY <1>1, ProductAssumption
<1>3. ASSUME NEW m \in Nat, m + 1 <= Periods, left[m] \in Nat
      PROVE  left[m + 1] \in Nat
  <2>1. left[m + 1] = Leftover(left[m], Len(penalties), PenaltyDues(m + 1))
    BY <1>1, <1>3, ProductAssumption
  <2>2. Leftover(left[m], Len(penalties), PenaltyDues(m + 1)) \in 0..left[m]
    BY <1>3, DuesTypes, LeftoverBounds, Zenon
  <2> QED
    BY <1>3, <2>1, <2>2
<1>4. \A m \in Nat : m \in X => m + 1 \in X
  BY <1>3, ProductAssumption
<1> HIDE DEF X
<1>5. X = Nat
  BY <1>2, <1>4, SetInduction DEF X
<1> QED
  BY <1>5, ProductAssumption DEF X, left

LEMMA LeftAfterType ==
  ASSUME TypeOK, NEW budget \in Nat, NEW component \in Components
  PROVE  LeftAfter(component, budget) \in Nat
<1>1. PenaltyLeft(budget)[Periods] \in Nat
  BY PenaltyLeftType, ProductAssumption
<1>2. N \in Nat
  BY ScheduleAssumption
<1>3. Leftover(budget, N, InterestDues) \in 0..budget
  BY <1>2, DuesTypes, LeftoverBounds, Zenon
<1>4. Leftover(budget, N, PrincipalDues) \in 0..budget
  BY <1>2, DuesTypes, LeftoverBounds, Zenon
<1>5. Leftover(budget, N, InterestDues) \in Nat /\ Leftover(budget, N, PrincipalDues) \in Nat
  BY <1>3, <1>4
<1> QED
  BY <1>1, <1>5 DEF LeftAfter, Components

LEMMA BudgetType ==
  ASSUME TypeOK, NEW amount \in Nat, NEW component
  PROVE  BudgetOf(component, amount) \in Nat
<1>1. Order[1] \in Components /\ Order[2] \in Components
  BY ProductAssumption
<1>2. LeftAfter(Order[1], amount) \in Nat
  BY <1>1, LeftAfterType
<1>3. LeftAfter(Order[2], LeftAfter(Order[1], amount)) \in Nat
  BY <1>1, <1>2, LeftAfterType, Zenon
<1> QED
  BY <1>2, <1>3 DEF BudgetOf

(* No component of an allocation is negative or exceeds what was due.  *)
LEMMA AllocateBounds ==
  ASSUME TypeOK, NEW amount \in Nat
  PROVE  /\ Allocate(amount).penalty \in [1..Len(penalties) -> Nat]
         /\ Allocate(amount).interest \in [1..N -> Nat]
         /\ Allocate(amount).principal \in [1..N -> Nat]
         /\ \A k \in 1..Len(penalties) :
              Allocate(amount).penalty[k] <= AtLeastZero(penalties[k].amount - penalties[k].paid)
         /\ \A i \in 1..N :
              /\ Allocate(amount).interest[i] <= AtLeastZero(InterestDues[i])
              /\ Allocate(amount).principal[i] <= AtLeastZero(PrincipalDues[i])
         /\ \A k \in 1..Len(penalties) :
              IsPending(penalties[k]) \/ Allocate(amount).penalty[k] = 0
<1> DEFINE L == Len(penalties)
           left == PenaltyLeft(BudgetOf("penalty", amount))
           forPenalty(k) == Taken(left[penalties[k].period - 1], L,
                                  PenaltyDues(penalties[k].period))[k]
<1>1. N \in Nat
  BY ScheduleAssumption
<1>2. /\ BudgetOf("penalty", amount) \in Nat
      /\ BudgetOf("interest", amount) \in Nat
      /\ BudgetOf("principal", amount) \in Nat
  BY BudgetType
<1>3. /\ Allocate(amount).interest = Taken(BudgetOf("interest", amount), N, InterestDues)
      /\ Allocate(amount).principal = Taken(BudgetOf("principal", amount), N, PrincipalDues)
      /\ Allocate(amount).penalty = [k \in DOMAIN penalties |-> forPenalty(k)]
  BY DEF Allocate
<1>4. /\ Taken(BudgetOf("interest", amount), N, InterestDues) \in [1..N -> Nat]
      /\ \A i \in 1..N : Taken(BudgetOf("interest", amount), N, InterestDues)[i]
                           <= AtLeastZero(InterestDues[i])
  BY <1>1, <1>2, DuesTypes, TakenBounds, Zenon
<1>5. /\ Taken(BudgetOf("principal", amount), N, PrincipalDues) \in [1..N -> Nat]
      /\ \A i \in 1..N : Taken(BudgetOf("principal", amount), N, PrincipalDues)[i]
                           <= AtLeastZero(PrincipalDues[i])
  BY <1>1, <1>2, DuesTypes, TakenBounds, Zenon
<1>6. ASSUME NEW k \in 1..L
      PROVE  forPenalty(k) \in Nat
             /\ forPenalty(k) <= AtLeastZero(penalties[k].amount - penalties[k].paid)
             /\ (IsPending(penalties[k]) \/ forPenalty(k) = 0)
  <2> DEFINE q == penalties[k].period
  <2>1. L \in Nat /\ DOMAIN penalties = 1..L
        /\ q \in 1..Periods /\ penalties[k].amount \in Nat /\ penalties[k].paid \in Nat
    BY RowTypes
  <2>2. left[q - 1] \in Nat
    <3>1. q - 1 \in 0..Periods
      BY <2>1, ProductAssumption
    <3> QED
      BY <3>1, <1>2, PenaltyLeftType, Zenon
  <2>3. PenaltyDues(q) \in [1..L -> Int]
    BY DuesTypes
  <2>4. /\ Taken(left[q - 1], L, PenaltyDues(q)) \in [1..L -> Nat]
        /\ \A j \in 1..L : Taken(left[q - 1], L, PenaltyDues(q))[j]
                             <= AtLeastZero(PenaltyDues(q)[j])
    BY <2>1, <2>2, <2>3, TakenBounds, Zenon
  <2>5. PenaltyDues(q)[k] = IF IsPending(penalties[k])
                            THEN penalties[k].amount - penalties[k].paid ELSE 0
    BY <2>1, Zenon DEF PenaltyDues
  <2>6. AtLeastZero(PenaltyDues(q)[k]) <= AtLeastZero(penalties[k].amount - penalties[k].paid)
    BY <2>1, <2>5 DEF AtLeastZero
  <2>7. forPenalty(k) \in Nat /\ forPenalty(k) <= AtLeastZero(PenaltyDues(q)[k])
    BY <2>4, Zenon
  <2> HIDE DEF forPenalty
  <2>8. AtLeastZero(PenaltyDues(q)[k]) \in Int
        /\ AtLeastZero(penalties[k].amount - penalties[k].paid) \in Int
    BY <2>1, <2>3 DEF AtLeastZero
  <2>9. IsPending(penalties[k]) \/ AtLeastZero(PenaltyDues(q)[k]) = 0
    BY <2>5 DEF AtLeastZero
  <2> QED
    BY <2>6, <2>7, <2>8, <2>9
<1> HIDE DEF forPenalty
<1>7. /\ Allocate(amount).penalty \in [1..L -> Nat]
      /\ \A k \in 1..L : Allocate(amount).penalty[k] = forPenalty(k)
  BY <1>3, <1>6, RowTypes
<1>8. \A k \in 1..L : Allocate(amount).penalty[k]
                        <= AtLeastZero(penalties[k].amount - penalties[k].paid)
  BY <1>6, <1>7
<1>9. \A k \in 1..L : IsPending(penalties[k]) \/ Allocate(amount).penalty[k] = 0
  BY <1>6, <1>7
<1> QED
  BY <1>3, <1>4, <1>5, <1>7, <1>8, <1>9, Zenon

-----------------------------------------------------------------------------
(* The rows the handlers write. *)
LEMMA EntryType ==
  ASSUME NEW a \in Int, NEW b \in Int, NEW c \in Int, NEW d \in Int, NEW e \in Int, NEW f \in Int
  PROVE  Entry(a, b, c, d, e, f) \in [Accounts -> Int]
BY DEF Entry, Accounts

LEMMA InstallmentRowType ==
  ASSUME NEW i, NEW a \in Nat, NEW b \in Nat, NEW c \in Nat
  PROVE  /\ InstallmentRow(i, a, b, c) \in InstallmentRows
         /\ InstallmentRow(i, a, b, c).principalPaid = a
         /\ InstallmentRow(i, a, b, c).interestPaid = b
<1>1. InstallmentStatus(i, a, b) \in {"pending", "partial", "paid", "closed"}
  BY DEF InstallmentStatus
<1> QED
  BY <1>1 DEF InstallmentRow, InstallmentRows

LEMMA PenaltyOnType ==
  ASSUME NEW alloc, NEW i
  PROVE  /\ alloc.penalty \in Seq(Int) => PenaltyOn(alloc, i) \in Int
         /\ alloc.penalty \in Seq(Nat) => PenaltyOn(alloc, i) \in Nat
<1> DEFINE f == [k \in DOMAIN alloc.penalty |->
                   IF penalties[k].installment = i THEN alloc.penalty[k] ELSE 0]
           n == Len(alloc.penalty)
<1>1. ASSUME alloc.penalty \in Seq(Int) PROVE PenaltyOn(alloc, i) \in Int
  <2>1. n \in Nat /\ f \in [1..n -> Int]
    BY <1>1
  <2> HIDE DEF f, n
  <2>2. Total(n, f) \in Int
    BY <2>1, TotalType
  <2> QED
    BY <2>2 DEF PenaltyOn, f, n
<1>2. ASSUME alloc.penalty \in Seq(Nat) PROVE PenaltyOn(alloc, i) \in Nat
  <2>1. n \in Nat /\ f \in [1..n -> Nat]
    BY <1>2
  <2> HIDE DEF f, n
  <2>2. Total(n, f) \in Nat
    BY <2>1, TotalNonNegative
  <2> QED
    BY <2>2 DEF PenaltyOn, f, n
<1> QED
  BY <1>1, <1>2

(* A payment leaves every installment and penalty within its due. *)
LEMMA PaymentKeepsRows ==
  ASSUME TypeOK, NeverOverpaid, NEW amount \in Nat
  PROVE  LET alloc == Allocate(amount)
         IN  /\ InstallmentsAfter(alloc) \in [Installments -> InstallmentRows]
             /\ \A i \in Installments :
                  /\ InstallmentsAfter(alloc)[i].principalPaid \in 0..Principal[i]
                  /\ InstallmentsAfter(alloc)[i].interestPaid \in 0..Interest[i]
             /\ PenaltiesAfter(alloc) \in Seq(PenaltyRows)
             /\ DOMAIN PenaltiesAfter(alloc) = DOMAIN penalties
             /\ \A k \in DOMAIN penalties :
                  PenaltiesAfter(alloc)[k].paid \in 0..PenaltiesAfter(alloc)[k].amount
<1> DEFINE alloc == Allocate(amount)
           ins == InstallmentsAfter(alloc)
           pens == PenaltiesAfter(alloc)
<1>1. /\ alloc.penalty \in [1..Len(penalties) -> Nat]
      /\ alloc.interest \in [1..N -> Nat]
      /\ alloc.principal \in [1..N -> Nat]
      /\ \A k \in 1..Len(penalties) :
           alloc.penalty[k] <= AtLeastZero(penalties[k].amount - penalties[k].paid)
      /\ \A i \in 1..N : /\ alloc.interest[i] <= AtLeastZero(InterestDues[i])
                         /\ alloc.principal[i] <= AtLeastZero(PrincipalDues[i])
  BY AllocateBounds
<1> HIDE DEF alloc
<1>2. ASSUME NEW i \in Installments
      PROVE  /\ ins[i] \in InstallmentRows
             /\ ins[i].principalPaid \in 0..Principal[i]
             /\ ins[i].interestPaid \in 0..Interest[i]
  <2> DEFINE a == installments[i].principalPaid + alloc.principal[i]
             b == installments[i].interestPaid + alloc.interest[i]
             c == installments[i].penaltyPaid + PenaltyOn(alloc, i)
  <2>1. /\ Principal[i] \in Nat /\ Interest[i] \in Nat
        /\ installments[i] \in InstallmentRows
        /\ installments[i].principalPaid \in 0..Principal[i]
        /\ installments[i].interestPaid \in 0..Interest[i]
        /\ installments[i].penaltyPaid \in Nat
    BY RowTypes, ScheduleAssumption DEF NeverOverpaid
  <2>2. alloc.principal[i] \in Nat /\ alloc.interest[i] \in Nat
    BY <1>1 DEF Installments
  <2>3. /\ alloc.principal[i] <= Principal[i] - installments[i].principalPaid
        /\ alloc.interest[i] <= Interest[i] - installments[i].interestPaid
    BY <1>1, <2>1 DEF Installments, InterestDues, PrincipalDues, AtLeastZero
  <2>4. a \in 0..Principal[i] /\ b \in 0..Interest[i] /\ a \in Nat /\ b \in Nat
    BY <2>1, <2>2, <2>3
  <2>5. alloc.penalty \in Seq(Nat)
    BY <1>1, RowTypes, IntervalSequence, Zenon
  <2>6. c \in Nat
    BY <2>1, <2>5, PenaltyOnType
  <2> HIDE DEF a, b, c
  <2>7. /\ InstallmentRow(i, a, b, c) \in InstallmentRows
        /\ InstallmentRow(i, a, b, c).principalPaid = a
        /\ InstallmentRow(i, a, b, c).interestPaid = b
    BY <2>4, <2>6, InstallmentRowType
  <2>8. ins[i] = IF Touches(alloc, i) THEN InstallmentRow(i, a, b, c) ELSE installments[i]
    BY Zenon DEF InstallmentsAfter, a, b, c
  <2> QED
    BY <2>1, <2>4, <2>7, <2>8
<1>3. ins \in [Installments -> InstallmentRows]
  <2>1. DOMAIN ins = Installments
    BY DEF InstallmentsAfter
  <2>2. ins = [i \in Installments |-> ins[i]]
    BY <2>1 DEF InstallmentsAfter
  <2> HIDE DEF ins
  <2> QED
    BY <1>2, <2>2
<1>4. ASSUME NEW k \in DOMAIN penalties
      PROVE  pens[k] \in PenaltyRows /\ pens[k].paid \in 0..pens[k].amount
  <2>1. /\ penalties[k] \in PenaltyRows
        /\ penalties[k].amount \in Nat
        /\ penalties[k].paid \in 0..penalties[k].amount
        /\ k \in 1..Len(penalties)
    BY RowTypes DEF NeverOverpaid
  <2>2. /\ alloc.penalty[k] \in Nat
        /\ alloc.penalty[k] <= penalties[k].amount - penalties[k].paid
    BY <1>1, <2>1 DEF AtLeastZero
  <2> DEFINE total == penalties[k].paid + alloc.penalty[k]
             full == total >= penalties[k].amount
             row == [penalties[k] EXCEPT !.paid = total, !.isPaid = full]
  <2>3. pens[k] = IF alloc.penalty[k] > 0 THEN row ELSE penalties[k]
    BY Zenon DEF PenaltiesAfter
  <2>4. total \in 0..penalties[k].amount /\ total \in Nat
    BY <2>1, <2>2
  <2>5. full \in BOOLEAN
    OBVIOUS
  <2> HIDE DEF total, full
  <2>6. row \in PenaltyRows /\ row.paid = total /\ row.amount = penalties[k].amount
    BY <2>1, <2>4, <2>5 DEF PenaltyRows
  <2> HIDE DEF row
  <2> QED
    BY <2>1, <2>3, <2>4, <2>6
<1>5. pens \in Seq(PenaltyRows) /\ DOMAIN pens = DOMAIN penalties
  <2>1. DOMAIN pens = DOMAIN penalties /\ pens = [k \in DOMAIN penalties |-> pens[k]]
    BY DEF PenaltiesAfter
  <2> HIDE DEF pens
  <2>2. pens \in [DOMAIN penalties -> PenaltyRows]
    BY <1>4, <2>1
  <2>3. penalties \in Seq(PenaltyRows)
    BY Zenon DEF TypeOK
  <2> QED
    BY <2>1, <2>2, <2>3, SequenceOfFunction
<1> QED
  BY <1>2, <1>3, <1>4, <1>5 DEF alloc

LEMMA AllocationType ==
  ASSUME TypeOK, NEW amount \in Nat
  PROVE  /\ Allocate(amount) \in Allocations
         /\ CollectionEntry(Allocate(amount)) \in [Accounts -> Int]
         /\ NonNegative(Allocate(amount))
<1> DEFINE alloc == Allocate(amount)
<1>1. /\ alloc.penalty \in [1..Len(penalties) -> Nat]
      /\ alloc.interest \in [1..N -> Nat]
      /\ alloc.principal \in [1..N -> Nat]
  BY AllocateBounds
<1>2. alloc = [penalty |-> alloc.penalty, interest |-> alloc.interest,
               principal |-> alloc.principal]
  BY DEF Allocate
<1> HIDE DEF alloc
<1>3. N \in Nat /\ Len(penalties) \in Nat
  BY ScheduleAssumption, RowTypes
<1>4. alloc.penalty \in Seq(Nat) /\ alloc.penalty \in Seq(Int)
  <2>1. alloc.penalty \in [1..Len(penalties) -> Int]
    BY <1>1
  <2> QED
    BY <1>1, <1>3, <2>1, IntervalSequence, Zenon
<1>5. /\ alloc.interest \in [Installments -> Int] /\ alloc.principal \in [Installments -> Int]
      /\ \A i \in Installments : alloc.interest[i] \in Nat /\ alloc.principal[i] \in Nat
      /\ \A k \in DOMAIN alloc.penalty : alloc.penalty[k] \in Nat
  <2>1. \A i \in Installments : alloc.interest[i] \in Nat /\ alloc.principal[i] \in Nat
    BY <1>1 DEF Installments
  <2>2. alloc.interest \in [Installments -> Int] /\ alloc.principal \in [Installments -> Int]
    BY <1>1 DEF Installments
  <2>3. \A k \in DOMAIN alloc.penalty : alloc.penalty[k] \in Nat
    BY <1>4
  <2> QED
    BY <2>1, <2>2, <2>3
<1>6. alloc \in Allocations
  BY <1>2, <1>4, <1>5, Zenon DEF Allocations
<1>7. PrincipalTotal(alloc) \in Int /\ InterestTotal(alloc) \in Int
  <2>1. alloc.interest \in [1..N -> Int] /\ alloc.principal \in [1..N -> Int]
    BY <1>1
  <2> QED
    BY <1>3, <2>1, TotalType DEF PrincipalTotal, InterestTotal
<1>8. PenaltyTotal(alloc) \in Int
  <2>1. Len(alloc.penalty) \in Nat /\ alloc.penalty \in [1..Len(alloc.penalty) -> Int]
    BY <1>4
  <2> QED
    BY <2>1, TotalType DEF PenaltyTotal
<1>9. CollectionEntry(alloc) \in [Accounts -> Int]
  <2> DEFINE p == PrincipalTotal(alloc)
             i == InterestTotal(alloc)
             f == PenaltyTotal(alloc)
  <2>1. p + i + f \in Int /\ - p \in Int /\ - i \in Int /\ - f \in Int /\ 0 \in Int
    BY <1>7, <1>8
  <2>2. CollectionEntry(alloc) = Entry(p + i + f, - p, - i, 0, - f, 0)
    BY Zenon DEF CollectionEntry
  <2> HIDE DEF p, i, f
  <2>3. Entry(p + i + f, - p, - i, 0, - f, 0) \in [Accounts -> Int]
    BY <2>1, EntryType
  <2> QED
    BY <2>2, <2>3
<1>10. NonNegative(alloc)
  BY <1>5, Zenon DEF NonNegative
<1> QED
  BY <1>6, <1>9, <1>10 DEF alloc

LEMMA CollectionTypes ==
  ASSUME TypeOK, NEW c \in DOMAIN collections
  PROVE  /\ collections[c] \in CollectionRows
         /\ collections[c].amount \in Int
         /\ collections[c].entry \in [Accounts -> Int]
         /\ collections[c].alloc \in Allocations
         /\ collections[c].alloc.penalty \in Seq(Int)
         /\ collections[c].alloc.interest \in [Installments -> Int]
         /\ collections[c].alloc.principal \in [Installments -> Int]
         /\ c \in Nat
<1>1. collections \in Seq(CollectionRows)
  BY Zenon DEF TypeOK
<1>2. collections[c] \in CollectionRows /\ c \in Nat
  BY <1>1
<1>3. /\ collections[c].amount \in Int /\ collections[c].entry \in [Accounts -> Int]
      /\ collections[c].alloc \in Allocations
  BY <1>2 DEF CollectionRows
<1>4. /\ collections[c].alloc.penalty \in Seq(Int)
      /\ collections[c].alloc.interest \in [Installments -> Int]
      /\ collections[c].alloc.principal \in [Installments -> Int]
  BY <1>3 DEF Allocations
<1> QED
  BY <1>2, <1>3, <1>4

(* Taking back a payment that was not negative leaves every installment and  *)
(* penalty between zero and its due.                                         *)
LEMMA ReversalKeepsRows ==
  ASSUME AccountInv, NEW c \in DOMAIN collections, Reversible(c),
         \A k \in DOMAIN penalties : PenaltiesRestored(collections[c].alloc)[k].paid >= 0
  PROVE  LET alloc == collections[c].alloc
         IN  /\ Restored(alloc) \in [Installments -> InstallmentRows]
             /\ \A i \in Installments :
                  /\ Restored(alloc)[i].principalPaid \in 0..Principal[i]
                  /\ Restored(alloc)[i].interestPaid \in 0..Interest[i]
             /\ PenaltiesRestored(alloc) \in Seq(PenaltyRows)
             /\ DOMAIN PenaltiesRestored(alloc) = DOMAIN penalties
             /\ \A k \in DOMAIN penalties :
                  PenaltiesRestored(alloc)[k].paid \in 0..PenaltiesRestored(alloc)[k].amount
<1> DEFINE alloc == collections[c].alloc
           ins == Restored(alloc)
           pens == PenaltiesRestored(alloc)
<1>0. TypeOK /\ NeverOverpaid /\ AllocationsNonNegative
  BY DEF AccountInv
<1>1. /\ alloc.penalty \in Seq(Int)
      /\ \A k \in DOMAIN alloc.penalty : alloc.penalty[k] \in Nat
      /\ \A i \in Installments : alloc.interest[i] \in Nat /\ alloc.principal[i] \in Nat
  BY <1>0, CollectionTypes DEF AllocationsNonNegative, NonNegative, Reversible
<1> HIDE DEF alloc
<1>2. ASSUME NEW i \in Installments
      PROVE  /\ ins[i] \in InstallmentRows
             /\ ins[i].principalPaid \in 0..Principal[i]
             /\ ins[i].interestPaid \in 0..Interest[i]
  <2> DEFINE a == AtLeastZero(installments[i].principalPaid - alloc.principal[i])
             b == AtLeastZero(installments[i].interestPaid - alloc.interest[i])
             d == AtLeastZero(installments[i].penaltyPaid - PenaltyOn(alloc, i))
  <2>1. /\ Principal[i] \in Nat /\ Interest[i] \in Nat
        /\ installments[i] \in InstallmentRows
        /\ installments[i].principalPaid \in 0..Principal[i]
        /\ installments[i].interestPaid \in 0..Interest[i]
        /\ installments[i].penaltyPaid \in Nat
    BY <1>0, RowTypes, ScheduleAssumption DEF NeverOverpaid
  <2>2. PenaltyOn(alloc, i) \in Int
    BY <1>1, PenaltyOnType
  <2>3. /\ a \in 0..Principal[i] /\ b \in 0..Interest[i]
        /\ a \in Nat /\ b \in Nat /\ d \in Nat
    BY <1>1, <2>1, <2>2, SMTT(60) DEF AtLeastZero
  <2> HIDE DEF a, b, d
  <2>4. /\ InstallmentRow(i, a, b, d) \in InstallmentRows
        /\ InstallmentRow(i, a, b, d).principalPaid = a
        /\ InstallmentRow(i, a, b, d).interestPaid = b
    BY <2>3, InstallmentRowType
  <2>5. ins[i] = IF Touches(alloc, i) THEN InstallmentRow(i, a, b, d) ELSE installments[i]
    BY Zenon DEF Restored, a, b, d
  <2> QED
    BY <2>1, <2>3, <2>4, <2>5
<1>3. ins \in [Installments -> InstallmentRows]
  <2>1. ins = [i \in Installments |-> ins[i]]
    BY DEF Restored
  <2> HIDE DEF ins
  <2> QED
    BY <1>2, <2>1
<1>4. ASSUME NEW k \in DOMAIN penalties
      PROVE  pens[k] \in PenaltyRows /\ pens[k].paid \in 0..pens[k].amount
  <2> DEFINE x == PenaltyAllocated(alloc, k)
             left == penalties[k].paid - x
             row == [penalties[k] EXCEPT !.paid = left, !.isPaid = FALSE]
  <2>1. /\ penalties[k] \in PenaltyRows
        /\ penalties[k].amount \in Nat
        /\ penalties[k].paid \in 0..penalties[k].amount
    BY <1>0, RowTypes DEF NeverOverpaid
  <2>2. x \in Nat
    BY <1>1 DEF PenaltyAllocated
  <2>3. pens[k] = IF x > 0 THEN row ELSE penalties[k]
    BY Zenon DEF PenaltiesRestored
  <2>4. pens[k].paid >= 0
    BY DEF alloc
  <2> HIDE DEF x, pens
  <2>5. left \in Int /\ (left >= 0 => left \in Nat /\ left \in 0..penalties[k].amount)
    BY <2>1, <2>2
  <2> HIDE DEF left
  <2>6. row.paid = left /\ row.amount = penalties[k].amount
        /\ (left \in Nat => row \in PenaltyRows)
    BY <2>1 DEF PenaltyRows
  <2> HIDE DEF row
  <2> QED
    BY <2>1, <2>3, <2>4, <2>5, <2>6
<1>5. pens \in Seq(PenaltyRows) /\ DOMAIN pens = DOMAIN penalties
  <2>1. DOMAIN pens = DOMAIN penalties /\ pens = [k \in DOMAIN penalties |-> pens[k]]
    BY DEF PenaltiesRestored
  <2> HIDE DEF pens
  <2>2. pens \in [DOMAIN penalties -> PenaltyRows]
    BY <1>4, <2>1
  <2>3. penalties \in Seq(PenaltyRows)
    BY <1>0, Zenon DEF TypeOK
  <2> QED
    BY <2>1, <2>2, <2>3, SequenceOfFunction
<1> QED
  BY <1>2, <1>3, <1>4, <1>5 DEF alloc

-----------------------------------------------------------------------------
(* Every action keeps the invariant. *)
LEMMA AppendRow ==
  ASSUME NEW T, NEW s \in Seq(T), NEW e \in T
  PROVE  /\ Append(s, e) \in Seq(T)
         /\ \A j \in DOMAIN Append(s, e) :
              (j \in DOMAIN s /\ Append(s, e)[j] = s[j]) \/ Append(s, e)[j] = e
OBVIOUS

LEMMA RowsUnchanged ==
  ASSUME AccountInv, UNCHANGED <<installments, penalties, collections>>
  PROVE  NeverOverpaid' /\ AllocationsNonNegative'
BY Zenon DEF AccountInv, NeverOverpaid, AllocationsNonNegative, NonNegative

LEMMA StutterPreserves ==
  ASSUME AccountInv, UNCHANGED vars
  PROVE  AccountInv'
<1>1. UNCHANGED <<loan, installments, penalties, collections, ledger, quotes, history,
                  reads, day>>
  BY DEF vars
<1>2. TypeOK'
  BY <1>1, Zenon DEF AccountInv, TypeOK
<1> QED
  BY <1>1, <1>2, RowsUnchanged DEF AccountInv

LEMMA PostType ==
  ASSUME TypeOK, NEW e \in [Accounts -> Int], Post(e)
  PROVE  ledger' \in [Accounts -> Int]
<1>1. ledger \in [Accounts -> Int]
  BY Zenon DEF TypeOK
<1>2. ledger' = [a \in Accounts |-> ledger[a] + e[a]]
  BY Zenon DEF Post
<1> QED
  BY <1>1, <1>2

LEMMA RecordType ==
  ASSUME TypeOK, NEW to, Record(loan.status, to)
  PROVE  history'.to = to
BY DEF TypeOK, Record

LEMMA DisbursePreserves ==
  ASSUME AccountInv, Disburse
  PROVE  AccountInv'
<1>0. TypeOK
  BY DEF AccountInv
<1>1. loan' \in [status : {"approved"} \union Live \union Terminal, cached : Nat, dpd : Nat]
  BY ScheduleTotals DEF Disburse, Live
<1>2. ledger' \in [Accounts -> Int]
  <2>1. /\ ProcessingFee - TotalPrincipal \in Int /\ TotalPrincipal \in Int
        /\ - ProcessingFee \in Int /\ 0 \in Int
    BY ScheduleTotals, ProductAssumption
  <2>2. Entry(ProcessingFee - TotalPrincipal, TotalPrincipal, 0, - ProcessingFee, 0, 0)
          \in [Accounts -> Int]
    BY <2>1, EntryType
  <2>3. Post(Entry(ProcessingFee - TotalPrincipal, TotalPrincipal, 0, - ProcessingFee, 0, 0))
    BY Zenon DEF Disburse
  <2> QED
    BY <1>0, <2>2, <2>3, PostType, Zenon
<1>3. history'.to = loan'.status
  BY DEF Disburse
<1>4. UNCHANGED <<installments, penalties, collections, quotes, reads, day>>
  BY DEF Disburse
<1>5. TypeOK'
  BY <1>0, <1>1, <1>2, <1>3, <1>4, Zenon DEF TypeOK
<1> QED
  BY <1>4, <1>5, RowsUnchanged DEF AccountInv

LEMMA PostCollectionPreserves ==
  ASSUME AccountInv, NEW amount \in Amounts, PostCollection(amount)
  PROVE  AccountInv'
<1> DEFINE alloc == Allocate(amount)
           entry == CollectionEntry(alloc)
           gross == ScheduleOutstanding(installments) + PendingGross(penalties)
           paid == InstallmentsAfter(alloc)
           to == StatusAfterCollection(paid, gross - amount)
           row == [kind |-> "payment", amount |-> amount, status |-> "posted",
                   original |-> 0, alloc |-> alloc, entry |-> entry, receipt |-> "issued"]
<1>0. TypeOK /\ NeverOverpaid /\ AllocationsNonNegative
  BY DEF AccountInv
<1>1. amount \in Nat /\ day \in Int
  BY <1>0, BoundAssumption DEF TypeOK
<1>2. /\ Post(entry)
      /\ collections' = Append(collections, row)
      /\ penalties' = PenaltiesAfter(alloc)
      /\ installments' = paid
      /\ loan' = [status |-> to, cached |-> AtLeastZero(gross - amount), dpd |-> Dpd(paid, day)]
      /\ Record(loan.status, to)
      /\ UNCHANGED <<quotes, reads, day>>
  BY Zenon DEF PostCollection
<1>3. alloc \in Allocations /\ entry \in [Accounts -> Int] /\ NonNegative(alloc)
  BY <1>0, <1>1, AllocationType
<1>4. gross \in Int
  <2>1. installments \in [Installments -> InstallmentRows] /\ penalties \in Seq(PenaltyRows)
    BY <1>0, Zenon DEF TypeOK
  <2> QED
    BY <2>1, OutstandingType, PendingTypes
<1>5. to \in {"active", "overdue", "closed"} /\ Dpd(paid, day) \in Nat
  BY <1>1, DpdType DEF StatusAfterCollection
<1>6. /\ installments' \in [Installments -> InstallmentRows]
      /\ \A i \in Installments : /\ installments'[i].principalPaid \in 0..Principal[i]
                                 /\ installments'[i].interestPaid \in 0..Interest[i]
      /\ penalties' \in Seq(PenaltyRows)
      /\ DOMAIN penalties' = DOMAIN penalties
      /\ \A k \in DOMAIN penalties : penalties'[k].paid \in 0..penalties'[k].amount
  BY <1>0, <1>1, <1>2, PaymentKeepsRows
<1> HIDE DEF alloc, entry, gross, paid, to
<1>7. row \in CollectionRows /\ row.alloc = alloc
  BY <1>1, <1>3 DEF CollectionRows
<1> HIDE DEF row
<1>8. collections \in Seq(CollectionRows)
  BY <1>0, Zenon DEF TypeOK
<1>9. /\ collections' \in Seq(CollectionRows)
      /\ \A j \in DOMAIN collections' :
           (j \in DOMAIN collections /\ collections'[j] = collections[j]) \/ collections'[j] = row
  BY <1>2, <1>7, <1>8, AppendRow
<1>10. loan' \in [status : {"approved"} \union Live \union Terminal, cached : Nat, dpd : Nat]
       /\ loan'.status = to
  BY <1>1, <1>2, <1>4, <1>5 DEF Live, Terminal, AtLeastZero
<1>11. ledger' \in [Accounts -> Int]
  BY <1>0, <1>2, <1>3, PostType
<1>12. history'.to = loan'.status
  BY <1>0, <1>2, <1>10, RecordType
<1>13. TypeOK'
  BY <1>0, <1>2, <1>6, <1>9, <1>10, <1>11, <1>12, Zenon DEF TypeOK
<1>14. NeverOverpaid'
  BY <1>6, Zenon DEF NeverOverpaid
<1>15. AllocationsNonNegative'
  BY <1>0, <1>3, <1>7, <1>9, Zenon DEF AllocationsNonNegative, NonNegative
<1> QED
  BY <1>13, <1>14, <1>15 DEF AccountInv

LEMMA NegatedType ==
  ASSUME NEW alloc \in Allocations
  PROVE  Negated(alloc) \in Allocations
<1>1. /\ alloc.penalty \in Seq(Int)
      /\ alloc.interest \in [Installments -> Int]
      /\ alloc.principal \in [Installments -> Int]
  BY DEF Allocations
<1> DEFINE p == [k \in DOMAIN alloc.penalty |-> - alloc.penalty[k]]
           i == [j \in Installments |-> - alloc.interest[j]]
           q == [j \in Installments |-> - alloc.principal[j]]
<1>2. p \in [DOMAIN alloc.penalty -> Int]
  BY <1>1
<1>3. p \in Seq(Int)
  BY <1>1, <1>2, SequenceOfFunction
<1>4. i \in [Installments -> Int] /\ q \in [Installments -> Int]
  BY <1>1
<1>5. Negated(alloc) = [penalty |-> p, interest |-> i, principal |-> q]
  BY DEF Negated
<1> HIDE DEF p, i, q
<1> QED
  BY <1>3, <1>4, <1>5 DEF Allocations

LEMMA ReverseCollectionPreserves ==
  ASSUME AccountInv, NEW c \in DOMAIN collections, ReverseCollection(c)
  PROVE  AccountInv'
<1> DEFINE alloc == collections[c].alloc
           mirror == [a \in Accounts |-> - collections[c].entry[a]]
           insts == Restored(alloc)
           pens == PenaltiesRestored(alloc)
           marked == [collections EXCEPT ![c].status = "reversed", ![c].receipt = "reversed"]
           row == [kind |-> "reversal", amount |-> - collections[c].amount,
                   status |-> "posted", original |-> c, alloc |-> Negated(alloc),
                   entry |-> mirror, receipt |-> "issued"]
           cached == AtLeastZero(ScheduleOutstanding(insts) + PendingNet(pens))
<1>0. TypeOK /\ NeverOverpaid /\ AllocationsNonNegative
  BY DEF AccountInv
<1>1. /\ Reversible(c)
      /\ \A k \in DOMAIN pens : pens[k].paid >= 0
      /\ Post(mirror)
      /\ collections' = Append(marked, row)
      /\ penalties' = pens
      /\ installments' = insts
      /\ loan' = [loan EXCEPT !.cached = cached, !.dpd = Dpd(insts, day)]
      /\ UNCHANGED <<quotes, history, reads, day>>
  BY Zenon DEF ReverseCollection
<1>2. DOMAIN pens = DOMAIN penalties
  BY DEF PenaltiesRestored
<1>3. \A k \in DOMAIN penalties : PenaltiesRestored(alloc)[k].paid >= 0
  BY <1>1, <1>2
<1>4. /\ installments' \in [Installments -> InstallmentRows]
      /\ \A i \in Installments : /\ installments'[i].principalPaid \in 0..Principal[i]
                                 /\ installments'[i].interestPaid \in 0..Interest[i]
      /\ penalties' \in Seq(PenaltyRows)
      /\ DOMAIN penalties' = DOMAIN penalties
      /\ \A k \in DOMAIN penalties : penalties'[k].paid \in 0..penalties'[k].amount
  BY <1>1, <1>3, ReversalKeepsRows
<1>5. /\ collections[c] \in CollectionRows
      /\ collections[c].amount \in Int
      /\ collections[c].entry \in [Accounts -> Int]
      /\ alloc \in Allocations
      /\ c \in Nat
  BY <1>0, CollectionTypes
<1>6. mirror \in [Accounts -> Int] /\ Negated(alloc) \in Allocations
  BY <1>5, NegatedType
<1>7. cached \in Nat
  <2>1. ScheduleOutstanding(insts) \in Int /\ PendingNet(pens) \in Nat
    BY <1>1, <1>4, OutstandingType, PendingTypes
  <2> QED
    BY <2>1 DEF AtLeastZero
<1>8. Dpd(insts, day) \in Nat
  <2>1. day \in Int
    BY <1>0 DEF TypeOK
  <2> QED
    BY <2>1, DpdType
<1> HIDE DEF alloc, mirror, insts, pens, cached
<1>9. row \in CollectionRows /\ row.kind = "reversal"
  BY <1>5, <1>6 DEF CollectionRows
<1> HIDE DEF row
<1>10. collections \in Seq(CollectionRows)
  BY <1>0, Zenon DEF TypeOK
<1>11. [collections[c] EXCEPT !.status = "reversed", !.receipt = "reversed"] \in CollectionRows
  BY <1>5 DEF CollectionRows
<1>12. /\ DOMAIN marked = DOMAIN collections
       /\ \A j \in DOMAIN collections :
            /\ marked[j] \in CollectionRows
            /\ marked[j].kind = collections[j].kind
            /\ marked[j].alloc = collections[j].alloc
  <2> DEFINE changed == [collections[c] EXCEPT !.status = "reversed", !.receipt = "reversed"]
  <2>1. changed.kind = collections[c].kind /\ changed.alloc = collections[c].alloc
    BY <1>5 DEF CollectionRows
  <2>2. /\ DOMAIN marked = DOMAIN collections
        /\ \A j \in DOMAIN collections : marked[j] = IF j = c THEN changed ELSE collections[j]
    BY <1>10
  <2>3. changed \in CollectionRows
    BY <1>11
  <2>4. \A j \in DOMAIN collections : collections[j] \in CollectionRows
    BY <1>10
  <2> HIDE DEF changed, marked
  <2> QED
    BY <2>1, <2>2, <2>3, <2>4
<1>13. marked \in Seq(CollectionRows)
  <2>1. marked = [j \in DOMAIN collections |-> marked[j]]
    BY <1>10
  <2> HIDE DEF marked
  <2>2. marked \in [DOMAIN collections -> CollectionRows]
    BY <1>12, <2>1
  <2> QED
    BY <1>10, <2>2, SequenceOfFunction
<1> HIDE DEF marked
<1>14. /\ collections' \in Seq(CollectionRows)
       /\ \A j \in DOMAIN collections' :
            (j \in DOMAIN marked /\ collections'[j] = marked[j]) \/ collections'[j] = row
  BY <1>1, <1>9, <1>13, AppendRow
<1>15. /\ loan' \in [status : {"approved"} \union Live \union Terminal, cached : Nat, dpd : Nat]
       /\ loan'.status = loan.status
  <2>1. loan \in [status : {"approved"} \union Live \union Terminal, cached : Nat, dpd : Nat]
    BY <1>0, Zenon DEF TypeOK
  <2> QED
    BY <1>1, <1>7, <1>8, <2>1
<1>16. ledger' \in [Accounts -> Int]
  BY <1>0, <1>1, <1>6, PostType
<1>17. history'.to = loan'.status
  BY <1>0, <1>1, <1>15 DEF TypeOK
<1>18. TypeOK'
  BY <1>0, <1>1, <1>4, <1>14, <1>15, <1>16, <1>17, Zenon DEF TypeOK
<1>19. NeverOverpaid'
  BY <1>4, Zenon DEF NeverOverpaid
<1>20. AllocationsNonNegative'
  BY <1>0, <1>9, <1>12, <1>14, Zenon DEF AllocationsNonNegative, NonNegative
<1> QED
  BY <1>18, <1>19, <1>20 DEF AccountInv

LEMMA StatusForDpdType ==
  ASSUME TypeOK, NEW dpd \in Nat
  PROVE  StatusForDpd(dpd) \in {"approved"} \union Live \union Terminal
<1>1. loan.status \in {"approved"} \union Live \union Terminal
  BY DEF TypeOK
<1> QED
  BY <1>1 DEF StatusForDpd, Live

LEMMA PenaltyAmountType ==
  ASSUME NEW overdue \in Int
  PROVE  PenaltyAmount(overdue) \in Int
<1> DEFINE x == overdue * PenaltyValue
<1>1. x \in Int /\ PenaltyValue \in Int
  BY ProductAssumption
<1> HIDE DEF x
<1>2. HalfUp(x, 10000) \in Int
  BY <1>1 DEF HalfUp
<1>3. PenaltyType = "flat_per_period" \/ PenaltyType = "percentage_of_overdue"
  BY ProductAssumption
<1> QED
  BY <1>1, <1>2, <1>3 DEF PenaltyAmount, x

LEMMA PostPenaltyPreserves ==
  ASSUME AccountInv, NEW i \in Installments, NEW period \in 1..Periods,
         NEW reference \in 0..MaxDay, PostPenalty(i, period, reference)
  PROVE  AccountInv'
<1> DEFINE overdue == (Principal[i] - installments[i].principalPaid)
                        + (Interest[i] - installments[i].interestPaid)
           amount == PenaltyAmount(overdue)
           dpd == Dpd(installments, reference)
           to == StatusForDpd(dpd)
           row == [installment |-> i, period |-> period, amount |-> amount, paid |-> 0,
                   isPaid |-> FALSE, isWaived |-> FALSE]
<1>0. TypeOK /\ NeverOverpaid /\ AllocationsNonNegative
  BY DEF AccountInv
<1>1. /\ amount > 0
      /\ Post(Entry(0, amount, 0, 0, - amount, 0))
      /\ penalties' = Append(penalties, row)
      /\ loan' = [status |-> to, cached |-> loan.cached + amount, dpd |-> dpd]
      /\ Record(loan.status, to)
      /\ UNCHANGED <<installments, collections, quotes, reads, day>>
  BY Zenon DEF PostPenalty
<1>2. overdue \in Int
  <2>1. Principal[i] \in Nat /\ Interest[i] \in Nat
    BY ScheduleAssumption
  <2>2. installments[i].principalPaid \in Nat /\ installments[i].interestPaid \in Nat
    BY <1>0, RowTypes
  <2> QED
    BY <2>1, <2>2
<1>3. dpd \in Nat
  <2>1. reference \in Int
    OBVIOUS
  <2> QED
    BY <2>1, DpdType
<1> HIDE DEF overdue, dpd
<1>4. amount \in Nat /\ - amount \in Int
  <2>1. amount \in Int
    BY <1>2, PenaltyAmountType
  <2> HIDE DEF amount
  <2> QED
    BY <1>1, <2>1
<1>5. to \in {"approved"} \union Live \union Terminal
  BY <1>0, <1>3, StatusForDpdType
<1> HIDE DEF amount, to
<1>6. loan.cached \in Nat
  BY <1>0 DEF TypeOK
<1>7. /\ loan' \in [status : {"approved"} \union Live \union Terminal, cached : Nat, dpd : Nat]
      /\ loan'.status = to
  BY <1>1, <1>3, <1>4, <1>5, <1>6
<1>8. row \in PenaltyRows /\ row.paid \in 0..row.amount
  BY <1>4 DEF PenaltyRows
<1> HIDE DEF row
<1>9. penalties \in Seq(PenaltyRows)
  BY <1>0, Zenon DEF TypeOK
<1>10. /\ penalties' \in Seq(PenaltyRows)
       /\ \A j \in DOMAIN penalties' :
            (j \in DOMAIN penalties /\ penalties'[j] = penalties[j]) \/ penalties'[j] = row
  BY <1>1, <1>8, <1>9, AppendRow
<1>11. ledger' \in [Accounts -> Int]
  <2>1. amount \in Int /\ 0 \in Int
    BY <1>4
  <2>2. Entry(0, amount, 0, 0, - amount, 0) \in [Accounts -> Int]
    BY <1>4, <2>1, EntryType, Zenon
  <2> QED
    BY <1>0, <1>1, <2>2, PostType, Zenon
<1>12. history'.to = loan'.status
  BY <1>0, <1>1, <1>7, RecordType
<1>13. TypeOK'
  BY <1>0, <1>1, <1>7, <1>10, <1>11, <1>12, Zenon DEF TypeOK
<1>14. NeverOverpaid'
  BY <1>0, <1>1, <1>8, <1>10, Zenon DEF NeverOverpaid
<1>15. AllocationsNonNegative'
  BY <1>0, <1>1, Zenon DEF AllocationsNonNegative
<1> QED
  BY <1>13, <1>14, <1>15 DEF AccountInv

LEMMA WaivePenaltyPreserves ==
  ASSUME AccountInv, NEW k \in DOMAIN penalties, WaivePenalty(k)
  PROVE  AccountInv'
<1> DEFINE dpd == Dpd(installments, day)
           to == StatusForDpd(dpd)
           cached == AtLeastZero(loan.cached - WaivedPaise(penalties[k]))
<1>0. TypeOK /\ NeverOverpaid /\ AllocationsNonNegative
  BY DEF AccountInv
<1>1. /\ penalties' = [penalties EXCEPT ![k].isWaived = TRUE]
      /\ loan' = [status |-> to, cached |-> cached, dpd |-> dpd]
      /\ Record(loan.status, to)
      /\ UNCHANGED <<installments, collections, ledger, quotes, reads, day>>
  BY Zenon DEF WaivePenalty
<1>2. dpd \in Nat
  <2>1. day \in Int
    BY <1>0 DEF TypeOK
  <2> QED
    BY <2>1, DpdType
<1> HIDE DEF dpd
<1>3. cached \in Nat
  <2>1. loan.cached \in Nat
    BY <1>0 DEF TypeOK
  <2>2. penalties[k].amount \in Nat /\ penalties[k].paid \in Nat
    BY <1>0, RowTypes
  <2> QED
    BY <2>1, <2>2 DEF AtLeastZero, WaivedPaise
<1>4. to \in {"approved"} \union Live \union Terminal
  BY <1>0, <1>2, StatusForDpdType
<1> HIDE DEF to, cached
<1>5. /\ loan' \in [status : {"approved"} \union Live \union Terminal, cached : Nat, dpd : Nat]
      /\ loan'.status = to
  BY <1>1, <1>2, <1>3, <1>4
<1>6. penalties \in Seq(PenaltyRows)
  BY <1>0, Zenon DEF TypeOK
<1> DEFINE row == [penalties[k] EXCEPT !.isWaived = TRUE]
<1>7. /\ row \in PenaltyRows
      /\ row.paid = penalties[k].paid /\ row.amount = penalties[k].amount
  <2>1. penalties[k] \in PenaltyRows
    BY <1>6
  <2> QED
    BY <2>1 DEF PenaltyRows
<1>8. /\ DOMAIN penalties' = DOMAIN penalties
      /\ penalties' = [j \in DOMAIN penalties |-> penalties'[j]]
      /\ \A j \in DOMAIN penalties : penalties'[j] = IF j = k THEN row ELSE penalties[j]
  BY <1>1, <1>6
<1> HIDE DEF row
<1>9. penalties' \in Seq(PenaltyRows)
  <2>1. \A j \in DOMAIN penalties : penalties[j] \in PenaltyRows
    BY <1>6
  <2>2. penalties' \in [DOMAIN penalties -> PenaltyRows]
    BY <1>7, <1>8, <2>1
  <2> QED
    BY <1>6, <2>2, SequenceOfFunction
<1>10. history'.to = loan'.status
  BY <1>0, <1>1, <1>5, RecordType
<1>11. TypeOK'
  BY <1>0, <1>1, <1>5, <1>9, <1>10, Zenon DEF TypeOK
<1>12. NeverOverpaid'
  BY <1>0, <1>1, <1>7, <1>8, Zenon DEF NeverOverpaid
<1>13. AllocationsNonNegative'
  BY <1>0, <1>1, Zenon DEF AllocationsNonNegative
<1> QED
  BY <1>11, <1>12, <1>13 DEF AccountInv

LEMMA AccruedInterestType ==
  ASSUME TypeOK, NEW at \in Nat
  PROVE  AccruedInterest(at) \in Nat
<1>1. CASE InterestType = "flat"
  <2> DEFINE term == IF DueDay[N] > 1 THEN DueDay[N] ELSE 1
             elapsed == Lesser(term, AtLeastZero(at))
             f == [i \in Installments |-> installments[i].interestPaid]
             x == TotalInterest * elapsed
             y == HalfUp(x, term)
  <2>1. DueDay[N] \in Nat
    BY ScheduleAssumption DEF Installments
  <2>2. term \in Nat \ {0} /\ elapsed \in Nat
    BY <2>1 DEF Lesser, AtLeastZero
  <2>3. AccruedInterest(at) = AtLeastZero(y - Total(N, f))
    BY <1>1, Zenon DEF AccruedInterest
  <2>4. f \in [1..N -> Int]
    BY RowTypes DEF Installments
  <2> HIDE DEF term, elapsed, f
  <2>5. x \in Nat
    BY <2>2, ScheduleTotals
  <2> HIDE DEF x
  <2>6. y \in Nat
    BY <2>2, <2>5, DivisionType
  <2> HIDE DEF y
  <2>7. Total(N, f) \in Int
    BY <2>4, TotalType, ScheduleAssumption
  <2> QED
    BY <2>3, <2>6, <2>7 DEF AtLeastZero
<1>2. CASE InterestType # "flat"
  <2> DEFINE x == OutstandingPrincipal * RateNum
             y == x * AtLeastZero(at)
  <2>1. OutstandingPrincipal \in Nat /\ RateNum \in Nat /\ RateDen \in Nat \ {0}
    BY PrincipalType, ProductAssumption
  <2>2. x \in Nat
    BY <2>1
  <2> HIDE DEF x
  <2>3. AtLeastZero(at) \in Nat
    BY DEF AtLeastZero
  <2>4. y \in Nat
    BY <2>2, <2>3
  <2>5. AccruedInterest(at) = HalfUp(y, RateDen)
    BY <1>2, Zenon DEF AccruedInterest, x
  <2> HIDE DEF y
  <2> QED
    BY <2>1, <2>4, <2>5, DivisionType
<1> QED
  BY <1>1, <1>2

LEMMA ReadForQuotePreserves ==
  ASSUME AccountInv, ReadForQuote
  PROVE  AccountInv'
<1>0. TypeOK
  BY DEF AccountInv
<1>1. /\ reads' = [reads EXCEPT !.quote = TRUE, !.principal = OutstandingPrincipal,
                                !.interest = AccruedInterest(day), !.at = day]
      /\ UNCHANGED <<loan, installments, penalties, collections, ledger, quotes, history, day>>
  BY Zenon DEF ReadForQuote
<1>2. /\ reads \in [close : {"none"} \union Live, quote : BOOLEAN, principal : Nat,
                    interest : Nat, at : Nat]
      /\ day \in Nat
  BY <1>0, BoundAssumption DEF TypeOK
<1>3. OutstandingPrincipal \in Nat /\ AccruedInterest(day) \in Nat
  BY <1>0, <1>2, PrincipalType, AccruedInterestType
<1>4. reads' \in [close : {"none"} \union Live, quote : BOOLEAN, principal : Nat,
                  interest : Nat, at : Nat]
  BY <1>1, <1>2, <1>3
<1>5. TypeOK'
  BY <1>0, <1>1, <1>4, Zenon DEF TypeOK
<1> QED
  BY <1>1, <1>5, RowsUnchanged DEF AccountInv

LEMMA ReadsEndedType ==
  ASSUME TypeOK
  PROVE  /\ [NoReads EXCEPT !.close = reads.close]
              \in [close : {"none"} \union Live, quote : BOOLEAN, principal : Nat,
                   interest : Nat, at : Nat]
         /\ [reads EXCEPT !.close = "none"]
              \in [close : {"none"} \union Live, quote : BOOLEAN, principal : Nat,
                   interest : Nat, at : Nat]
<1>1. reads \in [close : {"none"} \union Live, quote : BOOLEAN, principal : Nat,
                 interest : Nat, at : Nat]
  BY Zenon DEF TypeOK
<1> QED
  BY <1>1 DEF NoReads

LEMMA CreateQuotePreserves ==
  ASSUME AccountInv, NEW rebate \in Rebates, CreateQuote(rebate)
  PROVE  AccountInv'
<1> DEFINE gross == PendingGross(penalties)
           dues == reads.principal + reads.interest + gross
           row == [principal |-> reads.principal, interest |-> reads.interest,
                   penalties |-> gross, rebate |-> rebate, settlement |-> dues - rebate,
                   expires |-> reads.at + QuoteDays, status |-> "quote"]
<1>0. TypeOK
  BY DEF AccountInv
<1>1. /\ rebate <= dues
      /\ quotes' = Append(quotes, row)
      /\ reads' = [NoReads EXCEPT !.close = reads.close]
      /\ UNCHANGED <<loan, installments, penalties, collections, ledger, history, day>>
  BY Zenon DEF CreateQuote
<1>2. reads.principal \in Nat /\ reads.interest \in Nat /\ reads.at \in Nat
  BY <1>0 DEF TypeOK
<1>3. gross \in Nat
  <2>1. penalties \in Seq(PenaltyRows)
    BY <1>0, Zenon DEF TypeOK
  <2> QED
    BY <2>1, PendingTypes
<1> HIDE DEF gross
<1>4. rebate \in Nat /\ QuoteDays \in Nat
  BY BoundAssumption, ProductAssumption
<1>5. dues \in Nat /\ dues - rebate \in Nat /\ reads.at + QuoteDays \in Nat
  BY <1>1, <1>2, <1>3, <1>4, SMTT(60)
<1> HIDE DEF dues
<1>6. row \in QuoteRows
  BY <1>2, <1>3, <1>4, <1>5 DEF QuoteRows
<1> HIDE DEF row
<1>7. quotes \in Seq(QuoteRows)
  BY <1>0, Zenon DEF TypeOK
<1>8. quotes' \in Seq(QuoteRows)
  BY <1>1, <1>6, <1>7, AppendRow
<1>9. TypeOK'
  BY <1>0, <1>1, <1>8, ReadsEndedType, Zenon DEF TypeOK
<1> QED
  BY <1>1, <1>9, RowsUnchanged DEF AccountInv

(* A settlement changes flags and statuses, no paid amount. *)
LEMMA ExecuteForeclosurePreserves ==
  ASSUME AccountInv, NEW n \in DOMAIN quotes, ExecuteForeclosure(n)
  PROVE  AccountInv'
<1> DEFINE q == quotes[n]
           entry == SettlementEntry(q)
           row == [kind |-> "settlement", amount |-> q.settlement, status |-> "posted",
                   original |-> 0, alloc |-> NoAllocation, entry |-> entry,
                   receipt |-> "issued"]
           closed(i) == [installments[i] EXCEPT !.status = "closed"]
           settled(k) == [penalties[k] EXCEPT !.isPaid = TRUE]
<1>0. TypeOK /\ NeverOverpaid /\ AllocationsNonNegative
  BY DEF AccountInv
<1>1. /\ Post(entry)
      /\ collections' = Append(collections, row)
      /\ installments' = [i \in Installments |->
           IF installments[i].status \in {"paid", "closed"} THEN installments[i] ELSE closed(i)]
      /\ penalties' = [k \in DOMAIN penalties |->
           IF IsPending(penalties[k]) THEN settled(k) ELSE penalties[k]]
      /\ loan' = [status |-> "foreclosed", cached |-> 0, dpd |-> 0]
      /\ Record(loan.status, "foreclosed")
      /\ quotes' = [quotes EXCEPT ![n].status = "settled"]
      /\ UNCHANGED <<reads, day>>
  BY Zenon DEF ExecuteForeclosure
<1>2. quotes \in Seq(QuoteRows) /\ penalties \in Seq(PenaltyRows)
      /\ collections \in Seq(CollectionRows)
      /\ installments \in [Installments -> InstallmentRows]
  BY <1>0, Zenon DEF TypeOK
<1>3. q \in QuoteRows
  BY <1>2
<1>4. entry \in [Accounts -> Int]
  <2>1. /\ q.settlement \in Int /\ - q.principal \in Int /\ - q.interest \in Int /\ 0 \in Int
        /\ - q.penalties \in Int /\ q.rebate \in Int /\ q.settlement \in Nat
    BY <1>3 DEF QuoteRows
  <2>2. Entry(q.settlement, - q.principal, - q.interest, 0, - q.penalties, q.rebate)
          \in [Accounts -> Int]
    BY <2>1, EntryType, Zenon
  <2> QED
    BY <2>2, Zenon DEF SettlementEntry
<1> HIDE DEF entry
<1>5. NoAllocation \in Allocations /\ NonNegative(NoAllocation)
  <2>1. <<>> \in Seq(Int) /\ DOMAIN <<>> = {}
    OBVIOUS
  <2>2. [i \in Installments |-> 0] \in [Installments -> Int]
    OBVIOUS
  <2>3. \A i \in Installments : [j \in Installments |-> 0][i] \in Nat
    OBVIOUS
  <2>4. NoAllocation \in Allocations
    BY <2>1, <2>2 DEF NoAllocation, Allocations
  <2>5. /\ NoAllocation.penalty = <<>>
        /\ NoAllocation.interest = [i \in Installments |-> 0]
        /\ NoAllocation.principal = [i \in Installments |-> 0]
    BY DEF NoAllocation
  <2> QED
    BY <2>1, <2>3, <2>4, <2>5 DEF NonNegative
<1>6. row \in CollectionRows /\ row.alloc = NoAllocation
  <2>1. q.settlement \in Int
    BY <1>3 DEF QuoteRows
  <2> QED
    BY <1>4, <1>5, <2>1 DEF CollectionRows
<1> HIDE DEF row
<1>7. /\ collections' \in Seq(CollectionRows)
      /\ \A j \in DOMAIN collections' :
           (j \in DOMAIN collections /\ collections'[j] = collections[j]) \/ collections'[j] = row
  BY <1>1, <1>2, <1>6, AppendRow
<1>8. \A i \in Installments :
        /\ closed(i) \in InstallmentRows
        /\ closed(i).principalPaid = installments[i].principalPaid
        /\ closed(i).interestPaid = installments[i].interestPaid
  <2>1. \A i \in Installments : installments[i] \in InstallmentRows
    BY <1>2
  <2> QED
    BY <2>1 DEF InstallmentRows
<1>9. \A k \in DOMAIN penalties :
        /\ settled(k) \in PenaltyRows
        /\ settled(k).paid = penalties[k].paid /\ settled(k).amount = penalties[k].amount
  <2>1. \A k \in DOMAIN penalties : penalties[k] \in PenaltyRows
    BY <1>2
  <2> QED
    BY <2>1 DEF PenaltyRows
<1> HIDE DEF closed, settled
<1>10. /\ installments' \in [Installments -> InstallmentRows]
       /\ \A i \in Installments :
            /\ installments'[i].principalPaid = installments[i].principalPaid
            /\ installments'[i].interestPaid = installments[i].interestPaid
  BY <1>1, <1>2, <1>8
<1>11. /\ penalties' \in [DOMAIN penalties -> PenaltyRows]
       /\ DOMAIN penalties' = DOMAIN penalties
       /\ \A k \in DOMAIN penalties : /\ penalties'[k].paid = penalties[k].paid
                                      /\ penalties'[k].amount = penalties[k].amount
  <2>1. \A k \in DOMAIN penalties : penalties[k] \in PenaltyRows
    BY <1>2
  <2>2. DOMAIN penalties' = DOMAIN penalties /\
        \A k \in DOMAIN penalties :
          penalties'[k] = IF IsPending(penalties[k]) THEN settled(k) ELSE penalties[k]
    BY <1>1
  <2>3. \A k \in DOMAIN penalties :
          /\ penalties'[k] \in PenaltyRows
          /\ penalties'[k].paid = penalties[k].paid
          /\ penalties'[k].amount = penalties[k].amount
    BY <1>9, <2>1, <2>2, Zenon
  <2>4. penalties' = [k \in DOMAIN penalties |-> penalties'[k]]
    BY <1>1
  <2> QED
    BY <2>2, <2>3, <2>4
<1>12. penalties' \in Seq(PenaltyRows)
  BY <1>2, <1>11, SequenceOfFunction
<1>13. quotes' \in Seq(QuoteRows)
  <2>1. [q EXCEPT !.status = "settled"] \in QuoteRows
    BY <1>3 DEF QuoteRows
  <2>2. \A j \in DOMAIN quotes : quotes[j] \in QuoteRows
    BY <1>2
  <2>3. quotes' = [j \in DOMAIN quotes |->
                     IF j = n THEN [q EXCEPT !.status = "settled"] ELSE quotes[j]]
    BY <1>1, <1>2
  <2>4. quotes' \in [DOMAIN quotes -> QuoteRows]
    BY <2>1, <2>2, <2>3
  <2> QED
    BY <1>2, <2>4, SequenceOfFunction
<1>14. /\ loan' \in [status : {"approved"} \union Live \union Terminal, cached : Nat, dpd : Nat]
       /\ loan'.status = "foreclosed"
  BY <1>1 DEF Terminal
<1>15. ledger' \in [Accounts -> Int]
  BY <1>0, <1>1, <1>4, PostType
<1>16. history'.to = loan'.status
  BY <1>0, <1>1, <1>14, RecordType
<1>17. TypeOK'
  BY <1>0, <1>1, <1>7, <1>10, <1>12, <1>13, <1>14, <1>15, <1>16, Zenon DEF TypeOK
<1>18. NeverOverpaid'
  BY <1>0, <1>10, <1>11, Zenon DEF NeverOverpaid
<1>19. AllocationsNonNegative'
  BY <1>0, <1>5, <1>6, <1>7, Zenon DEF AllocationsNonNegative, NonNegative
<1> QED
  BY <1>17, <1>18, <1>19 DEF AccountInv

LEMMA AbandonQuotePreserves ==
  ASSUME AccountInv, AbandonQuote
  PROVE  AccountInv'
<1>1. TypeOK /\ UNCHANGED <<loan, installments, penalties, collections, ledger, quotes,
                            history, day>>
  BY DEF AccountInv, AbandonQuote
<1>2. TypeOK'
  BY <1>1, ReadsEndedType, Zenon DEF TypeOK, AbandonQuote
<1> QED
  BY <1>1, <1>2, RowsUnchanged DEF AccountInv

LEMMA ReadForClosePreserves ==
  ASSUME AccountInv, ReadForClose
  PROVE  AccountInv'
<1>1. TypeOK /\ UNCHANGED <<loan, installments, penalties, collections, ledger, quotes,
                            history, day>>
  BY DEF AccountInv, ReadForClose
<1>2. reads' \in [close : {"none"} \union Live, quote : BOOLEAN, principal : Nat,
                  interest : Nat, at : Nat]
  <2>1. reads \in [close : {"none"} \union Live, quote : BOOLEAN, principal : Nat,
                   interest : Nat, at : Nat]
    BY <1>1, Zenon DEF TypeOK
  <2>2. reads' = [reads EXCEPT !.close = loan.status] /\ loan.status \in Live
    BY DEF ReadForClose
  <2> QED
    BY <2>1, <2>2
<1>3. TypeOK'
  BY <1>1, <1>2, Zenon DEF TypeOK
<1> QED
  BY <1>1, <1>3, RowsUnchanged DEF AccountInv

LEMMA CloseLoanPreserves ==
  ASSUME AccountInv, CloseLoan
  PROVE  AccountInv'
<1>1. /\ TypeOK
      /\ UNCHANGED <<installments, penalties, collections, ledger, quotes, day>>
      /\ history' = [from |-> reads.close, to |-> "closed"]
      /\ loan' = [loan EXCEPT !.status = "closed"]
      /\ reads' = [reads EXCEPT !.close = "none"]
  BY DEF AccountInv, CloseLoan
<1>2. /\ loan' \in [status : {"approved"} \union Live \union Terminal, cached : Nat, dpd : Nat]
      /\ loan'.status = "closed"
  <2>1. loan \in [status : {"approved"} \union Live \union Terminal, cached : Nat, dpd : Nat]
    BY <1>1, Zenon DEF TypeOK
  <2> QED
    BY <1>1, <2>1 DEF Terminal
<1>3. history'.to = loan'.status
  BY <1>1, <1>2
<1>4. TypeOK'
  BY <1>1, <1>2, <1>3, ReadsEndedType, Zenon DEF TypeOK
<1> QED
  BY <1>1, <1>4, RowsUnchanged DEF AccountInv

LEMMA RefuseClosePreserves ==
  ASSUME AccountInv, RefuseClose
  PROVE  AccountInv'
<1>1. TypeOK /\ UNCHANGED <<loan, installments, penalties, collections, ledger, quotes,
                            history, day>>
  BY DEF AccountInv, RefuseClose
<1>2. TypeOK'
  BY <1>1, ReadsEndedType, Zenon DEF TypeOK, RefuseClose
<1> QED
  BY <1>1, <1>2, RowsUnchanged DEF AccountInv

LEMMA TickPreserves ==
  ASSUME AccountInv, Tick
  PROVE  AccountInv'
<1>1. TypeOK /\ UNCHANGED <<loan, installments, penalties, collections, ledger, quotes,
                            history, reads>>
  BY DEF AccountInv, Tick
<1>2. day' \in 0..MaxDay
  <2>1. day \in 0..MaxDay /\ day < MaxDay /\ day' = day + 1
    BY <1>1, Zenon DEF TypeOK, Tick
  <2> QED
    BY <2>1, BoundAssumption
<1>3. TypeOK'
  BY <1>1, <1>2, Zenon DEF TypeOK
<1> QED
  BY <1>1, <1>3, RowsUnchanged DEF AccountInv

-----------------------------------------------------------------------------
LEMMA InitEstablishes ==
  Init => AccountInv
<1> SUFFICES ASSUME Init PROVE AccountInv
  OBVIOUS
<1>1. penalties = <<>> /\ collections = <<>> /\ quotes = <<>> /\ day = 0 /\ reads = NoReads
  BY DEF Init
<1>2. \A T : <<>> \in Seq(T) /\ DOMAIN <<>> = {}
  OBVIOUS
<1>3. /\ loan \in [status : {"approved"} \union Live \union Terminal, cached : Nat, dpd : Nat]
      /\ history.to = loan.status
  BY DEF Init
<1>4. /\ installments \in [Installments -> InstallmentRows]
      /\ \A i \in Installments :
           installments[i].principalPaid = 0 /\ installments[i].interestPaid = 0
  BY DEF Init, InstallmentRows
<1>5. ledger \in [Accounts -> Int]
  BY DEF Init
<1>6. reads \in [close : {"none"} \union Live, quote : BOOLEAN, principal : Nat,
                 interest : Nat, at : Nat]
  BY <1>1 DEF NoReads
<1>7. day \in 0..MaxDay
  BY <1>1, BoundAssumption
<1>8. TypeOK
  BY <1>1, <1>2, <1>3, <1>4, <1>5, <1>6, <1>7, Zenon DEF TypeOK
<1>9. NeverOverpaid
  <2>1. \A i \in Installments : 0 \in 0..Principal[i] /\ 0 \in 0..Interest[i]
    BY ScheduleAssumption
  <2> QED
    BY <1>1, <1>2, <1>4, <2>1, Zenon DEF NeverOverpaid
<1>10. AllocationsNonNegative
  BY <1>1, <1>2, Zenon DEF AllocationsNonNegative
<1> QED
  BY <1>8, <1>9, <1>10 DEF AccountInv

LEMMA StepPreserves ==
  AccountInv /\ [Next]_vars => AccountInv'
<1> SUFFICES ASSUME AccountInv, [Next]_vars PROVE AccountInv'
  OBVIOUS
<1>1. CASE UNCHANGED vars
  BY <1>1, StutterPreserves
<1>2. CASE Disburse
  BY <1>2, DisbursePreserves
<1>3. CASE \E amount \in Amounts : PostCollection(amount)
  BY <1>3, PostCollectionPreserves
<1>4. CASE \E c \in DOMAIN collections : ReverseCollection(c)
  BY <1>4, ReverseCollectionPreserves
<1>5. CASE \E i \in Installments, period \in 1..Periods, reference \in 0..MaxDay :
             PostPenalty(i, period, reference)
  BY <1>5, PostPenaltyPreserves
<1>6. CASE \E k \in DOMAIN penalties : WaivePenalty(k)
  BY <1>6, WaivePenaltyPreserves
<1>7. CASE ReadForQuote
  BY <1>7, ReadForQuotePreserves
<1>8. CASE \E rebate \in Rebates : CreateQuote(rebate)
  BY <1>8, CreateQuotePreserves
<1>9. CASE AbandonQuote
  BY <1>9, AbandonQuotePreserves
<1>10. CASE \E n \in DOMAIN quotes : ExecuteForeclosure(n)
  BY <1>10, ExecuteForeclosurePreserves
<1>11. CASE ReadForClose
  BY <1>11, ReadForClosePreserves
<1>12. CASE CloseLoan
  BY <1>12, CloseLoanPreserves
<1>13. CASE RefuseClose
  BY <1>13, RefuseClosePreserves
<1>14. CASE Tick
  BY <1>14, TickPreserves
<1> QED
  BY <1>1, <1>2, <1>3, <1>4, <1>5, <1>6, <1>7, <1>8, <1>9, <1>10, <1>11, <1>12, <1>13,
     <1>14, Zenon DEF Next

(* The invariant, for every schedule, product, calendar and bound. *)
THEOREM AccountInvariant ==
  Spec => []AccountInv
<1>1. Init => AccountInv
  BY InitEstablishes
<1>2. AccountInv /\ [Next]_vars => AccountInv'
  BY StepPreserves
<1> QED
  BY <1>1, <1>2, PTL DEF Spec

(* Every reachable state of a loan account has the types of the schema. *)
THEOREM TypeCorrect ==
  Spec => []TypeOK
<1>1. AccountInv => TypeOK
  BY DEF AccountInv
<1> QED
  BY <1>1, AccountInvariant, PTL

(* No sequence of payments, reversals, penalties, waivers and settlements    *)
(* leaves an installment or a penalty paid below zero or beyond its due.     *)
THEOREM NeverOverpaidAlways ==
  Spec => []NeverOverpaid
<1>1. AccountInv => NeverOverpaid
  BY DEF AccountInv
<1> QED
  BY <1>1, AccountInvariant, PTL

-----------------------------------------------------------------------------
(***************************************************************************)
(* One settlement.  SettledOnce is not inductive: what refuses the second  *)
(* of two open quotes is the status of the loan, so the invariant has to   *)
(* say that a loan which may still be foreclosed has no settlement.        *)
(***************************************************************************)
SettlementRows == {c \in DOMAIN collections : collections[c].kind = "settlement"}
SettledQuotes == {n \in DOMAIN quotes : quotes[n].status = "settled"}

SettledInv ==
  /\ \A c, d \in SettlementRows : c = d
  /\ SettlementRows # {} <=> SettledQuotes # {}
  /\ loan.status = "foreclosed" => SettledQuotes # {}
  /\ loan.status \notin Terminal => SettlementRows = {}

LEMMA SettledInvImplies ==
  ASSUME SettledInv
  PROVE  SettledOnce
BY DEF SettledInv, SettledOnce, SettlementRows, SettledQuotes

(* A step that settles nothing. *)
LEMMA NothingSettled ==
  ASSUME SettledInv, SettlementRows' = SettlementRows, SettledQuotes' = SettledQuotes,
         loan'.status = "foreclosed" => loan.status = "foreclosed",
         loan'.status \notin Terminal => loan.status \notin Terminal
  PROVE  SettledInv'
BY DEF SettledInv

(* Appending a row, and what it does to the rows before it. *)
LEMMA Appended ==
  ASSUME NEW T, NEW s \in Seq(T), NEW row
  PROVE  /\ Len(s) \in Nat /\ DOMAIN s = 1..Len(s)
         /\ Len(s) + 1 \notin DOMAIN s
         /\ DOMAIN Append(s, row) = DOMAIN s \union {Len(s) + 1}
         /\ Append(s, row)[Len(s) + 1] = row
         /\ \A k \in DOMAIN s : Append(s, row)[k] = s[k]
OBVIOUS

LEMMA TablesAreSequences ==
  ASSUME AccountInv
  PROVE  /\ collections \in Seq(CollectionRows) /\ quotes \in Seq(QuoteRows)
         /\ loan.status \in {"approved"} \union Live \union Terminal
         /\ penalties \in Seq(PenaltyRows)
<1>1. /\ collections \in Seq(CollectionRows) /\ quotes \in Seq(QuoteRows)
      /\ penalties \in Seq(PenaltyRows)
      /\ loan \in [status : {"approved"} \union Live \union Terminal, cached : Nat, dpd : Nat]
  BY Zenon DEF AccountInv, TypeOK
<1> QED
  BY <1>1

(* Marking a collection as reversed changes its status and its receipt only. *)
LEMMA MarkedRows ==
  ASSUME AccountInv, NEW c \in DOMAIN collections
  PROVE  LET marked == [collections EXCEPT ![c].status = "reversed", ![c].receipt = "reversed"]
         IN  /\ marked \in Seq(CollectionRows)
             /\ Len(marked) = Len(collections) /\ DOMAIN marked = DOMAIN collections
             /\ \A d \in DOMAIN collections : d # c => marked[d] = collections[d]
             /\ marked[c].status = "reversed" /\ marked[c].receipt = "reversed"
             /\ \A d \in DOMAIN collections :
                  /\ marked[d].kind = collections[d].kind
                  /\ marked[d].original = collections[d].original
                  /\ marked[d].amount = collections[d].amount
                  /\ marked[d].alloc = collections[d].alloc
                  /\ marked[d].entry = collections[d].entry
<1> DEFINE marked == [collections EXCEPT ![c].status = "reversed", ![c].receipt = "reversed"]
<1>1. collections \in Seq(CollectionRows) /\ collections[c] \in CollectionRows
  BY TablesAreSequences
<1>2. marked = [collections EXCEPT ![c] = [collections[c] EXCEPT !.status = "reversed",
                                                                !.receipt = "reversed"]]
  BY <1>1
<1>3. [collections[c] EXCEPT !.status = "reversed", !.receipt = "reversed"] \in CollectionRows
  BY <1>1 DEF CollectionRows
<1>4. /\ marked \in Seq(CollectionRows) /\ Len(marked) = Len(collections)
      /\ DOMAIN marked = DOMAIN collections
  BY <1>1, <1>2, <1>3
<1>5. marked[c] = [collections[c] EXCEPT !.status = "reversed", !.receipt = "reversed"]
  BY <1>2
<1>6. \A d \in DOMAIN collections : d # c => marked[d] = collections[d]
  BY <1>2
<1>7. /\ marked[c].status = "reversed" /\ marked[c].receipt = "reversed"
      /\ marked[c].kind = collections[c].kind
      /\ marked[c].original = collections[c].original
      /\ marked[c].amount = collections[c].amount
      /\ marked[c].alloc = collections[c].alloc
      /\ marked[c].entry = collections[c].entry
  BY <1>1, <1>5 DEF CollectionRows
<1> HIDE DEF marked
<1>8. \A d \in DOMAIN collections :
        /\ marked[d].kind = collections[d].kind
        /\ marked[d].original = collections[d].original
        /\ marked[d].amount = collections[d].amount
        /\ marked[d].alloc = collections[d].alloc
        /\ marked[d].entry = collections[d].entry
  BY <1>6, <1>7
<1> QED
  BY <1>4, <1>6, <1>7, <1>8 DEF marked

(* What each handler does to the collections and the quotes. *)
LEMMA QuietSteps ==
  ASSUME AccountInv, SettledInv,
         \/ Disburse
         \/ \E i \in Installments, period \in 1..Periods, reference \in 0..MaxDay :
              PostPenalty(i, period, reference)
         \/ \E k \in DOMAIN penalties : WaivePenalty(k)
         \/ ReadForQuote \/ AbandonQuote \/ ReadForClose \/ CloseLoan \/ RefuseClose \/ Tick
         \/ UNCHANGED vars
  PROVE  SettledInv'
<1>1. UNCHANGED <<collections, quotes>>
  <2>1. CASE Disburse
    BY <2>1 DEF Disburse
  <2>2. CASE \E i \in Installments, period \in 1..Periods, reference \in 0..MaxDay :
               PostPenalty(i, period, reference)
    BY <2>2 DEF PostPenalty
  <2>3. CASE \E k \in DOMAIN penalties : WaivePenalty(k)
    BY <2>3 DEF WaivePenalty
  <2> QED
    BY <2>1, <2>2, <2>3 DEF ReadForQuote, AbandonQuote, ReadForClose, CloseLoan, RefuseClose,
       Tick, vars
<1>2. /\ loan'.status = "foreclosed" => loan.status = "foreclosed"
      /\ loan'.status \notin Terminal => loan.status \notin Terminal
  <2>0. \A dpd : /\ StatusForDpd(dpd) = "foreclosed" => loan.status = "foreclosed"
                 /\ StatusForDpd(dpd) \notin Terminal => loan.status \notin Terminal
    BY DEF StatusForDpd, Terminal
  <2>1. CASE Disburse
    BY <2>1 DEF Disburse, Terminal
  <2>2. CASE \E i \in Installments, period \in 1..Periods, reference \in 0..MaxDay :
               PostPenalty(i, period, reference)
    <3>1. PICK i \in Installments, period \in 1..Periods, reference \in 0..MaxDay :
            PostPenalty(i, period, reference)
      BY <2>2
    <3>2. loan'.status = StatusForDpd(Dpd(installments, reference))
      BY <3>1 DEF PostPenalty
    <3> QED
      BY <3>2, <2>0
  <2>3. CASE \E k \in DOMAIN penalties : WaivePenalty(k)
    <3>1. loan'.status = StatusForDpd(Dpd(installments, day))
      BY <2>3 DEF WaivePenalty
    <3> QED
      BY <3>1, <2>0
  <2>4. CASE CloseLoan
    <3>1. loan \in [status : {"approved"} \union Live \union Terminal, cached : Nat, dpd : Nat]
      BY Zenon DEF AccountInv, TypeOK
    <3>2. loan'.status = "closed"
      BY <2>4, <3>1 DEF CloseLoan
    <3> QED
      BY <3>2 DEF Terminal
  <2> QED
    BY <2>1, <2>2, <2>3, <2>4 DEF ReadForQuote, AbandonQuote, ReadForClose, RefuseClose, Tick,
       vars
<1> QED
  BY <1>1, <1>2, NothingSettled DEF SettlementRows, SettledQuotes

LEMMA QuoteSettlesNothing ==
  ASSUME AccountInv, SettledInv, NEW rebate \in Rebates, CreateQuote(rebate)
  PROVE  SettledInv'
<1>1. PICK row : quotes' = Append(quotes, row) /\ row.status = "quote"
  BY DEF CreateQuote
<1>2. UNCHANGED <<loan, collections>>
  BY DEF CreateQuote
<1>3. SettledQuotes' = SettledQuotes
  BY <1>1, Appended, TablesAreSequences DEF SettledQuotes
<1> QED
  BY <1>2, <1>3, NothingSettled DEF SettlementRows

LEMMA PaymentSettlesNothing ==
  ASSUME AccountInv, SettledInv, NEW amount \in Amounts, PostCollection(amount)
  PROVE  SettledInv'
<1>1. PICK row : collections' = Append(collections, row) /\ row.kind = "payment"
  BY DEF PostCollection
<1>2. /\ UNCHANGED quotes
      /\ loan.status \in Live /\ loan'.status \in {"closed", "overdue", "active"}
  BY DEF PostCollection, StatusAfterCollection
<1>3. SettlementRows' = SettlementRows
  BY <1>1, Appended, TablesAreSequences DEF SettlementRows
<1> QED
  BY <1>2, <1>3, NothingSettled DEF SettledQuotes, Live, Terminal

LEMMA ReversalSettlesNothing ==
  ASSUME AccountInv, SettledInv, NEW c \in DOMAIN collections, ReverseCollection(c)
  PROVE  SettledInv'
<1> DEFINE marked == [collections EXCEPT ![c].status = "reversed", ![c].receipt = "reversed"]
<1>1. PICK row : collections' = Append(marked, row) /\ row.kind = "reversal"
  BY DEF ReverseCollection
<1>2. /\ UNCHANGED quotes
      /\ loan'.status = loan.status
  <2>1. loan \in [status : {"approved"} \union Live \union Terminal, cached : Nat, dpd : Nat]
    BY Zenon DEF AccountInv, TypeOK
  <2> QED
    BY <2>1 DEF ReverseCollection
<1>3. marked \in Seq(CollectionRows) /\ DOMAIN marked = DOMAIN collections
      /\ \A d \in DOMAIN collections : marked[d].kind = collections[d].kind
  BY MarkedRows
<1> HIDE DEF marked
<1>4. SettlementRows' = SettlementRows
  BY <1>1, <1>3, Appended DEF SettlementRows
<1> QED
  BY <1>2, <1>4, NothingSettled DEF SettledQuotes

LEMMA ForeclosureSettlesOne ==
  ASSUME AccountInv, SettledInv, NEW n \in DOMAIN quotes, ExecuteForeclosure(n)
  PROVE  SettledInv'
<1>1. PICK row : collections' = Append(collections, row) /\ row.kind = "settlement"
  BY DEF ExecuteForeclosure
<1>2. /\ loan.status \in Live /\ loan'.status = "foreclosed"
      /\ quotes' = [quotes EXCEPT ![n].status = "settled"]
  BY DEF ExecuteForeclosure, Foreclosable
<1>3. SettlementRows = {}
  BY <1>2 DEF SettledInv, Live, Terminal
<1>4. SettlementRows' = {Len(collections) + 1}
  BY <1>1, <1>3, Appended, TablesAreSequences DEF SettlementRows
<1>5. n \in SettledQuotes'
  <2>1. quotes \in Seq(QuoteRows) /\ quotes[n] \in QuoteRows
    BY TablesAreSequences
  <2>2. quotes'[n] = [quotes[n] EXCEPT !.status = "settled"] /\ n \in DOMAIN quotes'
    BY <1>2, <2>1
  <2>3. quotes'[n].status = "settled"
    BY <2>1, <2>2 DEF QuoteRows
  <2> QED
    BY <2>2, <2>3 DEF SettledQuotes
<1> QED
  BY <1>2, <1>4, <1>5 DEF SettledInv, Terminal

LEMMA SettledStep ==
  AccountInv /\ SettledInv /\ [Next]_vars => SettledInv'
<1> SUFFICES ASSUME AccountInv, SettledInv, [Next]_vars PROVE SettledInv'
  OBVIOUS
<1>1. CASE \E amount \in Amounts : PostCollection(amount)
  BY <1>1, PaymentSettlesNothing
<1>2. CASE \E c \in DOMAIN collections : ReverseCollection(c)
  BY <1>2, ReversalSettlesNothing
<1>3. CASE \E rebate \in Rebates : CreateQuote(rebate)
  BY <1>3, QuoteSettlesNothing
<1>4. CASE \E n \in DOMAIN quotes : ExecuteForeclosure(n)
  BY <1>4, ForeclosureSettlesOne
<1> QED
  BY <1>1, <1>2, <1>3, <1>4, QuietSteps, Zenon DEF Next

(* However many quotes are open, a loan is settled by at most one of them,   *)
(* for every schedule, product and calendar.                                 *)
THEOREM SettledOnceAlways ==
  Spec => []SettledOnce
<1>1. Init => SettledInv
  BY DEF Init, SettledInv, SettlementRows, SettledQuotes
<1>2. AccountInv /\ SettledInv /\ [Next]_vars => SettledInv'
  BY SettledStep
<1>3. SettledInv => SettledOnce
  BY SettledInvImplies
<1> QED
  BY <1>1, <1>2, <1>3, AccountInvariant, PTL DEF Spec

-----------------------------------------------------------------------------
(***************************************************************************)
(* Reversals pair up.  The invariant adds that a compensating row names a  *)
(* row before it: otherwise a row appended later could find itself         *)
(* reversed already.                                                       *)
(***************************************************************************)
ReversalsOf(c) ==
  {r \in DOMAIN collections : collections[r].kind = "reversal" /\ collections[r].original = c}

Compensates(r, c) ==
  /\ collections[c].kind # "reversal"
  /\ collections[r].amount + collections[c].amount = 0
  /\ \A a \in Accounts : collections[r].entry[a] + collections[c].entry[a] = 0
  /\ collections[r].alloc = Negated(collections[c].alloc)

PairedRow(c) ==
  IF collections[c].status = "reversed"
  THEN collections[c].receipt = "reversed"
         /\ \E r \in DOMAIN collections : ReversalsOf(c) = {r} /\ Compensates(r, c)
  ELSE collections[c].receipt = "issued" /\ ReversalsOf(c) = {}

PairsInv ==
  /\ \A c \in DOMAIN collections : PairedRow(c)
  /\ \A r \in DOMAIN collections :
       collections[r].kind = "reversal" => collections[r].original \in DOMAIN collections

LEMMA PairsInvImplies ==
  ASSUME PairsInv
  PROVE  ReversalsPairUp
BY DEF PairsInv, PairedRow, ReversalsPairUp, ReversalsOf, Compensates

(* A payment or a settlement appends a row that nothing compensates. *)
LEMMA PostedRowPairs ==
  ASSUME AccountInv, PairsInv, NEW row, collections' = Append(collections, row),
         row.kind # "reversal", row.status = "posted", row.receipt = "issued"
  PROVE  PairsInv'
<1> DEFINE new == Len(collections) + 1
<1>1. /\ DOMAIN collections' = DOMAIN collections \union {new} /\ new \notin DOMAIN collections
      /\ collections'[new] = row
      /\ \A c \in DOMAIN collections : collections'[c] = collections[c]
  BY Appended, TablesAreSequences
<1> HIDE DEF new
<1>2. \A c : ReversalsOf(c)' = ReversalsOf(c)
  BY <1>1 DEF ReversalsOf
<1>3. ReversalsOf(new) = {}
  BY <1>1 DEF PairsInv, ReversalsOf
<1>4. \A c, r \in DOMAIN collections : Compensates(r, c) => Compensates(r, c)'
  BY <1>1 DEF Compensates, Negated, Installments
<1>5. ASSUME NEW c \in DOMAIN collections'
      PROVE  PairedRow(c)'
  <2>1. CASE c = new
    BY <2>1, <1>1, <1>2, <1>3 DEF PairedRow
  <2>2. CASE c \in DOMAIN collections
    <3>1. PairedRow(c) /\ collections'[c] = collections[c] /\ ReversalsOf(c)' = ReversalsOf(c)
      BY <2>2, <1>1, <1>2 DEF PairsInv
    <3> QED
      BY <3>1, <2>2, <1>1, <1>4 DEF PairedRow
  <2> QED
    BY <1>1, <2>1, <2>2
<1> QED
  BY <1>1, <1>5 DEF PairsInv

LEMMA ReversalPairs ==
  ASSUME AccountInv, PairsInv, NEW c \in DOMAIN collections, ReverseCollection(c)
  PROVE  PairsInv'
<1> DEFINE marked == [collections EXCEPT ![c].status = "reversed", ![c].receipt = "reversed"]
           row == [kind |-> "reversal", amount |-> - collections[c].amount, status |-> "posted",
                   original |-> c, alloc |-> Negated(collections[c].alloc),
                   entry |-> [a \in Accounts |-> - collections[c].entry[a]],
                   receipt |-> "issued"]
<1>1. /\ collections' = Append(marked, row)
      /\ collections[c].kind # "reversal" /\ collections[c].status = "posted"
  BY DEF ReverseCollection, Reversible
<1>2. collections \in Seq(CollectionRows) /\ collections[c] \in CollectionRows
  BY TablesAreSequences
<1>3. /\ - collections[c].amount + collections[c].amount = 0
      /\ \A a \in Accounts : - collections[c].entry[a] + collections[c].entry[a] = 0
  <2>1. collections[c].amount \in Int /\ collections[c].entry \in [Accounts -> Int]
    BY <1>2 DEF CollectionRows
  <2> QED
    BY <2>1
<1>4. /\ marked \in Seq(CollectionRows) /\ Len(marked) = Len(collections)
      /\ DOMAIN marked = DOMAIN collections
      /\ \A d \in DOMAIN collections : d # c => marked[d] = collections[d]
      /\ marked[c].status = "reversed" /\ marked[c].receipt = "reversed"
      /\ \A d \in DOMAIN collections :
           /\ marked[d].kind = collections[d].kind
           /\ marked[d].original = collections[d].original
           /\ marked[d].amount = collections[d].amount
           /\ marked[d].alloc = collections[d].alloc
           /\ marked[d].entry = collections[d].entry
  BY MarkedRows
<1>5. /\ row.kind = "reversal" /\ row.original = c /\ row.status = "posted"
      /\ row.receipt = "issued" /\ row.amount = - collections[c].amount
      /\ row.alloc = Negated(collections[c].alloc)
      /\ \A a \in Accounts : row.entry[a] = - collections[c].entry[a]
  OBVIOUS
<1> HIDE DEF marked, row
<1> PICK new : new = Len(collections) + 1
  OBVIOUS
<1>6. /\ DOMAIN collections' = DOMAIN collections \union {new} /\ new \notin DOMAIN collections
      /\ collections'[new] = row
      /\ \A d \in DOMAIN collections : collections'[d] = marked[d]
  BY <1>1, <1>4, Appended
<1>7. ReversalsOf(c)' = {new}
  <2>1. ReversalsOf(c) = {}
    BY <1>1 DEF PairsInv, PairedRow
  <2> QED
    BY <2>1, <1>4, <1>5, <1>6 DEF ReversalsOf
<1>8. \A d : d # c => ReversalsOf(d)' = ReversalsOf(d)
  BY <1>4, <1>5, <1>6 DEF ReversalsOf
<1>0. \A d : (Negated(collections[d].alloc))' = Negated(collections'[d].alloc)
  BY DEF Negated, Installments
<1>9. Compensates(new, c)'
  <2>1. /\ collections'[c] = marked[c] /\ collections'[new] = row
        /\ marked[c].kind = collections[c].kind /\ marked[c].amount = collections[c].amount
        /\ marked[c].alloc = collections[c].alloc /\ marked[c].entry = collections[c].entry
    BY <1>4, <1>6
  <2>2. collections'[new].alloc = Negated(collections'[c].alloc)
    BY <2>1, <1>5
  <2>3. \A a \in Accounts : collections'[new].entry[a] + collections'[c].entry[a] = 0
    BY <2>1, <1>3, <1>5
  <2>4. collections'[new].amount + collections'[c].amount = 0
    BY <2>1, <1>3, <1>5
  <2> QED
    BY <2>1, <2>2, <2>3, <2>4, <1>0, <1>1 DEF Compensates
<1>10. \A d, r \in DOMAIN collections : Compensates(r, d) => Compensates(r, d)'
  <2> SUFFICES ASSUME NEW d \in DOMAIN collections, NEW r \in DOMAIN collections,
                      Compensates(r, d)
               PROVE  Compensates(r, d)'
    OBVIOUS
  <2>1. \A x \in {d, r} : /\ collections'[x].kind = collections[x].kind
                          /\ collections'[x].amount = collections[x].amount
                          /\ collections'[x].alloc = collections[x].alloc
                          /\ collections'[x].entry = collections[x].entry
    BY <1>4, <1>6
  <2> QED
    BY <2>1, <1>0 DEF Compensates
<1>11. ASSUME NEW d \in DOMAIN collections'
       PROVE  PairedRow(d)'
  <2>1. CASE d = c
    BY <2>1, <1>4, <1>6, <1>7, <1>9 DEF PairedRow
  <2>2. CASE d = new
    <3>1. \A r \in DOMAIN collections' :
            collections'[r].kind = "reversal" => collections'[r].original # new
      BY <1>4, <1>5, <1>6 DEF PairsInv
    <3>2. (ReversalsOf(new))' = {}
      BY <3>1 DEF ReversalsOf
    <3> QED
      BY <2>2, <3>2, <1>5, <1>6 DEF PairedRow
  <2>3. CASE d \in DOMAIN collections /\ d # c
    <3>1. PairedRow(d) /\ collections'[d] = collections[d] /\ ReversalsOf(d)' = ReversalsOf(d)
      BY <2>3, <1>4, <1>6, <1>8 DEF PairsInv
    <3> QED
      BY <3>1, <2>3, <1>6, <1>10 DEF PairedRow
  <2> QED
    BY <1>6, <2>1, <2>2, <2>3
<1>12. \A r \in DOMAIN collections' :
         collections'[r].kind = "reversal" => collections'[r].original \in DOMAIN collections'
  BY <1>4, <1>5, <1>6 DEF PairsInv
<1> QED
  BY <1>11, <1>12 DEF PairsInv

LEMMA PairsStep ==
  AccountInv /\ PairsInv /\ [Next]_vars => PairsInv'
<1> SUFFICES ASSUME AccountInv, PairsInv, [Next]_vars PROVE PairsInv'
  OBVIOUS
<1>1. CASE \E amount \in Amounts : PostCollection(amount)
  <2>1. PICK row : /\ collections' = Append(collections, row)
                   /\ row.kind = "payment" /\ row.status = "posted" /\ row.receipt = "issued"
    BY <1>1 DEF PostCollection
  <2> QED
    BY <2>1, PostedRowPairs
<1>2. CASE \E c \in DOMAIN collections : ReverseCollection(c)
  BY <1>2, ReversalPairs
<1>3. CASE \E n \in DOMAIN quotes : ExecuteForeclosure(n)
  <2>1. PICK row : /\ collections' = Append(collections, row)
                   /\ row.kind = "settlement" /\ row.status = "posted" /\ row.receipt = "issued"
    BY <1>3 DEF ExecuteForeclosure
  <2> QED
    BY <2>1, PostedRowPairs
<1>4. CASE collections' = collections
  <2>1. \A d : (Negated(collections[d].alloc))' = Negated(collections'[d].alloc)
    BY DEF Negated, Installments
  <2>2. \A d : ReversalsOf(d)' = ReversalsOf(d)
    BY <1>4 DEF ReversalsOf
  <2>3. \A d, r : Compensates(r, d) => Compensates(r, d)'
    BY <1>4, <2>1 DEF Compensates
  <2>4. \A d : PairedRow(d) => PairedRow(d)'
    BY <1>4, <2>2, <2>3 DEF PairedRow
  <2> QED
    BY <1>4, <2>4 DEF PairsInv
<1>5. ASSUME \/ Disburse
             \/ \E i \in Installments, period \in 1..Periods, reference \in 0..MaxDay :
                  PostPenalty(i, period, reference)
             \/ \E k \in DOMAIN penalties : WaivePenalty(k)
             \/ \E rebate \in Rebates : CreateQuote(rebate)
             \/ ReadForQuote \/ AbandonQuote \/ ReadForClose \/ CloseLoan \/ RefuseClose
             \/ Tick \/ UNCHANGED vars
      PROVE  collections' = collections
  BY <1>5 DEF Disburse, PostPenalty, WaivePenalty, CreateQuote, ReadForQuote, AbandonQuote,
     ReadForClose, CloseLoan, RefuseClose, Tick, vars
<1> QED
  BY <1>1, <1>2, <1>3, <1>4, <1>5, Zenon DEF Next

(* Each reversed collection has one compensating row that cancels it, and no *)
(* other row has one, for any number of payments and reversals.              *)
THEOREM ReversalsPairUpAlways ==
  Spec => []ReversalsPairUp
<1>1. Init => PairsInv
  BY DEF Init, PairsInv
<1>2. AccountInv /\ PairsInv /\ [Next]_vars => PairsInv'
  BY PairsStep
<1>3. PairsInv => ReversalsPairUp
  BY PairsInvImplies
<1> QED
  BY <1>1, <1>2, <1>3, AccountInvariant, PTL DEF Spec

-----------------------------------------------------------------------------
(***************************************************************************)
(* The flags of a penalty.  With the bounds of AccountInv this is          *)
(* inductive: a payment reaches only penalties that are pending, and a     *)
(* reversal leaves something to pay on every penalty it reopens.           *)
(***************************************************************************)
FlagsOf(p) ==
  /\ ~ (p.isPaid /\ p.isWaived)
  /\ ~ p.isPaid => p.paid < p.amount
  /\ (p.isPaid /\ p.paid < p.amount) => SettlementRows # {}

FlagsInv == \A k \in DOMAIN penalties : FlagsOf(penalties[k])

LEMMA FlagsInvImplies ==
  ASSUME FlagsInv
  PROVE  PaidFlagsFollowPayments
BY DEF FlagsInv, FlagsOf, PaidFlagsFollowPayments, SettlementRows

LEMMA PenaltyFields ==
  ASSUME AccountInv, NEW k \in DOMAIN penalties
  PROVE  /\ penalties[k] \in PenaltyRows
         /\ penalties[k].amount \in Nat
         /\ penalties[k].paid \in 0..penalties[k].amount
         /\ penalties[k].isPaid \in BOOLEAN /\ penalties[k].isWaived \in BOOLEAN
<1>1. penalties[k] \in PenaltyRows /\ penalties[k].amount \in Nat
  BY RowTypes DEF AccountInv
<1>2. penalties[k].paid \in 0..penalties[k].amount
  BY DEF AccountInv, NeverOverpaid
<1> QED
  BY <1>1, <1>2 DEF PenaltyRows

(* Rows that a step leaves as they are keep their flags, as long as no     *)
(* settlement row disappears.                                              *)
LEMMA FlagsKept ==
  ASSUME NEW p, FlagsOf(p), SettlementRows # {} => SettlementRows' # {}
  PROVE  (p.isPaid /\ p.paid < p.amount => SettlementRows' # {})
         /\ ~ (p.isPaid /\ p.isWaived) /\ (~ p.isPaid => p.paid < p.amount)
BY DEF FlagsOf

LEMMA PaymentKeepsFlags ==
  ASSUME AccountInv, FlagsInv, NEW amount \in Amounts, PostCollection(amount),
         SettlementRows # {} => SettlementRows' # {}
  PROVE  FlagsInv'
<1> DEFINE alloc == Allocate(amount)
<1>1. /\ penalties' = PenaltiesAfter(alloc)
      /\ DOMAIN penalties = 1..Len(penalties) /\ amount \in Nat
  BY RowTypes, BoundAssumption DEF PostCollection, AccountInv
<1>2. \A k \in DOMAIN penalties :
        /\ alloc.penalty[k] \in Nat
        /\ (IsPending(penalties[k]) \/ alloc.penalty[k] = 0)
  BY <1>1, AllocateBounds DEF AccountInv
<1> HIDE DEF alloc
<1>3. /\ DOMAIN penalties' = DOMAIN penalties
      /\ \A k \in DOMAIN penalties :
           penalties'[k] = IF alloc.penalty[k] > 0
                           THEN [penalties[k] EXCEPT
                                   !.paid = @ + alloc.penalty[k],
                                   !.isPaid = penalties[k].paid + alloc.penalty[k]
                                                >= penalties[k].amount]
                           ELSE penalties[k]
  BY <1>1 DEF PenaltiesAfter
<1>4. ASSUME NEW k \in DOMAIN penalties
      PROVE  FlagsOf(penalties[k])'
  <2>1. FlagsOf(penalties[k])
    BY DEF FlagsInv
  <2>2. CASE alloc.penalty[k] > 0
    <3> DEFINE total == penalties[k].paid + alloc.penalty[k]
               full == total >= penalties[k].amount
    <3>1. penalties'[k] = [penalties[k] EXCEPT !.paid = total, !.isPaid = full]
      BY <1>3, <2>2
    <3>2. total \in Int /\ penalties[k].amount \in Int
          /\ (full => ~ (total < penalties[k].amount))
          /\ (~ full => total < penalties[k].amount)
          /\ full \in BOOLEAN
          /\ ~ penalties[k].isWaived
      BY <1>2, <2>2, PenaltyFields DEF IsPending
    <3> HIDE DEF total, full
    <3>3. /\ penalties'[k].paid = total /\ penalties'[k].isPaid = full
          /\ penalties'[k].amount = penalties[k].amount
          /\ penalties'[k].isWaived = penalties[k].isWaived
      BY <3>1, PenaltyFields DEF PenaltyRows
    <3>4. CASE full
      <4>1. penalties'[k].isPaid /\ ~ (total < penalties[k].amount)
        BY <3>2, <3>3, <3>4, Zenon
      <4> QED
        BY <4>1, <3>2, <3>3 DEF FlagsOf
    <3>5. CASE ~ full
      <4>1. ~ penalties'[k].isPaid /\ total < penalties[k].amount
        BY <3>2, <3>3, <3>5, Zenon
      <4> QED
        BY <4>1, <3>3 DEF FlagsOf
    <3> QED
      BY <3>4, <3>5
  <2>3. CASE ~ (alloc.penalty[k] > 0)
    BY <2>1, <2>3, <1>3, FlagsKept DEF FlagsOf
  <2> QED
    BY <2>2, <2>3
<1> QED
  BY <1>3, <1>4 DEF FlagsInv

LEMMA ReversalKeepsFlags ==
  ASSUME AccountInv, FlagsInv, NEW c \in DOMAIN collections, ReverseCollection(c),
         SettlementRows # {} => SettlementRows' # {}
  PROVE  FlagsInv'
<1> DEFINE alloc == collections[c].alloc
           x(k) == PenaltyAllocated(alloc, k)
<1>1. penalties' = PenaltiesRestored(alloc)
  BY DEF ReverseCollection
<1>2. \A k : x(k) \in Nat
  <2>1. /\ alloc.penalty \in Seq(Int)
        /\ \A k \in DOMAIN alloc.penalty : alloc.penalty[k] \in Nat
    BY CollectionTypes DEF AccountInv, AllocationsNonNegative, NonNegative, ReverseCollection,
       Reversible
  <2> QED
    BY <2>1 DEF PenaltyAllocated
<1>3. /\ DOMAIN penalties' = DOMAIN penalties
      /\ \A k \in DOMAIN penalties :
           penalties'[k] = IF x(k) > 0
                           THEN [penalties[k] EXCEPT !.paid = @ - x(k), !.isPaid = FALSE]
                           ELSE penalties[k]
  BY <1>1 DEF PenaltiesRestored
<1> HIDE DEF alloc, x
<1>4. ASSUME NEW k \in DOMAIN penalties
      PROVE  FlagsOf(penalties[k])'
  <2>1. FlagsOf(penalties[k]) /\ x(k) \in Nat
    BY <1>2 DEF FlagsInv
  <2>2. CASE x(k) > 0
    <3> DEFINE left == penalties[k].paid - x(k)
    <3>1. penalties'[k] = [penalties[k] EXCEPT !.paid = left, !.isPaid = FALSE]
      BY <1>3, <2>2
    <3>2. left < penalties[k].amount
      BY <2>1, <2>2, PenaltyFields
    <3> HIDE DEF left
    <3>3. /\ penalties'[k].paid = left /\ ~ penalties'[k].isPaid
          /\ penalties'[k].amount = penalties[k].amount
      BY <3>1, PenaltyFields DEF PenaltyRows
    <3> QED
      BY <3>2, <3>3 DEF FlagsOf
  <2>3. CASE ~ (x(k) > 0)
    BY <2>1, <2>3, <1>3, FlagsKept DEF FlagsOf
  <2> QED
    BY <2>2, <2>3
<1> QED
  BY <1>3, <1>4 DEF FlagsInv

LEMMA PenaltyKeepsFlags ==
  ASSUME AccountInv, FlagsInv, NEW i \in Installments, NEW period \in 1..Periods,
         NEW reference \in 0..MaxDay, PostPenalty(i, period, reference)
  PROVE  FlagsInv'
<1>1. PICK row : /\ penalties' = Append(penalties, row)
                 /\ ~ row.isPaid /\ row.paid < row.amount
  <2> DEFINE amount == PenaltyAmount((Principal[i] - installments[i].principalPaid)
                                       + (Interest[i] - installments[i].interestPaid))
  <2>1. /\ penalties' = Append(penalties,
             [installment |-> i, period |-> period, amount |-> amount, paid |-> 0,
              isPaid |-> FALSE, isWaived |-> FALSE])
        /\ amount > 0
    BY Zenon DEF PostPenalty
  <2>2. 0 < amount
    BY <2>1
  <2> HIDE DEF amount
  <2> QED
    BY <2>1, <2>2
<1>2. UNCHANGED collections
  BY DEF PostPenalty
<1>3. SettlementRows' = SettlementRows
  BY <1>2 DEF SettlementRows
<1>4. \A k \in DOMAIN penalties' :
        penalties'[k] = row \/ (k \in DOMAIN penalties /\ penalties'[k] = penalties[k])
  BY <1>1, Appended, TablesAreSequences
<1> QED
  BY <1>1, <1>3, <1>4 DEF FlagsInv, FlagsOf

LEMMA WaiverKeepsFlags ==
  ASSUME AccountInv, FlagsInv, NEW k \in DOMAIN penalties, WaivePenalty(k)
  PROVE  FlagsInv'
<1>1. /\ penalties' = [penalties EXCEPT ![k].isWaived = TRUE]
      /\ IsPending(penalties[k]) /\ UNCHANGED collections
  BY DEF WaivePenalty
<1>2. SettlementRows' = SettlementRows
  BY <1>1 DEF SettlementRows
<1>3. /\ DOMAIN penalties' = DOMAIN penalties
      /\ penalties'[k] = [penalties[k] EXCEPT !.isWaived = TRUE]
      /\ \A j \in DOMAIN penalties : j # k => penalties'[j] = penalties[j]
  BY <1>1, TablesAreSequences
<1>4. /\ penalties'[k].isPaid = penalties[k].isPaid /\ penalties'[k].paid = penalties[k].paid
      /\ penalties'[k].amount = penalties[k].amount
  BY <1>3, PenaltyFields DEF PenaltyRows
<1>5. FlagsOf(penalties[k])'
  BY <1>1, <1>2, <1>4 DEF FlagsInv, FlagsOf, IsPending
<1>6. \A j \in DOMAIN penalties : j # k => FlagsOf(penalties[j])'
  BY <1>2, <1>3 DEF FlagsInv, FlagsOf
<1> QED
  BY <1>3, <1>5, <1>6 DEF FlagsInv

LEMMA ForeclosureKeepsFlags ==
  ASSUME AccountInv, FlagsInv, NEW n \in DOMAIN quotes, ExecuteForeclosure(n),
         SettlementRows' # {}
  PROVE  FlagsInv'
<1>1. penalties' = [k \in DOMAIN penalties |->
                      IF IsPending(penalties[k]) THEN [penalties[k] EXCEPT !.isPaid = TRUE]
                      ELSE penalties[k]]
  BY DEF ExecuteForeclosure
<1>2. ASSUME NEW k \in DOMAIN penalties
      PROVE  FlagsOf(penalties[k])'
  <2>1. CASE IsPending(penalties[k])
    <3>1. penalties'[k] = [penalties[k] EXCEPT !.isPaid = TRUE]
      BY <1>1, <2>1
    <3>2. penalties'[k].isPaid = TRUE /\ penalties'[k].isWaived = penalties[k].isWaived
      BY <3>1, PenaltyFields DEF PenaltyRows
    <3> QED
      BY <2>1, <3>2 DEF FlagsOf, IsPending
  <2>2. CASE ~ IsPending(penalties[k])
    BY <1>1, <2>2 DEF FlagsInv, FlagsOf
  <2> QED
    BY <2>1, <2>2
<1> QED
  BY <1>1, <1>2 DEF FlagsInv

LEMMA FlagsStep ==
  AccountInv /\ FlagsInv /\ [Next]_vars => FlagsInv'
<1> SUFFICES ASSUME AccountInv, FlagsInv, [Next]_vars PROVE FlagsInv'
  OBVIOUS
<1>1. CASE \E amount \in Amounts : PostCollection(amount)
  <2>1. PICK amount \in Amounts : PostCollection(amount)
    BY <1>1
  <2>2. PICK row : collections' = Append(collections, row)
    BY <2>1 DEF PostCollection
  <2>3. SettlementRows # {} => SettlementRows' # {}
    BY <2>2, Appended, TablesAreSequences DEF SettlementRows
  <2> QED
    BY <2>1, <2>3, PaymentKeepsFlags
<1>2. CASE \E c \in DOMAIN collections : ReverseCollection(c)
  <2>1. PICK c \in DOMAIN collections : ReverseCollection(c)
    BY <1>2
  <2> DEFINE marked == [collections EXCEPT ![c].status = "reversed", ![c].receipt = "reversed"]
  <2>2. PICK row : collections' = Append(marked, row)
    BY <2>1 DEF ReverseCollection
  <2>3. marked \in Seq(CollectionRows) /\ DOMAIN marked = DOMAIN collections
        /\ \A d \in DOMAIN collections : marked[d].kind = collections[d].kind
    BY MarkedRows
  <2> HIDE DEF marked
  <2>4. SettlementRows # {} => SettlementRows' # {}
    BY <2>2, <2>3, Appended DEF SettlementRows
  <2> QED
    BY <2>1, <2>4, ReversalKeepsFlags
<1>3. CASE \E n \in DOMAIN quotes : ExecuteForeclosure(n)
  <2>1. PICK n \in DOMAIN quotes : ExecuteForeclosure(n)
    BY <1>3
  <2>2. PICK row : collections' = Append(collections, row) /\ row.kind = "settlement"
    BY <2>1 DEF ExecuteForeclosure
  <2>3. SettlementRows' # {}
    BY <2>2, Appended, TablesAreSequences DEF SettlementRows
  <2> QED
    BY <2>1, <2>3, ForeclosureKeepsFlags
<1>4. CASE \E i \in Installments, period \in 1..Periods, reference \in 0..MaxDay :
             PostPenalty(i, period, reference)
  BY <1>4, PenaltyKeepsFlags
<1>5. CASE \E k \in DOMAIN penalties : WaivePenalty(k)
  BY <1>5, WaiverKeepsFlags
<1>6. CASE UNCHANGED <<penalties, collections>>
  BY <1>6 DEF FlagsInv, FlagsOf, SettlementRows
<1>7. ASSUME \/ Disburse \/ \E rebate \in Rebates : CreateQuote(rebate)
             \/ ReadForQuote \/ AbandonQuote \/ ReadForClose \/ CloseLoan \/ RefuseClose
             \/ Tick \/ UNCHANGED vars
      PROVE  UNCHANGED <<penalties, collections>>
  BY <1>7 DEF Disburse, CreateQuote, ReadForQuote, AbandonQuote, ReadForClose, CloseLoan,
     RefuseClose, Tick, vars
<1> QED
  BY <1>1, <1>2, <1>3, <1>4, <1>5, <1>6, <1>7, Zenon DEF Next

(* A penalty is never both paid and waived, an open one still has something *)
(* to pay, and only a foreclosure marks one paid that is not, for every     *)
(* product, penalty period and order of allocation.                         *)
THEOREM PaidFlagsFollowPaymentsAlways ==
  Spec => []PaidFlagsFollowPayments
<1>1. Init => FlagsInv
  BY DEF Init, FlagsInv
<1>2. AccountInv /\ FlagsInv /\ [Next]_vars => FlagsInv'
  BY FlagsStep
<1>3. FlagsInv => PaidFlagsFollowPayments
  BY FlagsInvImplies
<1> QED
  BY <1>1, <1>2, <1>3, AccountInvariant, PTL DEF Spec

-----------------------------------------------------------------------------
(***************************************************************************)
(* The sums over the collections.  A row that stands is a payment or a     *)
(* settlement that was not reversed; what stands on an installment is      *)
(* never negative, which the net of all rows does not show.                *)
(***************************************************************************)
Standing(c) == collections[c].kind # "reversal" /\ collections[c].status = "posted"

StandingFor(component, i) ==
  Total(Len(collections),
        [c \in DOMAIN collections |->
           IF Standing(c) THEN collections[c].alloc[component][i] ELSE 0])

Sides == {"interest", "principal"}

SettledEntry(row, a) ==
  IF row.kind = "settlement" /\ row.status = "posted" THEN row.entry[a] ELSE 0

(* What a row adds to an installment, a penalty and an account is integral. *)
LEMMA AmountTypes ==
  ASSUME NEW row \in CollectionRows
  PROVE  /\ \A s \in Sides, i \in Installments : row.alloc[s][i] \in Int
         /\ \A k : PenaltyAllocated(row.alloc, k) \in Int
         /\ \A a \in Accounts : row.entry[a] \in Int /\ SettledEntry(row, a) \in Int
<1>1. row.alloc \in Allocations /\ row.entry \in [Accounts -> Int]
  BY DEF CollectionRows
<1>2. /\ row.alloc.penalty \in Seq(Int)
      /\ row.alloc.interest \in [Installments -> Int]
      /\ row.alloc.principal \in [Installments -> Int]
  BY <1>1 DEF Allocations
<1>3. \A k : PenaltyAllocated(row.alloc, k) \in Int
  BY <1>2 DEF PenaltyAllocated
<1>4. \A a \in Accounts : row.entry[a] \in Int /\ SettledEntry(row, a) \in Int
  BY <1>1 DEF SettledEntry
<1> QED
  BY <1>2, <1>3, <1>4 DEF Sides

(* A posted row is added to every sum. *)
LEMMA PostedRowAdds ==
  ASSUME AccountInv, NEW row \in CollectionRows, collections' = Append(collections, row),
         row.kind # "reversal", row.status = "posted"
  PROVE  /\ \A s \in Sides, i \in Installments :
              /\ Allocated(s, i)' = Allocated(s, i) + row.alloc[s][i]
              /\ StandingFor(s, i)' = StandingFor(s, i) + row.alloc[s][i]
         /\ \A k : AllocatedToPenalty(k)' = AllocatedToPenalty(k) + PenaltyAllocated(row.alloc, k)
         /\ \A a \in Accounts :
              PostedBySettlement(a)' = PostedBySettlement(a) + SettledEntry(row, a)
<1> DEFINE n == Len(collections)
<1>1. /\ n \in Nat /\ DOMAIN collections = 1..n
      /\ Len(collections') = n + 1 /\ DOMAIN collections' = 1..(n + 1)
      /\ collections'[n + 1] = row
      /\ \A c \in 1..n : collections'[c] = collections[c] /\ collections[c] \in CollectionRows
      /\ \A c \in 1..(n + 1) : collections'[c] \in CollectionRows
  BY TablesAreSequences
<1> HIDE DEF n
<1>2. ASSUME NEW s \in Sides, NEW i \in Installments
      PROVE  Allocated(s, i)' = Allocated(s, i) + row.alloc[s][i]
  <2> DEFINE f == [c \in 1..n |-> collections[c].alloc[s][i]]
             g == [c \in 1..(n + 1) |-> collections'[c].alloc[s][i]]
  <2>1. f \in [1..n -> Int] /\ g \in [1..(n + 1) -> Int]
    BY <1>1, AmountTypes
  <2>2. (\A c \in 1..n : f[c] = g[c]) /\ g[n + 1] = row.alloc[s][i]
    BY <1>1
  <2>3. Allocated(s, i) = Total(n, f) /\ Allocated(s, i)' = Total(n + 1, g)
    BY <1>1 DEF Allocated, n
  <2> HIDE DEF f, g
  <2> QED
    BY <1>1, <2>1, <2>2, <2>3, TotalAppend
<1>3. ASSUME NEW s \in Sides, NEW i \in Installments
      PROVE  StandingFor(s, i)' = StandingFor(s, i) + row.alloc[s][i]
  <2> DEFINE f == [c \in 1..n |-> IF Standing(c) THEN collections[c].alloc[s][i] ELSE 0]
             g == [c \in 1..(n + 1) |-> IF Standing(c)' THEN collections'[c].alloc[s][i] ELSE 0]
  <2>1. f \in [1..n -> Int] /\ g \in [1..(n + 1) -> Int]
    BY <1>1, AmountTypes
  <2>2. (\A c \in 1..n : f[c] = g[c]) /\ g[n + 1] = row.alloc[s][i]
    BY <1>1 DEF Standing
  <2>3. StandingFor(s, i) = Total(n, f) /\ StandingFor(s, i)' = Total(n + 1, g)
    BY <1>1 DEF StandingFor, n
  <2> HIDE DEF f, g
  <2> QED
    BY <1>1, <2>1, <2>2, <2>3, TotalAppend
<1>4. ASSUME NEW k
      PROVE  AllocatedToPenalty(k)' = AllocatedToPenalty(k) + PenaltyAllocated(row.alloc, k)
  <2> DEFINE f == [c \in 1..n |-> PenaltyAllocated(collections[c].alloc, k)]
             g == [c \in 1..(n + 1) |-> PenaltyAllocated(collections'[c].alloc, k)]
  <2>1. f \in [1..n -> Int] /\ g \in [1..(n + 1) -> Int]
    BY <1>1, AmountTypes
  <2>2. (\A c \in 1..n : f[c] = g[c]) /\ g[n + 1] = PenaltyAllocated(row.alloc, k)
    BY <1>1
  <2>3. AllocatedToPenalty(k) = Total(n, f) /\ AllocatedToPenalty(k)' = Total(n + 1, g)
    BY <1>1 DEF AllocatedToPenalty, PenaltyAllocated, n
  <2> HIDE DEF f, g
  <2> QED
    BY <1>1, <2>1, <2>2, <2>3, TotalAppend
<1>5. ASSUME NEW a \in Accounts
      PROVE  PostedBySettlement(a)' = PostedBySettlement(a) + SettledEntry(row, a)
  <2> DEFINE f == [c \in 1..n |-> SettledEntry(collections[c], a)]
             g == [c \in 1..(n + 1) |-> SettledEntry(collections'[c], a)]
  <2>1. f \in [1..n -> Int] /\ g \in [1..(n + 1) -> Int]
    BY <1>1, AmountTypes
  <2>2. (\A c \in 1..n : f[c] = g[c]) /\ g[n + 1] = SettledEntry(row, a)
    BY <1>1
  <2>3. PostedBySettlement(a) = Total(n, f) /\ PostedBySettlement(a)' = Total(n + 1, g)
    BY <1>1 DEF PostedBySettlement, SettledEntry, n
  <2> HIDE DEF f, g
  <2> QED
    BY <1>1, <2>1, <2>2, <2>3, TotalAppend
<1> QED
  BY <1>2, <1>3, <1>4, <1>5

(* A reversal takes the row it compensates out of every sum. *)
LEMMA ReversalTakesBack ==
  ASSUME AccountInv, NEW c \in DOMAIN collections, ReverseCollection(c)
  PROVE  LET alloc == collections[c].alloc
         IN  /\ \A s \in Sides, i \in Installments :
                  /\ Allocated(s, i)' = Allocated(s, i) - alloc[s][i]
                  /\ StandingFor(s, i)' = StandingFor(s, i) - alloc[s][i]
             /\ \A k : AllocatedToPenalty(k)' = AllocatedToPenalty(k) - PenaltyAllocated(alloc, k)
             /\ \A a \in Accounts :
                  PostedBySettlement(a)' = PostedBySettlement(a) - SettledEntry(collections[c], a)
<1> DEFINE alloc == collections[c].alloc
           n == Len(collections)
           marked == [collections EXCEPT ![c].status = "reversed", ![c].receipt = "reversed"]
           row == [kind |-> "reversal", amount |-> - collections[c].amount, status |-> "posted",
                   original |-> c, alloc |-> Negated(alloc),
                   entry |-> [a \in Accounts |-> - collections[c].entry[a]],
                   receipt |-> "issued"]
<1>1. /\ collections' = Append(marked, row)
      /\ collections[c].kind # "reversal" /\ collections[c].status = "posted"
  BY DEF ReverseCollection, Reversible
<1>2. row.kind = "reversal" /\ row.alloc = Negated(alloc)
  OBVIOUS
<1> HIDE DEF row
<1>3. /\ n \in Nat /\ DOMAIN collections = 1..n /\ c \in 1..n
      /\ \A d \in 1..n : collections[d] \in CollectionRows
  BY TablesAreSequences
<1>4. /\ marked \in Seq(CollectionRows) /\ Len(marked) = n
      /\ \A d \in 1..n : d # c => marked[d] = collections[d]
      /\ marked[c].status = "reversed"
      /\ \A d \in 1..n : /\ marked[d].kind = collections[d].kind
                         /\ marked[d].alloc = collections[d].alloc
  BY <1>3, MarkedRows
<1> HIDE DEF marked
<1>5. /\ Len(collections') = n + 1 /\ DOMAIN collections' = 1..(n + 1)
      /\ collections'[n + 1] = row
      /\ \A d \in 1..n : collections'[d] = marked[d]
  BY <1>1, <1>3, <1>4
<1>6. \A d \in 1..(n + 1) : collections'[d] \in CollectionRows
  <2>1. AccountInv'
    BY ReverseCollectionPreserves
  <2>2. collections' \in Seq(CollectionRows)
    BY <2>1, Zenon DEF AccountInv, TypeOK
  <2> QED
    BY <1>5, <2>2
<1>7. /\ \A s \in Sides, i \in Installments : Negated(alloc)[s][i] = - alloc[s][i]
      /\ \A k : PenaltyAllocated(Negated(alloc), k) = - PenaltyAllocated(alloc, k)
  <2>1. \A s \in Sides, i \in Installments : Negated(alloc)[s][i] = - alloc[s][i]
    BY DEF Negated, Sides
  <2>2. \A k : PenaltyAllocated(Negated(alloc), k) = - PenaltyAllocated(alloc, k)
    BY DEF Negated, PenaltyAllocated
  <2> QED
    BY <2>1, <2>2
<1> HIDE DEF n, alloc
<1>8. ASSUME NEW s \in Sides, NEW i \in Installments
      PROVE  Allocated(s, i)' = Allocated(s, i) - alloc[s][i]
  <2> DEFINE f == [d \in 1..n |-> collections[d].alloc[s][i]]
             g == [d \in 1..(n + 1) |-> collections'[d].alloc[s][i]]
  <2>1. f \in [1..n -> Int] /\ alloc[s][i] \in Int
    BY <1>3, AmountTypes DEF alloc
  <2>2. (\A d \in 1..n : f[d] = g[d]) /\ g[n + 1] = - alloc[s][i]
    BY <1>2, <1>3, <1>4, <1>5, <1>7
  <2>3. g \in [1..(n + 1) -> Int]
    BY <1>6, AmountTypes
  <2>4. Allocated(s, i) = Total(n, f) /\ Allocated(s, i)' = Total(n + 1, g)
    BY <1>3, <1>5 DEF Allocated, n
  <2> HIDE DEF f, g
  <2>5. Total(n + 1, g) = Total(n, f) + g[n + 1] /\ Total(n, f) \in Int
    BY <1>3, <2>1, <2>2, <2>3, TotalAppend, TotalType
  <2> QED
    BY <2>1, <2>2, <2>4, <2>5
<1>9. ASSUME NEW s \in Sides, NEW i \in Installments
      PROVE  StandingFor(s, i)' = StandingFor(s, i) - alloc[s][i]
  <2> DEFINE f == [d \in 1..n |-> IF Standing(d) THEN collections[d].alloc[s][i] ELSE 0]
             g == [d \in 1..(n + 1) |-> IF Standing(d)' THEN collections'[d].alloc[s][i] ELSE 0]
  <2>1. f \in [1..n -> Int] /\ f[c] = alloc[s][i]
    <3>1. f \in [1..n -> Int]
      BY <1>3, AmountTypes
    <3>2. f[c] = alloc[s][i]
      BY <1>1, <1>3 DEF alloc, Standing
    <3> QED
      BY <3>1, <3>2
  <2>2. /\ \A d \in 1..n : d # c => g[d] = f[d]
        /\ g[c] = 0 /\ g[n + 1] = 0
    BY <1>2, <1>3, <1>4, <1>5 DEF Standing
  <2>3. g \in [1..(n + 1) -> Int]
    BY <1>6, AmountTypes
  <2>4. StandingFor(s, i) = Total(n, f) /\ StandingFor(s, i)' = Total(n + 1, g)
    BY <1>3, <1>5 DEF StandingFor, n
  <2> HIDE DEF f, g
  <2>5. n \in Nat /\ c \in 1..n /\ g[c] = 0 /\ g[n + 1] = 0
    BY <1>3, <2>2
  <2>6. \A d \in 1..n : d # c => g[d] = f[d]
    BY <2>2
  <2>7. Total(n + 1, g) = Total(n, f) - f[c]
    BY <2>1, <2>3, <2>5, <2>6, TotalStruck, ZenonT(60)
  <2> QED
    BY <2>1, <2>4, <2>7
<1>10. ASSUME NEW k
       PROVE  AllocatedToPenalty(k)' = AllocatedToPenalty(k) - PenaltyAllocated(alloc, k)
  <2> DEFINE f == [d \in 1..n |-> PenaltyAllocated(collections[d].alloc, k)]
             g == [d \in 1..(n + 1) |-> PenaltyAllocated(collections'[d].alloc, k)]
  <2>1. f \in [1..n -> Int] /\ PenaltyAllocated(alloc, k) \in Int
    BY <1>3, AmountTypes DEF alloc
  <2>2. (\A d \in 1..n : f[d] = g[d]) /\ g[n + 1] = - PenaltyAllocated(alloc, k)
    BY <1>2, <1>3, <1>4, <1>5, <1>7
  <2>3. g \in [1..(n + 1) -> Int]
    BY <1>6, AmountTypes
  <2>4. AllocatedToPenalty(k) = Total(n, f) /\ AllocatedToPenalty(k)' = Total(n + 1, g)
    BY <1>3, <1>5 DEF AllocatedToPenalty, PenaltyAllocated, n
  <2> HIDE DEF f, g
  <2>5. Total(n + 1, g) = Total(n, f) + g[n + 1] /\ Total(n, f) \in Int
    BY <1>3, <2>1, <2>2, <2>3, TotalAppend, TotalType
  <2> QED
    BY <2>1, <2>2, <2>4, <2>5
<1>11. ASSUME NEW a \in Accounts
       PROVE  PostedBySettlement(a)' = PostedBySettlement(a) - SettledEntry(collections[c], a)
  <2> DEFINE f == [d \in 1..n |-> SettledEntry(collections[d], a)]
             g == [d \in 1..(n + 1) |-> SettledEntry(collections'[d], a)]
  <2>1. f \in [1..n -> Int] /\ f[c] = SettledEntry(collections[c], a)
    BY <1>3, AmountTypes
  <2>2. /\ \A d \in 1..n : d # c => g[d] = f[d]
        /\ g[c] = 0 /\ g[n + 1] = 0
    BY <1>2, <1>3, <1>4, <1>5 DEF SettledEntry
  <2>3. g \in [1..(n + 1) -> Int]
    BY <1>6, AmountTypes
  <2>4. PostedBySettlement(a) = Total(n, f) /\ PostedBySettlement(a)' = Total(n + 1, g)
    BY <1>3, <1>5 DEF PostedBySettlement, SettledEntry, n
  <2> HIDE DEF f, g
  <2>5. n \in Nat /\ c \in 1..n /\ g[c] = 0 /\ g[n + 1] = 0
    BY <1>3, <2>2
  <2>6. \A d \in 1..n : d # c => g[d] = f[d]
    BY <2>2
  <2>7. Total(n + 1, g) = Total(n, f) - f[c]
    BY <2>1, <2>3, <2>5, <2>6, TotalStruck, ZenonT(60)
  <2> QED
    BY <2>1, <2>4, <2>7
<1> QED
  BY <1>8, <1>9, <1>10, <1>11 DEF alloc

-----------------------------------------------------------------------------
(***************************************************************************)
(* What a step that moves paid amounts does to the sums over the schedule  *)
(* and over the penalties.                                                 *)
(***************************************************************************)
MovesInstallments(principal, interest) ==
  \A i \in Installments :
    /\ installments'[i].principalPaid = installments[i].principalPaid + principal[i]
    /\ installments'[i].interestPaid = installments[i].interestPaid + interest[i]

MovesPenalties(penalty) ==
  /\ Len(penalties') = Len(penalties) /\ DOMAIN penalties' = DOMAIN penalties
  /\ \A k \in DOMAIN penalties :
       /\ penalties'[k].paid = penalties[k].paid + penalty[k]
       /\ penalties'[k].amount = penalties[k].amount
       /\ penalties'[k].installment = penalties[k].installment

LEMMA InstallmentSums ==
  ASSUME AccountInv, NEW principal \in [1..N -> Int], NEW interest \in [1..N -> Int],
         MovesInstallments(principal, interest)
  PROVE  /\ PrincipalOutstanding' = PrincipalOutstanding - Total(N, principal)
         /\ InterestPaid' = InterestPaid + Total(N, interest)
         /\ ScheduleOutstanding(installments)'
              = ScheduleOutstanding(installments) - Total(N, principal) - Total(N, interest)
         /\ PrincipalOutstanding \in Int /\ InterestPaid \in Int
         /\ ScheduleOutstanding(installments) \in Int
         /\ Total(N, principal) \in Int /\ Total(N, interest) \in Int
<1>1. N \in Nat /\ Installments = 1..N
  BY ScheduleAssumption DEF Installments
<1>2. \A i \in 1..N : /\ Principal[i] \in Int /\ Interest[i] \in Int
                      /\ installments[i].principalPaid \in Int
                      /\ installments[i].interestPaid \in Int
                      /\ principal[i] \in Int /\ interest[i] \in Int
  BY <1>1, RowTypes, ScheduleAssumption DEF AccountInv
<1>3. \A i \in 1..N :
        /\ installments'[i].principalPaid = installments[i].principalPaid + principal[i]
        /\ installments'[i].interestPaid = installments[i].interestPaid + interest[i]
  BY <1>1 DEF MovesInstallments
<1>4. Total(N, principal) \in Int /\ Total(N, interest) \in Int
  BY <1>1, TotalType
<1>5. /\ PrincipalOutstanding = PrincipalOutstanding' + Total(N, principal)
      /\ PrincipalOutstanding \in Int /\ PrincipalOutstanding' \in Int
  <2> DEFINE f == [i \in 1..N |-> Principal[i] - installments[i].principalPaid]
             g == [i \in 1..N |-> Principal[i] - installments'[i].principalPaid]
  <2>1. f \in [1..N -> Int] /\ g \in [1..N -> Int]
    <3>1. \A i \in 1..N : installments'[i].principalPaid \in Int
      BY <1>2, <1>3
    <3> QED
      BY <1>2, <3>1
  <2>2. \A i \in 1..N : f[i] = g[i] + principal[i]
    BY <1>2, <1>3
  <2>3. PrincipalOutstanding = Total(N, f) /\ PrincipalOutstanding' = Total(N, g)
    BY <1>1 DEF PrincipalOutstanding
  <2> HIDE DEF f, g
  <2>4. Total(N, f) = Total(N, g) + Total(N, principal)
    BY <1>1, <2>1, <2>2, TotalSum
  <2>5. Total(N, f) \in Int /\ Total(N, g) \in Int
    BY <1>1, <2>1, TotalType
  <2> QED
    BY <2>3, <2>4, <2>5
<1>6. InterestPaid' = InterestPaid + Total(N, interest) /\ InterestPaid \in Int
  <2> DEFINE f == [i \in 1..N |-> installments[i].interestPaid]
             g == [i \in 1..N |-> installments'[i].interestPaid]
  <2>1. f \in [1..N -> Int] /\ g \in [1..N -> Int]
    BY <1>2, <1>3
  <2>2. \A i \in 1..N : g[i] = f[i] + interest[i]
    BY <1>2, <1>3
  <2>3. InterestPaid = Total(N, f) /\ InterestPaid' = Total(N, g)
    BY <1>1 DEF InterestPaid
  <2> HIDE DEF f, g
  <2>4. Total(N, g) = Total(N, f) + Total(N, interest)
    BY <1>1, <2>1, <2>2, TotalSum
  <2>5. Total(N, f) \in Int /\ Total(N, g) \in Int
    BY <1>1, <2>1, TotalType
  <2> QED
    BY <2>3, <2>4, <2>5
<1>7. /\ ScheduleOutstanding(installments)
           = ScheduleOutstanding(installments)' + (Total(N, principal) + Total(N, interest))
      /\ ScheduleOutstanding(installments) \in Int /\ ScheduleOutstanding(installments)' \in Int
  <2> DEFINE f == [i \in 1..N |-> (Principal[i] - installments[i].principalPaid)
                                  + (Interest[i] - installments[i].interestPaid)]
             g == [i \in 1..N |-> (Principal[i] - installments'[i].principalPaid)
                                  + (Interest[i] - installments'[i].interestPaid)]
             both == [i \in 1..N |-> principal[i] + interest[i]]
  <2>1. \A i \in 1..N : f[i] \in Int /\ g[i] \in Int /\ both[i] \in Int /\ f[i] = g[i] + both[i]
    <3> TAKE i \in 1..N
    <3> DEFINE a == Principal[i]
               b == Interest[i]
               p == installments[i].principalPaid
               q == installments[i].interestPaid
    <3>1. a \in Int /\ b \in Int /\ p \in Int /\ q \in Int
          /\ principal[i] \in Int /\ interest[i] \in Int
      BY <1>2
    <3>2. /\ f[i] = (a - p) + (b - q)
          /\ g[i] = (a - (p + principal[i])) + (b - (q + interest[i]))
          /\ both[i] = principal[i] + interest[i]
      BY <1>3
    <3> HIDE DEF a, b, p, q, f, g, both
    <3> QED
      BY <3>1, <3>2
  <2>2. f \in [1..N -> Int] /\ g \in [1..N -> Int] /\ both \in [1..N -> Int]
    <3>1. /\ f = [i \in 1..N |-> f[i]] /\ g = [i \in 1..N |-> g[i]]
          /\ both = [i \in 1..N |-> both[i]]
      OBVIOUS
    <3> HIDE DEF f, g, both
    <3> QED
      BY <2>1, <3>1
  <2>3. /\ ScheduleOutstanding(installments) = Total(N, f)
        /\ ScheduleOutstanding(installments)' = Total(N, g)
    BY <1>1 DEF ScheduleOutstanding
  <2>4. \A i \in 1..N : both[i] = principal[i] + interest[i]
    OBVIOUS
  <2> HIDE DEF f, g, both
  <2>5. Total(N, f) = Total(N, g) + Total(N, both)
    BY <1>1, <2>1, <2>2, TotalSum, ZenonT(60)
  <2>6. Total(N, both) = Total(N, principal) + Total(N, interest)
    BY <1>1, <2>2, <2>4, TotalSum, ZenonT(60)
  <2>7. Total(N, f) \in Int /\ Total(N, g) \in Int
    BY <1>1, <2>2, TotalType
  <2> QED
    BY <2>3, <2>5, <2>6, <2>7
<1> QED
  BY <1>4, <1>5, <1>6, <1>7

OnInstallment(penalty, i) ==
  Total(Len(penalties),
        [k \in 1..Len(penalties) |-> IF penalties[k].installment = i THEN penalty[k] ELSE 0])

LEMMA PenaltySums ==
  ASSUME AccountInv, NEW penalty \in [1..Len(penalties) -> Int], MovesPenalties(penalty)
  PROVE  /\ PenaltyPaid' = PenaltyPaid + Total(Len(penalties), penalty)
         /\ PenaltyCharged' = PenaltyCharged
         /\ \A i \in Installments : PenaltyPaidOn(i)' = PenaltyPaidOn(i) + OnInstallment(penalty, i)
         /\ PenaltyPaid \in Nat /\ PenaltyCharged \in Int
         /\ Total(Len(penalties), penalty) \in Int
<1> DEFINE n == Len(penalties)
           paid == [k \in 1..n |-> penalties[k].paid]
           paidAfter == [k \in 1..n |-> penalties'[k].paid]
           amount == [k \in 1..n |-> penalties[k].amount]
<1>1. /\ n \in Nat /\ DOMAIN penalties = 1..n
      /\ Len(penalties') = n /\ DOMAIN penalties' = 1..n
  BY RowTypes DEF AccountInv, MovesPenalties
<1>2. \A k \in 1..n : /\ penalties[k].paid \in Nat /\ penalties[k].amount \in Nat
                      /\ penalty[k] \in Int
                      /\ penalties'[k].paid = penalties[k].paid + penalty[k]
                      /\ penalties'[k].amount = penalties[k].amount
                      /\ penalties'[k].installment = penalties[k].installment
  BY <1>1, RowTypes DEF AccountInv, MovesPenalties
<1> HIDE DEF n
<1>3. /\ paid \in [1..n -> Nat] /\ paid \in [1..n -> Int] /\ paidAfter \in [1..n -> Int]
      /\ amount \in [1..n -> Int] /\ penalty \in [1..n -> Int]
      /\ \A k \in 1..n : paidAfter[k] = paid[k] + penalty[k]
  BY <1>2 DEF n
<1>4. /\ PenaltyPaid = Total(n, paid) /\ PenaltyPaid' = Total(n, paidAfter)
      /\ PenaltyCharged = Total(n, amount) /\ PenaltyCharged' = Total(n, amount)
  BY <1>1, <1>2 DEF PenaltyPaid, PenaltyCharged, n
<1>5. ASSUME NEW i \in Installments
      PROVE  PenaltyPaidOn(i)' = PenaltyPaidOn(i) + OnInstallment(penalty, i)
  <2> DEFINE f == [k \in 1..n |-> IF penalties[k].installment = i THEN penalties[k].paid ELSE 0]
             g == [k \in 1..n |-> IF penalties'[k].installment = i THEN penalties'[k].paid ELSE 0]
             d == [k \in 1..n |-> IF penalties[k].installment = i THEN penalty[k] ELSE 0]
  <2>1. /\ f \in [1..n -> Int] /\ g \in [1..n -> Int] /\ d \in [1..n -> Int]
        /\ \A k \in 1..n : g[k] = f[k] + d[k]
    BY <1>2
  <2>2. /\ PenaltyPaidOn(i) = Total(n, f) /\ PenaltyPaidOn(i)' = Total(n, g)
        /\ OnInstallment(penalty, i) = Total(n, d)
    BY <1>1 DEF PenaltyPaidOn, OnInstallment, n
  <2> HIDE DEF f, g, d
  <2>3. Total(n, g) = Total(n, f) + Total(n, d)
    BY <1>1, <2>1, TotalSum
  <2> QED
    BY <2>2, <2>3
<1> HIDE DEF paid, paidAfter, amount
<1>6. /\ Total(n, paidAfter) = Total(n, paid) + Total(n, penalty)
      /\ Total(n, paid) \in Nat /\ Total(n, amount) \in Int /\ Total(n, penalty) \in Int
  BY <1>1, <1>3, TotalSum, TotalType, TotalNonNegative, ZenonT(60)
<1> QED
  BY <1>4, <1>5, <1>6 DEF n

-----------------------------------------------------------------------------
(***************************************************************************)
(* What postCollection and reverseCollection do to the rows.               *)
(***************************************************************************)
LEMMA InstallmentRowFields ==
  ASSUME NEW i, NEW a, NEW b, NEW c
  PROVE  /\ InstallmentRow(i, a, b, c).principalPaid = a
         /\ InstallmentRow(i, a, b, c).interestPaid = b
         /\ InstallmentRow(i, a, b, c).penaltyPaid = c
         /\ InstallmentRow(i, a, b, c).status = InstallmentStatus(i, a, b)
BY DEF InstallmentRow

(* An allocation is as long as the penalties were when it was made; on the   *)
(* penalties there are now it is zero beyond that.                           *)
Padded(alloc) == [k \in 1..Len(penalties) |-> PenaltyAllocated(alloc, k)]

LEMMA PaddedSums ==
  ASSUME AccountInv, NEW alloc, alloc.penalty \in Seq(Int),
         DOMAIN alloc.penalty \subseteq DOMAIN penalties
  PROVE  /\ Padded(alloc) \in [1..Len(penalties) -> Int]
         /\ Total(Len(penalties), Padded(alloc)) = PenaltyTotal(alloc)
         /\ \A i : OnInstallment(Padded(alloc), i) = PenaltyOn(alloc, i)
<1> DEFINE n == Len(penalties)
           m == Len(alloc.penalty)
           f == alloc.penalty
           g == Padded(alloc)
<1>1. /\ n \in Nat /\ DOMAIN penalties = 1..n
      /\ m \in Nat /\ DOMAIN f = 1..m /\ f \in [1..m -> Int]
  BY RowTypes DEF AccountInv
<1>2. m <= n
  <2>1. CASE m = 0
    BY <2>1, <1>1
  <2>2. CASE m # 0
    <3>1. m \in 1..n
      BY <1>1, <2>2
    <3> QED
      BY <1>1, <3>1
  <2> QED
    BY <2>1, <2>2
<1>3. /\ g = [k \in 1..n |-> g[k]]
      /\ \A k \in 1..n : g[k] = IF k \in 1..m THEN f[k] ELSE 0
  BY <1>1 DEF Padded, PenaltyAllocated
<1> HIDE DEF n, m, f, g
<1>4. \A k \in 1..n : g[k] \in Int
  BY <1>1, <1>3
<1>5. g \in [1..n -> Int]
  BY <1>3, <1>4
<1>6. (\A k \in 1..m : f[k] = g[k]) /\ (\A k \in (m + 1)..n : g[k] = 0)
  BY <1>1, <1>2, <1>3
<1>7. Total(n, g) = Total(m, f)
  BY <1>1, <1>2, <1>5, <1>6, TotalPadded
<1>8. ASSUME NEW i
      PROVE  OnInstallment(Padded(alloc), i) = PenaltyOn(alloc, i)
  <2> DEFINE p == [k \in 1..m |-> IF penalties[k].installment = i THEN f[k] ELSE 0]
             q == [k \in 1..n |-> IF penalties[k].installment = i THEN g[k] ELSE 0]
  <2>1. p \in [1..m -> Int] /\ q \in [1..n -> Int]
    BY <1>1, <1>4
  <2>2. (\A k \in 1..m : p[k] = q[k]) /\ (\A k \in (m + 1)..n : q[k] = 0)
    BY <1>1, <1>2, <1>6
  <2>3. PenaltyOn(alloc, i) = Total(m, p) /\ OnInstallment(Padded(alloc), i) = Total(n, q)
    BY <1>1 DEF PenaltyOn, OnInstallment, n, m, f, g
  <2> HIDE DEF p, q
  <2> QED
    BY <1>1, <1>2, <2>1, <2>2, <2>3, TotalPadded
<1> QED
  BY <1>5, <1>7, <1>8 DEF n, m, f, g, PenaltyTotal

LEMMA PaymentMoves ==
  ASSUME AccountInv, NEW amount \in Amounts, PostCollection(amount)
  PROVE  LET alloc == Allocate(amount)
         IN  /\ MovesInstallments(alloc.principal, alloc.interest)
             /\ MovesPenalties(alloc.penalty)
             /\ Padded(alloc) = alloc.penalty
             /\ \A i \in Installments :
                  /\ installments'[i].penaltyPaid
                       = installments[i].penaltyPaid + PenaltyOn(alloc, i)
                  /\ \/ installments'[i].status = installments[i].status
                     \/ installments'[i].status
                          = InstallmentStatus(i, installments'[i].principalPaid,
                                                 installments'[i].interestPaid)
<1> DEFINE alloc == Allocate(amount)
<1>0. TypeOK /\ amount \in Nat
  BY BoundAssumption DEF AccountInv
<1>1. installments' = InstallmentsAfter(alloc) /\ penalties' = PenaltiesAfter(alloc)
  BY DEF PostCollection
<1>2. /\ alloc.penalty \in [1..Len(penalties) -> Nat]
      /\ alloc.interest \in [1..N -> Nat]
      /\ alloc.principal \in [1..N -> Nat]
  BY <1>0, AllocateBounds
<1> HIDE DEF alloc
<1>3. Len(penalties) \in Nat /\ DOMAIN penalties = 1..Len(penalties)
  BY <1>0, RowTypes
<1>4. alloc.penalty \in Seq(Nat)
  BY <1>2, <1>3, IntervalSequence, Zenon
<1>5. ASSUME NEW i \in Installments
      PROVE  /\ installments'[i].principalPaid = installments[i].principalPaid + alloc.principal[i]
             /\ installments'[i].interestPaid = installments[i].interestPaid + alloc.interest[i]
             /\ installments'[i].penaltyPaid
                  = installments[i].penaltyPaid + PenaltyOn(alloc, i)
             /\ \/ installments'[i].status = installments[i].status
                \/ installments'[i].status
                     = InstallmentStatus(i, installments'[i].principalPaid,
                                            installments'[i].interestPaid)
  <2> DEFINE a == installments[i].principalPaid + alloc.principal[i]
             b == installments[i].interestPaid + alloc.interest[i]
             c == installments[i].penaltyPaid + PenaltyOn(alloc, i)
  <2>1. installments'[i] = IF Touches(alloc, i) THEN InstallmentRow(i, a, b, c)
                           ELSE installments[i]
    BY <1>1, Zenon DEF InstallmentsAfter
  <2>2. CASE Touches(alloc, i)
    BY <2>1, <2>2, InstallmentRowFields
  <2>3. CASE ~ Touches(alloc, i)
    <3>1. alloc.principal[i] = 0 /\ alloc.interest[i] = 0 /\ PenaltyOn(alloc, i) = 0
      BY <2>3 DEF Touches
    <3>2. /\ installments[i].principalPaid \in Nat /\ installments[i].interestPaid \in Nat
          /\ installments[i].penaltyPaid \in Nat
      BY <1>0, RowTypes
    <3>3. installments'[i] = installments[i]
      BY <2>1, <2>3
    <3> QED
      BY <3>1, <3>2, <3>3
  <2> QED
    BY <2>2, <2>3
<1>6. MovesInstallments(alloc.principal, alloc.interest)
  BY <1>5 DEF MovesInstallments
<1>7. Padded(alloc) = alloc.penalty
  BY <1>2, <1>3 DEF Padded, PenaltyAllocated
<1>8. DOMAIN penalties' = DOMAIN penalties /\ Len(penalties') = Len(penalties)
  <2>1. penalties' = [k \in 1..Len(penalties) |-> penalties'[k]]
    BY <1>1, <1>3 DEF PenaltiesAfter
  <2>2. penalties' \in [1..Len(penalties) -> {penalties'[k] : k \in 1..Len(penalties)}]
    BY <2>1
  <2>3. penalties' \in Seq({penalties'[k] : k \in 1..Len(penalties)})
    BY <1>3, <2>2, IntervalSequence, Zenon
  <2> QED
    BY <1>3, <2>1, <2>3
<1>9. ASSUME NEW k \in DOMAIN penalties
      PROVE  /\ penalties'[k].paid = penalties[k].paid + alloc.penalty[k]
             /\ penalties'[k].amount = penalties[k].amount
             /\ penalties'[k].installment = penalties[k].installment
  <2> DEFINE full == penalties[k].paid + alloc.penalty[k] >= penalties[k].amount
             total == penalties[k].paid + alloc.penalty[k]
             row == [penalties[k] EXCEPT !.paid = total, !.isPaid = full]
  <2>1. penalties[k] \in PenaltyRows /\ penalties[k].paid \in Nat /\ alloc.penalty[k] \in Nat
    BY <1>0, <1>2, <1>3, RowTypes
  <2>2. penalties'[k] = IF alloc.penalty[k] > 0 THEN row ELSE penalties[k]
    BY <1>1, Zenon DEF PenaltiesAfter
  <2> HIDE DEF full, total
  <2>3. /\ row.paid = total /\ row.amount = penalties[k].amount
        /\ row.installment = penalties[k].installment
    BY <2>1 DEF PenaltyRows
  <2> HIDE DEF row
  <2>4. CASE alloc.penalty[k] > 0
    BY <2>2, <2>3, <2>4 DEF total
  <2>5. CASE ~ (alloc.penalty[k] > 0)
    BY <2>1, <2>2, <2>5
  <2> QED
    BY <2>4, <2>5
<1>10. MovesPenalties(alloc.penalty)
  BY <1>8, <1>9 DEF MovesPenalties
<1> QED
  BY <1>5, <1>6, <1>7, <1>10 DEF alloc

-----------------------------------------------------------------------------
(***************************************************************************)
(* The paid amounts.  PaidIsNetAllocated is not inductive.  A reversal     *)
(* stops at zero (Decimal.max), and only the sum of the rows that stand,   *)
(* none of which is negative, shows that it never has to.  And a penalty   *)
(* posted later takes a position that no earlier allocation may reach.     *)
(***************************************************************************)
RowsInv ==
  \A c \in DOMAIN collections :
    /\ DOMAIN collections[c].alloc.penalty \subseteq DOMAIN penalties
    /\ collections[c].kind = "payment"
         => collections[c].entry = CollectionEntry(collections[c].alloc)
    /\ collections[c].kind = "settlement"
         => collections[c].alloc = NoAllocation /\ collections[c].entry["fee"] = 0

PaidInv ==
  /\ \A i \in Installments :
       /\ installments[i].principalPaid = StandingFor("principal", i)
       /\ installments[i].interestPaid = StandingFor("interest", i)
  /\ PaidIsNetAllocated

(* What a row that stands allocated is part of what stands.  *)
LEMMA StandingBounds ==
  ASSUME AccountInv, NEW c \in DOMAIN collections, Standing(c),
         NEW s \in Sides, NEW i \in Installments
  PROVE  collections[c].alloc[s][i] \in Nat /\ collections[c].alloc[s][i] <= StandingFor(s, i)
<1> DEFINE n == Len(collections)
           f == [d \in 1..n |-> IF Standing(d) THEN collections[d].alloc[s][i] ELSE 0]
<1>1. n \in Nat /\ DOMAIN collections = 1..n
  BY TablesAreSequences
<1>2. \A d \in DOMAIN collections : Standing(d) => collections[d].alloc[s][i] \in Nat
  BY DEF AccountInv, AllocationsNonNegative, NonNegative, Standing, Sides
<1>3. f \in [1..n -> Nat] /\ f[c] = collections[c].alloc[s][i] /\ c \in 1..n
  BY <1>1, <1>2
<1>4. StandingFor(s, i) = Total(n, f)
  BY <1>1 DEF StandingFor
<1> HIDE DEF n, f
<1>5. f[c] <= Total(n, f)
  BY <1>1, <1>3, TotalBoundsEntries
<1> QED
  BY <1>2, <1>3, <1>4, <1>5

LEMMA ReversalMoves ==
  ASSUME AccountInv, RowsInv, PaidInv, NEW c \in DOMAIN collections, ReverseCollection(c)
  PROVE  LET alloc == collections[c].alloc
         IN  /\ MovesInstallments([i \in 1..N |-> - alloc.principal[i]],
                                  [i \in 1..N |-> - alloc.interest[i]])
             /\ MovesPenalties([k \in 1..Len(penalties) |-> - Padded(alloc)[k]])
             /\ \A k \in DOMAIN penalties : penalties'[k].paid \in Nat
             /\ \A i \in Installments :
                  /\ installments'[i].penaltyPaid
                       = AtLeastZero(installments[i].penaltyPaid - PenaltyOn(alloc, i))
                  /\ \/ installments'[i].status = installments[i].status
                     \/ installments'[i].status
                          = InstallmentStatus(i, installments'[i].principalPaid,
                                                 installments'[i].interestPaid)
<1> DEFINE alloc == collections[c].alloc
<1>0. TypeOK /\ Standing(c)
  BY DEF AccountInv, ReverseCollection, Reversible, Standing
<1>1. installments' = Restored(alloc) /\ penalties' = PenaltiesRestored(alloc)
      /\ \A k \in DOMAIN penalties' : penalties'[k].paid >= 0
  BY DEF ReverseCollection
<1>2. \A i \in Installments :
        /\ alloc.principal[i] \in Nat /\ alloc.principal[i] <= installments[i].principalPaid
        /\ alloc.interest[i] \in Nat /\ alloc.interest[i] <= installments[i].interestPaid
  <2>1. \A s \in Sides, i \in Installments :
          alloc[s][i] \in Nat /\ alloc[s][i] <= StandingFor(s, i)
    BY <1>0, StandingBounds
  <2> QED
    BY <2>1 DEF PaidInv, Sides
<1>3. /\ alloc.penalty \in Seq(Int)
      /\ \A k : PenaltyAllocated(alloc, k) \in Nat
  <2>1. alloc.penalty \in Seq(Int)
    BY <1>0, CollectionTypes
  <2>2. \A k \in DOMAIN alloc.penalty : alloc.penalty[k] \in Nat
    BY <1>0 DEF AccountInv, AllocationsNonNegative, NonNegative, Standing
  <2> QED
    BY <2>1, <2>2 DEF PenaltyAllocated
<1>4. Len(penalties) \in Nat /\ DOMAIN penalties = 1..Len(penalties) /\ Installments = 1..N
  BY <1>0, RowTypes DEF Installments
<1> HIDE DEF alloc
<1>5. ASSUME NEW i \in Installments
      PROVE  /\ installments'[i].principalPaid = installments[i].principalPaid - alloc.principal[i]
             /\ installments'[i].interestPaid = installments[i].interestPaid - alloc.interest[i]
             /\ installments'[i].penaltyPaid
                  = AtLeastZero(installments[i].penaltyPaid - PenaltyOn(alloc, i))
             /\ \/ installments'[i].status = installments[i].status
                \/ installments'[i].status
                     = InstallmentStatus(i, installments'[i].principalPaid,
                                            installments'[i].interestPaid)
  <2> DEFINE a == AtLeastZero(installments[i].principalPaid - alloc.principal[i])
             b == AtLeastZero(installments[i].interestPaid - alloc.interest[i])
             d == AtLeastZero(installments[i].penaltyPaid - PenaltyOn(alloc, i))
  <2>1. installments'[i] = IF Touches(alloc, i) THEN InstallmentRow(i, a, b, d)
                           ELSE installments[i]
    BY <1>1, Zenon DEF Restored
  <2>2. /\ installments[i].principalPaid \in Nat /\ installments[i].interestPaid \in Nat
        /\ installments[i].penaltyPaid \in Nat
    BY <1>0, RowTypes
  <2>3. /\ a = installments[i].principalPaid - alloc.principal[i]
        /\ b = installments[i].interestPaid - alloc.interest[i]
    BY <1>2, <2>2 DEF AtLeastZero
  <2>4. CASE Touches(alloc, i)
    <3> HIDE DEF a, b, d
    <3>1. installments'[i] = InstallmentRow(i, a, b, d)
      BY <2>1, <2>4
    <3> QED
      BY <3>1, <2>3, InstallmentRowFields DEF d
  <2>5. CASE ~ Touches(alloc, i)
    <3>1. alloc.principal[i] = 0 /\ alloc.interest[i] = 0 /\ PenaltyOn(alloc, i) = 0
      BY <2>5 DEF Touches
    <3>2. installments'[i] = installments[i]
      BY <2>1, <2>5
    <3> QED
      BY <3>1, <3>2, <2>2 DEF AtLeastZero
  <2> QED
    BY <2>4, <2>5
<1>6. MovesInstallments([i \in 1..N |-> - alloc.principal[i]],
                        [i \in 1..N |-> - alloc.interest[i]])
  <2>1. ASSUME NEW i \in Installments
        PROVE  /\ installments'[i].principalPaid
                    = installments[i].principalPaid + (- alloc.principal[i])
               /\ installments'[i].interestPaid
                    = installments[i].interestPaid + (- alloc.interest[i])
    BY <1>0, <1>2, <1>5, RowTypes
  <2> QED
    BY <1>4, <2>1 DEF MovesInstallments
<1>7. DOMAIN penalties' = DOMAIN penalties /\ Len(penalties') = Len(penalties)
  <2>1. penalties' = [k \in 1..Len(penalties) |-> penalties'[k]]
    BY <1>1, <1>4 DEF PenaltiesRestored
  <2>2. penalties' \in [1..Len(penalties) -> {penalties'[k] : k \in 1..Len(penalties)}]
    BY <2>1
  <2>3. penalties' \in Seq({penalties'[k] : k \in 1..Len(penalties)})
    BY <1>4, <2>2, IntervalSequence, Zenon
  <2> QED
    BY <1>4, <2>1, <2>3
<1>8. ASSUME NEW k \in DOMAIN penalties
      PROVE  /\ penalties'[k].paid = penalties[k].paid + (- PenaltyAllocated(alloc, k))
             /\ penalties'[k].paid \in Nat
             /\ penalties'[k].amount = penalties[k].amount
             /\ penalties'[k].installment = penalties[k].installment
  <2> DEFINE x == PenaltyAllocated(alloc, k)
             total == penalties[k].paid - x
             row == [penalties[k] EXCEPT !.paid = total, !.isPaid = FALSE]
  <2>1. penalties[k] \in PenaltyRows /\ penalties[k].paid \in Nat /\ x \in Nat
    BY <1>0, <1>3, <1>4, RowTypes
  <2>2. penalties'[k] = IF x > 0 THEN row ELSE penalties[k]
    BY <1>1, Zenon DEF PenaltiesRestored
  <2>3. penalties'[k].paid >= 0
    BY <1>1, <1>7
  <2> HIDE DEF total, x
  <2>4. /\ row.paid = total /\ row.amount = penalties[k].amount
        /\ row.installment = penalties[k].installment
    BY <2>1 DEF PenaltyRows
  <2> HIDE DEF row
  <2>5. CASE x > 0
    <3>1. penalties'[k].paid = penalties[k].paid + (- x)
      BY <2>1, <2>2, <2>4, <2>5 DEF total
    <3>2. penalties'[k].paid \in Nat
      BY <2>1, <2>3, <3>1
    <3> QED
      BY <2>2, <2>4, <2>5, <3>1, <3>2 DEF x
  <2>6. CASE ~ (x > 0)
    <3>1. penalties'[k] = penalties[k] /\ penalties[k].paid = penalties[k].paid + (- x)
      BY <2>1, <2>2, <2>6
    <3> QED
      BY <2>1, <3>1 DEF x
  <2> QED
    BY <2>5, <2>6
<1>9. MovesPenalties([k \in 1..Len(penalties) |-> - Padded(alloc)[k]])
  BY <1>4, <1>7, <1>8 DEF MovesPenalties, Padded
<1> QED
  BY <1>5, <1>6, <1>8, <1>9 DEF alloc

-----------------------------------------------------------------------------
(* The rows of the collections. *)
LEMMA RowsKept ==
  ASSUME RowsInv, UNCHANGED collections, DOMAIN penalties \subseteq DOMAIN penalties'
  PROVE  RowsInv'
BY DEF RowsInv

LEMMA RowsAppended ==
  ASSUME AccountInv, RowsInv, NEW row, collections' = Append(collections, row),
         DOMAIN penalties' = DOMAIN penalties,
         DOMAIN row.alloc.penalty \subseteq DOMAIN penalties,
         row.kind = "payment" => row.entry = CollectionEntry(row.alloc),
         row.kind = "settlement" => row.alloc = NoAllocation /\ row.entry["fee"] = 0
  PROVE  RowsInv'
<1>1. /\ \A c \in DOMAIN collections : collections'[c] = collections[c]
      /\ collections'[Len(collections) + 1] = row
      /\ DOMAIN collections' = DOMAIN collections \union {Len(collections) + 1}
  BY Appended, TablesAreSequences
<1> QED
  BY <1>1 DEF RowsInv

LEMMA PaymentKeepsRowsInv ==
  ASSUME AccountInv, RowsInv, NEW amount \in Amounts, PostCollection(amount)
  PROVE  RowsInv'
<1> DEFINE alloc == Allocate(amount)
           row == [kind |-> "payment", amount |-> amount, status |-> "posted", original |-> 0,
                   alloc |-> alloc, entry |-> CollectionEntry(alloc), receipt |-> "issued"]
<1>1. collections' = Append(collections, row)
  BY DEF PostCollection
<1>2. DOMAIN alloc.penalty = DOMAIN penalties
  BY DEF Allocate
<1>3. DOMAIN penalties' = DOMAIN penalties
  BY PaymentMoves DEF MovesPenalties
<1> HIDE DEF alloc
<1>4. row.kind = "payment" /\ row.alloc = alloc /\ row.entry = CollectionEntry(alloc)
  OBVIOUS
<1> HIDE DEF row
<1> QED
  BY <1>1, <1>2, <1>3, <1>4, RowsAppended

LEMMA SettlementKeepsRowsInv ==
  ASSUME AccountInv, RowsInv, NEW n \in DOMAIN quotes, ExecuteForeclosure(n)
  PROVE  RowsInv'
<1> DEFINE entry == SettlementEntry(quotes[n])
           row == [kind |-> "settlement", amount |-> quotes[n].settlement, status |-> "posted",
                   original |-> 0, alloc |-> NoAllocation, entry |-> entry,
                   receipt |-> "issued"]
<1>1. collections' = Append(collections, row)
      /\ DOMAIN penalties' = DOMAIN penalties
  BY DEF ExecuteForeclosure
<1>2. entry["fee"] = 0
  BY DEF SettlementEntry, Entry, Accounts
<1> HIDE DEF entry
<1>3. row.kind = "settlement" /\ row.alloc = NoAllocation /\ row.entry = entry
  OBVIOUS
<1> HIDE DEF row
<1>4. DOMAIN row.alloc.penalty = {}
  BY <1>3 DEF NoAllocation
<1> QED
  BY <1>1, <1>2, <1>3, <1>4, RowsAppended

LEMMA ReversalKeepsRowsInv ==
  ASSUME AccountInv, RowsInv, NEW c \in DOMAIN collections, ReverseCollection(c)
  PROVE  RowsInv'
<1> DEFINE marked == [collections EXCEPT ![c].status = "reversed", ![c].receipt = "reversed"]
           row == [kind |-> "reversal", amount |-> - collections[c].amount, status |-> "posted",
                   original |-> c, alloc |-> Negated(collections[c].alloc),
                   entry |-> [a \in Accounts |-> - collections[c].entry[a]],
                   receipt |-> "issued"]
<1>1. collections' = Append(marked, row) /\ DOMAIN penalties' = DOMAIN penalties
  BY DEF ReverseCollection, PenaltiesRestored
<1>2. row.kind = "reversal" /\ row.alloc = Negated(collections[c].alloc)
  OBVIOUS
<1>3. DOMAIN row.alloc.penalty \subseteq DOMAIN penalties
  BY <1>2 DEF Negated, RowsInv
<1> HIDE DEF row
<1>4. /\ marked \in Seq(CollectionRows) /\ DOMAIN marked = DOMAIN collections
      /\ \A d \in DOMAIN collections : /\ marked[d].kind = collections[d].kind
                                       /\ marked[d].alloc = collections[d].alloc
                                       /\ marked[d].entry = collections[d].entry
  BY MarkedRows
<1> HIDE DEF marked
<1>5. /\ \A d \in DOMAIN collections : collections'[d] = marked[d]
      /\ collections'[Len(marked) + 1] = row
      /\ DOMAIN collections' = DOMAIN collections \union {Len(marked) + 1}
  BY <1>1, <1>4, Appended
<1> QED
  BY <1>1, <1>2, <1>3, <1>4, <1>5 DEF RowsInv

LEMMA RowsStep ==
  AccountInv /\ RowsInv /\ [Next]_vars => RowsInv'
<1> SUFFICES ASSUME AccountInv, RowsInv, [Next]_vars PROVE RowsInv'
  OBVIOUS
<1>1. CASE \E amount \in Amounts : PostCollection(amount)
  BY <1>1, PaymentKeepsRowsInv
<1>2. CASE \E c \in DOMAIN collections : ReverseCollection(c)
  BY <1>2, ReversalKeepsRowsInv
<1>3. CASE \E n \in DOMAIN quotes : ExecuteForeclosure(n)
  BY <1>3, SettlementKeepsRowsInv
<1>4. CASE \E i \in Installments, period \in 1..Periods, reference \in 0..MaxDay :
             PostPenalty(i, period, reference)
  <2>1. PICK row : penalties' = Append(penalties, row)
    BY <1>4 DEF PostPenalty
  <2>2. DOMAIN penalties \subseteq DOMAIN penalties'
    BY <2>1, Appended, TablesAreSequences
  <2>3. UNCHANGED collections
    BY <1>4 DEF PostPenalty
  <2> QED
    BY <2>2, <2>3, RowsKept
<1>5. CASE \E k \in DOMAIN penalties : WaivePenalty(k)
  <2>1. UNCHANGED collections /\ DOMAIN penalties' = DOMAIN penalties
    BY <1>5 DEF WaivePenalty
  <2> QED
    BY <2>1, RowsKept
<1>6. CASE UNCHANGED <<penalties, collections>>
  BY <1>6, RowsKept
<1>7. ASSUME \/ Disburse \/ \E rebate \in Rebates : CreateQuote(rebate)
             \/ ReadForQuote \/ AbandonQuote \/ ReadForClose \/ CloseLoan \/ RefuseClose
             \/ Tick \/ UNCHANGED vars
      PROVE  UNCHANGED <<penalties, collections>>
  BY <1>7 DEF Disburse, CreateQuote, ReadForQuote, AbandonQuote, ReadForClose, CloseLoan,
     RefuseClose, Tick, vars
<1> QED
  BY <1>1, <1>2, <1>3, <1>4, <1>5, <1>6, <1>7, Zenon DEF Next

-----------------------------------------------------------------------------
(* A penalty that was just posted adds its amount to what is charged, and    *)
(* nothing to what is paid.                                                  *)
LEMMA PenaltyAdds ==
  ASSUME AccountInv, NEW row \in PenaltyRows, row.paid = 0, penalties' = Append(penalties, row)
  PROVE  /\ PenaltyPaid' = PenaltyPaid
         /\ PenaltyCharged' = PenaltyCharged + row.amount
         /\ \A i \in Installments : PenaltyPaidOn(i)' = PenaltyPaidOn(i)
         /\ PenaltyPaid \in Nat /\ PenaltyCharged \in Int /\ row.amount \in Nat
<1> DEFINE n == Len(penalties)
<1>1. /\ n \in Nat /\ DOMAIN penalties = 1..n
      /\ Len(penalties') = n + 1 /\ DOMAIN penalties' = 1..(n + 1)
      /\ penalties'[n + 1] = row
      /\ \A k \in 1..n : penalties'[k] = penalties[k]
      /\ \A k \in 1..n : penalties[k].paid \in Nat /\ penalties[k].amount \in Nat
  BY TablesAreSequences, RowTypes DEF AccountInv
<1>2. row.amount \in Nat
  BY DEF PenaltyRows
<1> HIDE DEF n
<1>3. \A k \in 1..(n + 1) : penalties'[k].paid \in Nat /\ penalties'[k].amount \in Nat
  <2>1. \A k \in 1..(n + 1) : k \in 1..n \/ k = n + 1
    BY <1>1
  <2> QED
    BY <1>1, <1>2, <2>1
<1>4. PenaltyPaid' = PenaltyPaid /\ PenaltyPaid \in Nat
  <2> DEFINE f == [k \in 1..n |-> penalties[k].paid]
             g == [k \in 1..(n + 1) |-> penalties'[k].paid]
  <2>1. /\ f \in [1..n -> Nat] /\ f \in [1..n -> Int] /\ g \in [1..(n + 1) -> Int]
        /\ g[n + 1] = 0 /\ \A k \in 1..n : f[k] = g[k]
    BY <1>1, <1>3
  <2>2. PenaltyPaid = Total(n, f) /\ PenaltyPaid' = Total(n + 1, g)
    BY <1>1 DEF PenaltyPaid, n
  <2> HIDE DEF f, g
  <2>3. Total(n + 1, g) = Total(n, f) + g[n + 1]
    BY <1>1, <2>1, TotalAppend
  <2>4. Total(n, f) \in Nat
    BY <1>1, <2>1, TotalNonNegative
  <2> QED
    BY <2>1, <2>2, <2>3, <2>4
<1>5. PenaltyCharged' = PenaltyCharged + row.amount /\ PenaltyCharged \in Int
  <2> DEFINE f == [k \in 1..n |-> penalties[k].amount]
             g == [k \in 1..(n + 1) |-> penalties'[k].amount]
  <2>1. /\ f \in [1..n -> Int] /\ g \in [1..(n + 1) -> Int]
        /\ g[n + 1] = row.amount /\ \A k \in 1..n : f[k] = g[k]
    BY <1>1, <1>3
  <2>2. PenaltyCharged = Total(n, f) /\ PenaltyCharged' = Total(n + 1, g)
    BY <1>1 DEF PenaltyCharged, n
  <2> HIDE DEF f, g
  <2>3. Total(n + 1, g) = Total(n, f) + g[n + 1]
    BY <1>1, <2>1, TotalAppend
  <2>4. Total(n, f) \in Int
    BY <1>1, <2>1, TotalType
  <2> QED
    BY <2>1, <2>2, <2>3, <2>4
<1>6. ASSUME NEW i \in Installments
      PROVE  PenaltyPaidOn(i)' = PenaltyPaidOn(i)
  <2> DEFINE f == [k \in 1..n |-> IF penalties[k].installment = i THEN penalties[k].paid ELSE 0]
             g == [k \in 1..(n + 1) |->
                     IF penalties'[k].installment = i THEN penalties'[k].paid ELSE 0]
  <2>1. /\ f \in [1..n -> Int] /\ g \in [1..(n + 1) -> Int]
        /\ g[n + 1] = 0 /\ \A k \in 1..n : f[k] = g[k]
    BY <1>1, <1>3
  <2>2. PenaltyPaidOn(i) = Total(n, f) /\ PenaltyPaidOn(i)' = Total(n + 1, g)
    BY <1>1 DEF PenaltyPaidOn, n
  <2> HIDE DEF f, g
  <2>3. Total(n + 1, g) = Total(n, f) + g[n + 1]
    BY <1>1, <2>1, TotalAppend
  <2>4. Total(n, f) \in Int
    BY <1>1, <2>1, TotalType
  <2> QED
    BY <2>1, <2>2, <2>3, <2>4
<1> QED
  BY <1>2, <1>4, <1>5, <1>6

(* No allocation reaches a position beyond the penalties. *)
LEMMA NothingAllocatedYet ==
  ASSUME AccountInv, RowsInv, NEW k, k \notin DOMAIN penalties
  PROVE  AllocatedToPenalty(k) = 0
<1> DEFINE n == Len(collections)
           f == [c \in 1..n |-> IF k \in DOMAIN collections[c].alloc.penalty
                               THEN collections[c].alloc.penalty[k] ELSE 0]
<1>1. n \in Nat /\ DOMAIN collections = 1..n
  BY TablesAreSequences
<1>2. \A c \in 1..n : k \notin DOMAIN collections[c].alloc.penalty
  BY <1>1 DEF RowsInv
<1>3. f \in [1..n -> Int] /\ \A c \in 1..n : f[c] = 0
  BY <1>2
<1>4. AllocatedToPenalty(k) = Total(n, f)
  BY <1>1 DEF AllocatedToPenalty
<1> HIDE DEF n, f
<1> QED
  BY <1>1, <1>3, <1>4, TotalZero

(* A step that moves no paid amount. *)
LEMMA UnmovedSums ==
  ASSUME AccountInv,
         \A i \in Installments :
           /\ installments'[i].principalPaid = installments[i].principalPaid
           /\ installments'[i].interestPaid = installments[i].interestPaid,
         DOMAIN penalties' = DOMAIN penalties, Len(penalties') = Len(penalties),
         \A k \in DOMAIN penalties :
           /\ penalties'[k].paid = penalties[k].paid
           /\ penalties'[k].amount = penalties[k].amount
           /\ penalties'[k].installment = penalties[k].installment
  PROVE  /\ PrincipalOutstanding' = PrincipalOutstanding
         /\ InterestPaid' = InterestPaid
         /\ ScheduleOutstanding(installments)' = ScheduleOutstanding(installments)
         /\ PenaltyPaid' = PenaltyPaid /\ PenaltyCharged' = PenaltyCharged
         /\ \A i \in Installments : PenaltyPaidOn(i)' = PenaltyPaidOn(i)
BY DEF PrincipalOutstanding, InterestPaid, ScheduleOutstanding, PenaltyPaid, PenaltyCharged,
   PenaltyPaidOn

(* Waiving a penalty and settling a loan move no paid amount.  *)
LEMMA WaiverMovesNothing ==
  ASSUME AccountInv, NEW k \in DOMAIN penalties, WaivePenalty(k)
  PROVE  /\ UNCHANGED <<installments, collections, ledger>>
         /\ DOMAIN penalties' = DOMAIN penalties /\ Len(penalties') = Len(penalties)
         /\ \A j \in DOMAIN penalties :
              /\ penalties'[j].paid = penalties[j].paid
              /\ penalties'[j].amount = penalties[j].amount
              /\ penalties'[j].installment = penalties[j].installment
              /\ penalties'[j].isPaid = penalties[j].isPaid
              /\ j # k => penalties'[j].isWaived = penalties[j].isWaived
         /\ penalties'[k].isWaived
<1> DEFINE row == [penalties[k] EXCEPT !.isWaived = TRUE]
<1>1. penalties \in Seq(PenaltyRows) /\ penalties[k] \in PenaltyRows
  BY TablesAreSequences
<1>2. penalties' = [penalties EXCEPT ![k] = row]
      /\ UNCHANGED <<installments, collections, ledger>>
  BY DEF WaivePenalty
<1>3. /\ row.paid = penalties[k].paid /\ row.amount = penalties[k].amount
      /\ row.installment = penalties[k].installment
      /\ row.isPaid = penalties[k].isPaid /\ row.isWaived
  BY <1>1 DEF PenaltyRows
<1> HIDE DEF row
<1>4. DOMAIN penalties' = DOMAIN penalties /\ Len(penalties') = Len(penalties)
  BY <1>1, <1>2
<1>5. /\ penalties'[k] = row
      /\ \A j \in DOMAIN penalties : j # k => penalties'[j] = penalties[j]
  BY <1>1, <1>2
<1> QED
  BY <1>2, <1>3, <1>4, <1>5

LEMMA SettlementMovesNothing ==
  ASSUME AccountInv, NEW n \in DOMAIN quotes, ExecuteForeclosure(n)
  PROVE  /\ \A i \in Installments :
              /\ installments'[i].principalPaid = installments[i].principalPaid
              /\ installments'[i].interestPaid = installments[i].interestPaid
              /\ installments'[i].penaltyPaid = installments[i].penaltyPaid
         /\ DOMAIN penalties' = DOMAIN penalties /\ Len(penalties') = Len(penalties)
         /\ \A k \in DOMAIN penalties :
              /\ penalties'[k].paid = penalties[k].paid
              /\ penalties'[k].amount = penalties[k].amount
              /\ penalties'[k].installment = penalties[k].installment
<1>1. installments \in [Installments -> InstallmentRows] /\ penalties \in Seq(PenaltyRows)
  BY Zenon DEF AccountInv, TypeOK
<1>2. /\ installments' = [i \in Installments |->
           IF installments[i].status \in {"paid", "closed"} THEN installments[i]
           ELSE [installments[i] EXCEPT !.status = "closed"]]
      /\ penalties' = [k \in DOMAIN penalties |->
           IF IsPending(penalties[k]) THEN [penalties[k] EXCEPT !.isPaid = TRUE]
           ELSE penalties[k]]
  BY Zenon DEF ExecuteForeclosure
<1>3. ASSUME NEW i \in Installments
      PROVE  /\ installments'[i].principalPaid = installments[i].principalPaid
             /\ installments'[i].interestPaid = installments[i].interestPaid
             /\ installments'[i].penaltyPaid = installments[i].penaltyPaid
  BY <1>1, <1>2 DEF InstallmentRows
<1>4. ASSUME NEW k \in DOMAIN penalties
      PROVE  /\ penalties'[k].paid = penalties[k].paid
             /\ penalties'[k].amount = penalties[k].amount
             /\ penalties'[k].installment = penalties[k].installment
  <2>1. penalties[k] \in PenaltyRows
    BY <1>1
  <2> QED
    BY <1>2, <2>1 DEF PenaltyRows
<1>5. DOMAIN penalties' = DOMAIN penalties /\ Len(penalties') = Len(penalties)
  <2>1. AccountInv'
    BY ExecuteForeclosurePreserves
  <2>2. penalties' \in Seq(PenaltyRows)
    BY <2>1, Zenon DEF AccountInv, TypeOK
  <2>3. DOMAIN penalties' = DOMAIN penalties
    BY <1>2
  <2> QED
    BY <1>1, <2>2, <2>3
<1> QED
  BY <1>3, <1>4, <1>5

-----------------------------------------------------------------------------
(* The paid amounts, action by action. *)
LEMMA PaidKept ==
  ASSUME PaidInv, UNCHANGED <<installments, penalties, collections>>
  PROVE  PaidInv'
BY DEF PaidInv, PaidIsNetAllocated, StandingFor, Standing, Allocated, AllocatedToPenalty,
   PenaltyPaidOn

LEMMA PaymentKeepsPaid ==
  ASSUME AccountInv, RowsInv, PaidInv, NEW amount \in Amounts, PostCollection(amount)
  PROVE  PaidInv'
<1> DEFINE alloc == Allocate(amount)
           row == [kind |-> "payment", amount |-> amount, status |-> "posted", original |-> 0,
                   alloc |-> alloc, entry |-> CollectionEntry(alloc), receipt |-> "issued"]
<1>0. amount \in Nat /\ TypeOK
  BY BoundAssumption DEF AccountInv
<1>1. collections' = Append(collections, row)
  BY DEF PostCollection
<1>2. /\ MovesInstallments(alloc.principal, alloc.interest)
      /\ MovesPenalties(alloc.penalty)
      /\ Padded(alloc) = alloc.penalty
      /\ \A i \in Installments :
           installments'[i].penaltyPaid = installments[i].penaltyPaid + PenaltyOn(alloc, i)
  BY PaymentMoves
<1>3. alloc.penalty \in [1..Len(penalties) -> Int] /\ alloc.penalty \in Seq(Int)
      /\ DOMAIN alloc.penalty = DOMAIN penalties
  <2>1. alloc.penalty \in [1..Len(penalties) -> Int]
    BY <1>0, AllocateBounds
  <2> QED
    BY <1>0, <2>1, RowTypes, IntervalSequence, Zenon
<1> HIDE DEF alloc
<1>4. row.kind = "payment" /\ row.status = "posted" /\ row.alloc = alloc
  OBVIOUS
<1> HIDE DEF row
<1>5. row \in CollectionRows
  <2>1. collections' \in Seq(CollectionRows)
    BY PostCollectionPreserves, Zenon DEF AccountInv, TypeOK
  <2> QED
    BY <1>1, <2>1, Appended, TablesAreSequences
<1>6. /\ \A s \in Sides, i \in Installments :
           /\ Allocated(s, i)' = Allocated(s, i) + alloc[s][i]
           /\ StandingFor(s, i)' = StandingFor(s, i) + alloc[s][i]
      /\ \A k : AllocatedToPenalty(k)' = AllocatedToPenalty(k) + PenaltyAllocated(alloc, k)
  BY <1>1, <1>4, <1>5, PostedRowAdds
<1>7. \A i \in Installments : PenaltyPaidOn(i)' = PenaltyPaidOn(i) + PenaltyOn(alloc, i)
  <2>1. \A i \in Installments :
          PenaltyPaidOn(i)' = PenaltyPaidOn(i) + OnInstallment(alloc.penalty, i)
    BY <1>2, <1>3, PenaltySums
  <2>2. \A i : OnInstallment(Padded(alloc), i) = PenaltyOn(alloc, i)
    BY <1>3, PaddedSums
  <2> QED
    BY <1>2, <2>1, <2>2
<1>8. ASSUME NEW i \in Installments
      PROVE  /\ installments'[i].principalPaid = StandingFor("principal", i)'
             /\ installments'[i].interestPaid = StandingFor("interest", i)'
             /\ installments'[i].principalPaid = Allocated("principal", i)'
             /\ installments'[i].interestPaid = Allocated("interest", i)'
             /\ installments'[i].penaltyPaid = PenaltyPaidOn(i)'
  BY <1>2, <1>6, <1>7 DEF PaidInv, PaidIsNetAllocated, MovesInstallments, Sides
<1>9. ASSUME NEW k \in DOMAIN penalties'
      PROVE  penalties'[k].paid = AllocatedToPenalty(k)'
  <2>1. k \in DOMAIN penalties /\ penalties'[k].paid = penalties[k].paid + alloc.penalty[k]
    BY <1>2 DEF MovesPenalties
  <2>2. PenaltyAllocated(alloc, k) = alloc.penalty[k]
    BY <1>3, <2>1 DEF PenaltyAllocated
  <2> QED
    BY <1>6, <2>1, <2>2 DEF PaidInv, PaidIsNetAllocated
<1> QED
  BY <1>8, <1>9 DEF PaidInv, PaidIsNetAllocated

LEMMA ReversalKeepsPaid ==
  ASSUME AccountInv, RowsInv, PaidInv, NEW c \in DOMAIN collections, ReverseCollection(c)
  PROVE  PaidInv'
<1> DEFINE alloc == collections[c].alloc
           back == [k \in 1..Len(penalties) |-> - Padded(alloc)[k]]
           backP == [i \in 1..N |-> - alloc.principal[i]]
           backI == [i \in 1..N |-> - alloc.interest[i]]
<1>1. /\ MovesInstallments(backP, backI)
      /\ MovesPenalties(back)
      /\ \A k \in DOMAIN penalties : penalties'[k].paid \in Nat
      /\ \A i \in Installments :
           installments'[i].penaltyPaid
             = AtLeastZero(installments[i].penaltyPaid - PenaltyOn(alloc, i))
  BY ReversalMoves
<1>2. /\ \A s \in Sides, i \in Installments :
           /\ Allocated(s, i)' = Allocated(s, i) - alloc[s][i]
           /\ StandingFor(s, i)' = StandingFor(s, i) - alloc[s][i]
      /\ \A k : AllocatedToPenalty(k)' = AllocatedToPenalty(k) - PenaltyAllocated(alloc, k)
  BY ReversalTakesBack
<1>3. /\ alloc.penalty \in Seq(Int) /\ DOMAIN alloc.penalty \subseteq DOMAIN penalties
      /\ \A i \in Installments : alloc.principal[i] \in Int /\ alloc.interest[i] \in Int
  BY CollectionTypes DEF AccountInv, RowsInv
<1>4. /\ Len(penalties) \in Nat /\ DOMAIN penalties = 1..Len(penalties) /\ Installments = 1..N
      /\ \A k \in DOMAIN penalties : penalties[k].paid \in Nat
      /\ \A i \in Installments : /\ installments[i].principalPaid \in Nat
                                 /\ installments[i].interestPaid \in Nat
                                 /\ installments[i].penaltyPaid \in Nat
  BY RowTypes DEF AccountInv, Installments
<1> HIDE DEF alloc
<1>5. /\ Padded(alloc) \in [1..Len(penalties) -> Int]
      /\ \A i : OnInstallment(Padded(alloc), i) = PenaltyOn(alloc, i)
  BY <1>3, PaddedSums
<1>6. back \in [1..Len(penalties) -> Int]
  BY <1>5
<1>7. ASSUME NEW i \in Installments
      PROVE  /\ PenaltyPaidOn(i)' = PenaltyPaidOn(i) - PenaltyOn(alloc, i)
             /\ PenaltyPaidOn(i)' \in Nat /\ PenaltyOn(alloc, i) \in Int
  <2> DEFINE n == Len(penalties)
             f == [k \in 1..n |-> IF penalties[k].installment = i THEN Padded(alloc)[k] ELSE 0]
             g == [k \in 1..n |-> IF penalties[k].installment = i THEN back[k] ELSE 0]
             after == [k \in 1..n |->
                         IF penalties'[k].installment = i THEN penalties'[k].paid ELSE 0]
  <2>1. PenaltyPaidOn(i)' = PenaltyPaidOn(i) + OnInstallment(back, i)
    BY <1>1, <1>6, PenaltySums
  <2>2. f \in [1..n -> Int] /\ g \in [1..n -> Int] /\ \A k \in 1..n : g[k] = - f[k]
    BY <1>5
  <2>3. OnInstallment(back, i) = Total(n, g) /\ OnInstallment(Padded(alloc), i) = Total(n, f)
    BY DEF OnInstallment
  <2>4. after \in [1..n -> Nat] /\ PenaltyPaidOn(i)' = Total(n, after)
    BY <1>1, <1>4 DEF PenaltyPaidOn, MovesPenalties
  <2> HIDE DEF f, g, after, back
  <2>5. Total(n, g) = - Total(n, f)
    BY <1>4, <2>2, TotalNegated
  <2>6. Total(n, after) \in Nat
    BY <1>4, <2>4, TotalNonNegative
  <2>7. Total(n, f) \in Int
    BY <1>4, <2>2, TotalType
  <2>8. PenaltyPaidOn(i) \in Int
    BY <1>4 DEF PaidInv, PaidIsNetAllocated
  <2> QED
    BY <1>5, <2>1, <2>3, <2>4, <2>5, <2>6, <2>7, <2>8
<1>8. ASSUME NEW i \in Installments
      PROVE  /\ installments'[i].principalPaid = StandingFor("principal", i)'
             /\ installments'[i].interestPaid = StandingFor("interest", i)'
             /\ installments'[i].principalPaid = Allocated("principal", i)'
             /\ installments'[i].interestPaid = Allocated("interest", i)'
             /\ installments'[i].penaltyPaid = PenaltyPaidOn(i)'
  <2>1. /\ installments'[i].principalPaid = installments[i].principalPaid + (- alloc.principal[i])
        /\ installments'[i].interestPaid = installments[i].interestPaid + (- alloc.interest[i])
    BY <1>1, <1>4 DEF MovesInstallments
  <2>2. /\ installments[i].principalPaid = StandingFor("principal", i)
        /\ installments[i].interestPaid = StandingFor("interest", i)
        /\ installments[i].principalPaid = Allocated("principal", i)
        /\ installments[i].interestPaid = Allocated("interest", i)
        /\ installments[i].penaltyPaid = PenaltyPaidOn(i)
    BY DEF PaidInv, PaidIsNetAllocated
  <2>3. /\ Allocated("principal", i)' = Allocated("principal", i) - alloc.principal[i]
        /\ StandingFor("principal", i)' = StandingFor("principal", i) - alloc.principal[i]
        /\ Allocated("interest", i)' = Allocated("interest", i) - alloc.interest[i]
        /\ StandingFor("interest", i)' = StandingFor("interest", i) - alloc.interest[i]
    BY <1>2 DEF Sides
  <2>4. installments'[i].penaltyPaid = PenaltyPaidOn(i)'
    BY <1>1, <1>4, <1>7, <2>2 DEF AtLeastZero
  <2> QED
    BY <1>3, <1>4, <2>1, <2>2, <2>3, <2>4
<1>9. ASSUME NEW k \in DOMAIN penalties'
      PROVE  penalties'[k].paid = AllocatedToPenalty(k)'
  <2>1. k \in DOMAIN penalties /\ penalties'[k].paid = penalties[k].paid + back[k]
    BY <1>1 DEF MovesPenalties
  <2>2. back[k] = - PenaltyAllocated(alloc, k) /\ PenaltyAllocated(alloc, k) \in Int
    BY <1>4, <1>5, <2>1 DEF Padded
  <2>3. AllocatedToPenalty(k)' = AllocatedToPenalty(k) - PenaltyAllocated(alloc, k)
    BY <1>2
  <2>4. penalties[k].paid = AllocatedToPenalty(k) /\ penalties[k].paid \in Nat
    BY <1>4, <2>1 DEF PaidInv, PaidIsNetAllocated
  <2> HIDE DEF back
  <2> QED
    BY <2>1, <2>2, <2>3, <2>4
<1> QED
  BY <1>8, <1>9 DEF PaidInv, PaidIsNetAllocated

LEMMA PenaltyKeepsPaid ==
  ASSUME AccountInv, RowsInv, PaidInv, NEW i \in Installments, NEW period \in 1..Periods,
         NEW reference \in 0..MaxDay, PostPenalty(i, period, reference)
  PROVE  PaidInv'
<1>1. PICK row : penalties' = Append(penalties, row) /\ row.paid = 0
  BY DEF PostPenalty
<1>2. UNCHANGED <<installments, collections>>
  BY DEF PostPenalty
<1>3. row \in PenaltyRows
  <2>1. penalties' \in Seq(PenaltyRows)
    BY PostPenaltyPreserves, Zenon DEF AccountInv, TypeOK
  <2> QED
    BY <1>1, <2>1, Appended, TablesAreSequences
<1>4. \A j \in Installments : PenaltyPaidOn(j)' = PenaltyPaidOn(j)
  BY <1>1, <1>3, PenaltyAdds
<1>5. \A k : AllocatedToPenalty(k)' = AllocatedToPenalty(k)
  BY <1>2 DEF AllocatedToPenalty
<1>6. ASSUME NEW k \in DOMAIN penalties'
      PROVE  penalties'[k].paid = AllocatedToPenalty(k)'
  <2>1. \/ k \in DOMAIN penalties /\ penalties'[k] = penalties[k]
        \/ k \notin DOMAIN penalties /\ penalties'[k] = row
    BY <1>1, Appended, TablesAreSequences
  <2>2. CASE k \in DOMAIN penalties
    BY <1>5, <2>1, <2>2 DEF PaidInv, PaidIsNetAllocated
  <2>3. CASE k \notin DOMAIN penalties
    BY <1>1, <1>5, <2>1, <2>3, NothingAllocatedYet
  <2> QED
    BY <2>2, <2>3
<1> QED
  BY <1>2, <1>4, <1>6 DEF PaidInv, PaidIsNetAllocated, StandingFor, Standing, Allocated

LEMMA WaiverKeepsPaid ==
  ASSUME AccountInv, PaidInv, NEW k \in DOMAIN penalties, WaivePenalty(k)
  PROVE  PaidInv'
<1>1. /\ UNCHANGED <<installments, collections>>
      /\ DOMAIN penalties' = DOMAIN penalties
      /\ \A j \in DOMAIN penalties : penalties'[j].paid = penalties[j].paid
      /\ \A i \in Installments : PenaltyPaidOn(i)' = PenaltyPaidOn(i)
  BY WaiverMovesNothing, UnmovedSums
<1>2. /\ \A j : AllocatedToPenalty(j)' = AllocatedToPenalty(j)
      /\ \A s, i : Allocated(s, i)' = Allocated(s, i) /\ StandingFor(s, i)' = StandingFor(s, i)
  BY <1>1 DEF AllocatedToPenalty, Allocated, StandingFor, Standing
<1> QED
  BY <1>1, <1>2 DEF PaidInv, PaidIsNetAllocated

LEMMA SettlementKeepsPaid ==
  ASSUME AccountInv, PaidInv, NEW n \in DOMAIN quotes, ExecuteForeclosure(n)
  PROVE  PaidInv'
<1> DEFINE row == [kind |-> "settlement", amount |-> quotes[n].settlement, status |-> "posted",
                   original |-> 0, alloc |-> NoAllocation,
                   entry |-> SettlementEntry(quotes[n]), receipt |-> "issued"]
<1>1. /\ \A i \in Installments :
           /\ installments'[i].principalPaid = installments[i].principalPaid
           /\ installments'[i].interestPaid = installments[i].interestPaid
           /\ installments'[i].penaltyPaid = installments[i].penaltyPaid
      /\ DOMAIN penalties' = DOMAIN penalties
      /\ \A j \in DOMAIN penalties : penalties'[j].paid = penalties[j].paid
      /\ \A i \in Installments : PenaltyPaidOn(i)' = PenaltyPaidOn(i)
  BY SettlementMovesNothing, UnmovedSums
<1>2. collections' = Append(collections, row)
  BY DEF ExecuteForeclosure
<1>3. row.kind = "settlement" /\ row.status = "posted" /\ row.alloc = NoAllocation
  OBVIOUS
<1> HIDE DEF row
<1>4. row \in CollectionRows
  <2>1. collections' \in Seq(CollectionRows)
    BY ExecuteForeclosurePreserves, Zenon DEF AccountInv, TypeOK
  <2> QED
    BY <1>2, <2>1, Appended, TablesAreSequences
<1>5. /\ \A s \in Sides, i \in Installments : NoAllocation[s][i] = 0
      /\ \A k : PenaltyAllocated(NoAllocation, k) = 0
  BY DEF NoAllocation, Sides, PenaltyAllocated
<1>6. /\ \A s \in Sides, i \in Installments :
           /\ Allocated(s, i)' = Allocated(s, i) + 0
           /\ StandingFor(s, i)' = StandingFor(s, i) + 0
      /\ \A k : AllocatedToPenalty(k)' = AllocatedToPenalty(k) + 0
  BY <1>2, <1>3, <1>4, <1>5, PostedRowAdds
<1>7. /\ \A i \in Installments : /\ installments[i].principalPaid \in Nat
                                 /\ installments[i].interestPaid \in Nat
      /\ \A k \in DOMAIN penalties : penalties[k].paid \in Nat
  BY RowTypes DEF AccountInv
<1>8. ASSUME NEW i \in Installments
      PROVE  /\ installments'[i].principalPaid = StandingFor("principal", i)'
             /\ installments'[i].interestPaid = StandingFor("interest", i)'
             /\ installments'[i].principalPaid = Allocated("principal", i)'
             /\ installments'[i].interestPaid = Allocated("interest", i)'
             /\ installments'[i].penaltyPaid = PenaltyPaidOn(i)'
  BY <1>1, <1>6, <1>7 DEF PaidInv, PaidIsNetAllocated, Sides
<1>9. \A k \in DOMAIN penalties' : penalties'[k].paid = AllocatedToPenalty(k)'
  BY <1>1, <1>6, <1>7 DEF PaidInv, PaidIsNetAllocated
<1> QED
  BY <1>8, <1>9 DEF PaidInv, PaidIsNetAllocated

LEMMA PaidStep ==
  AccountInv /\ RowsInv /\ PaidInv /\ [Next]_vars => PaidInv'
<1> SUFFICES ASSUME AccountInv, RowsInv, PaidInv, [Next]_vars PROVE PaidInv'
  OBVIOUS
<1>1. CASE \E amount \in Amounts : PostCollection(amount)
  BY <1>1, PaymentKeepsPaid
<1>2. CASE \E c \in DOMAIN collections : ReverseCollection(c)
  BY <1>2, ReversalKeepsPaid
<1>3. CASE \E n \in DOMAIN quotes : ExecuteForeclosure(n)
  BY <1>3, SettlementKeepsPaid
<1>4. CASE \E i \in Installments, period \in 1..Periods, reference \in 0..MaxDay :
             PostPenalty(i, period, reference)
  BY <1>4, PenaltyKeepsPaid
<1>5. CASE \E k \in DOMAIN penalties : WaivePenalty(k)
  BY <1>5, WaiverKeepsPaid
<1>6. CASE UNCHANGED <<installments, penalties, collections>>
  BY <1>6, PaidKept
<1>7. ASSUME \/ Disburse \/ \E rebate \in Rebates : CreateQuote(rebate)
             \/ ReadForQuote \/ AbandonQuote \/ ReadForClose \/ CloseLoan \/ RefuseClose
             \/ Tick \/ UNCHANGED vars
      PROVE  UNCHANGED <<installments, penalties, collections>>
  BY <1>7 DEF Disburse, CreateQuote, ReadForQuote, AbandonQuote, ReadForClose, CloseLoan,
     RefuseClose, Tick, vars
<1> QED
  BY <1>1, <1>2, <1>3, <1>4, <1>5, <1>6, <1>7, Zenon DEF Next

LEMMA InitialSums ==
  ASSUME Init
  PROVE  RowsInv /\ PaidInv
<1>1. /\ installments = [i \in Installments |-> [principalPaid |-> 0, interestPaid |-> 0,
                                                 penaltyPaid |-> 0, status |-> "pending"]]
      /\ penalties = <<>> /\ collections = <<>>
  BY DEF Init
<1>2. /\ Len(collections) = 0 /\ DOMAIN collections = 1..0
      /\ Len(penalties) = 0 /\ DOMAIN penalties = 1..0
      /\ \A k \in 1..0 : FALSE
  BY <1>1
<1>3. ASSUME NEW f \in [1..0 -> Int] PROVE Total(0, f) = 0
  <2>1. 0 \in Nat /\ \A k \in 1..0 : f[k] = 0
    OBVIOUS
  <2> QED
    BY <2>1, TotalZero
<1>4. /\ \A s, i : Allocated(s, i) = 0 /\ StandingFor(s, i) = 0
      /\ \A i : PenaltyPaidOn(i) = 0
  <2>1. ASSUME NEW s, NEW i PROVE Allocated(s, i) = 0 /\ StandingFor(s, i) = 0
    <3>1. /\ [c \in DOMAIN collections |-> collections[c].alloc[s][i]] \in [1..0 -> Int]
          /\ [c \in DOMAIN collections |->
                IF Standing(c) THEN collections[c].alloc[s][i] ELSE 0] \in [1..0 -> Int]
      BY <1>2
    <3> QED
      BY <1>2, <1>3, <3>1, Zenon DEF Allocated, StandingFor
  <2>2. ASSUME NEW i PROVE PenaltyPaidOn(i) = 0
    <3>1. [k \in DOMAIN penalties |->
             IF penalties[k].installment = i THEN penalties[k].paid ELSE 0] \in [1..0 -> Int]
      BY <1>2
    <3> QED
      BY <1>2, <1>3, <3>1, Zenon DEF PenaltyPaidOn
  <2> QED
    BY <2>1, <2>2
<1>5. \A i \in Installments : /\ installments[i].principalPaid = 0
                              /\ installments[i].interestPaid = 0
                              /\ installments[i].penaltyPaid = 0
  BY <1>1
<1>6. RowsInv
  BY <1>2 DEF RowsInv
<1> QED
  BY <1>2, <1>4, <1>5, <1>6 DEF PaidInv, PaidIsNetAllocated

(* The paid amounts of installments and penalties are the net of all         *)
(* allocations ever made, whatever was paid, reversed, waived and settled.   *)
THEOREM PaidIsNetAllocatedAlways ==
  Spec => []PaidIsNetAllocated
<1>1. Init => AccountInv
  BY InitEstablishes
<1>2. Init => RowsInv /\ PaidInv
  BY InitialSums
<1>3. AccountInv /\ [Next]_vars => AccountInv'
  BY StepPreserves
<1>4. AccountInv /\ RowsInv /\ PaidInv /\ [Next]_vars => RowsInv' /\ PaidInv'
  BY RowsStep, PaidStep
<1>5. PaidInv => PaidIsNetAllocated
  BY DEF PaidInv
<1> QED
  BY <1>1, <1>2, <1>3, <1>4, <1>5, PTL DEF Spec

-----------------------------------------------------------------------------
(***************************************************************************)
(* The general ledger.  LedgerTiesToAccounts speaks of disbursed loans: it *)
(* needs that nothing was posted, charged or paid before the disbursement, *)
(* and that no compensating row takes back more than the row it names.     *)
(***************************************************************************)
EarlyInv ==
  loan.status = "approved" =>
    /\ collections = <<>> /\ penalties = <<>> /\ reads.close = "none"
    /\ \A a \in Accounts : ledger[a] = 0
    /\ \A i \in Installments : /\ installments[i].principalPaid = 0
                               /\ installments[i].interestPaid = 0

LedgerTied ==
  /\ ledger["receivable"] - PostedBySettlement("receivable")
       = PrincipalOutstanding + PenaltyCharged
  /\ ledger["interest"] - PostedBySettlement("interest") = - InterestPaid
  /\ ledger["penalty"] - PostedBySettlement("penalty") = - (PenaltyCharged + PenaltyPaid)
  /\ ledger["fee"] = - ProcessingFee
  /\ ledger["discount"] = PostedBySettlement("discount")
  /\ ledger["cash"] - PostedBySettlement("cash")
       = ProcessingFee - PrincipalOutstanding + InterestPaid + PenaltyPaid

LEMMA EntryFields ==
  ASSUME NEW a, NEW b, NEW c, NEW d, NEW e, NEW f
  PROVE  /\ Entry(a, b, c, d, e, f)["cash"] = a
         /\ Entry(a, b, c, d, e, f)["receivable"] = b
         /\ Entry(a, b, c, d, e, f)["interest"] = c
         /\ Entry(a, b, c, d, e, f)["fee"] = d
         /\ Entry(a, b, c, d, e, f)["penalty"] = e
         /\ Entry(a, b, c, d, e, f)["discount"] = f
BY DEF Entry, Accounts

LEMMA LedgerTypes ==
  ASSUME AccountInv
  PROVE  /\ \A a \in Accounts : ledger[a] \in Int /\ PostedBySettlement(a) \in Int
         /\ PrincipalOutstanding \in Int /\ InterestPaid \in Int
         /\ PenaltyPaid \in Nat /\ PenaltyCharged \in Int
<1>1. ledger \in [Accounts -> Int]
  BY Zenon DEF AccountInv, TypeOK
<1>2. ASSUME NEW a \in Accounts PROVE PostedBySettlement(a) \in Int
  <2> DEFINE n == Len(collections)
             f == [c \in 1..n |-> SettledEntry(collections[c], a)]
  <2>1. /\ n \in Nat /\ DOMAIN collections = 1..n
        /\ \A c \in 1..n : collections[c] \in CollectionRows
    BY TablesAreSequences
  <2>2. f \in [1..n -> Int]
    BY <2>1, AmountTypes
  <2>3. PostedBySettlement(a) = Total(n, f)
    BY <2>1 DEF PostedBySettlement, SettledEntry
  <2> HIDE DEF n, f
  <2> QED
    BY <2>1, <2>2, <2>3, TotalType
<1>3. PrincipalOutstanding \in Int
  <2> DEFINE f == [i \in 1..N |-> Principal[i] - installments[i].principalPaid]
  <2>1. f \in [1..N -> Int] /\ N \in Nat
    BY RowTypes, ScheduleAssumption DEF AccountInv, Installments
  <2>2. PrincipalOutstanding = Total(N, f)
    BY DEF PrincipalOutstanding, Installments
  <2> HIDE DEF f
  <2> QED
    BY <2>1, <2>2, TotalType
<1>4. InterestPaid \in Int
  <2> DEFINE f == [i \in 1..N |-> installments[i].interestPaid]
  <2>1. f \in [1..N -> Int] /\ N \in Nat
    BY RowTypes, ScheduleAssumption DEF AccountInv, Installments
  <2>2. InterestPaid = Total(N, f)
    BY DEF InterestPaid, Installments
  <2> HIDE DEF f
  <2> QED
    BY <2>1, <2>2, TotalType
<1>5. PenaltyPaid \in Nat /\ PenaltyCharged \in Int
  <2> DEFINE n == Len(penalties)
             f == [k \in 1..n |-> penalties[k].paid]
             g == [k \in 1..n |-> penalties[k].amount]
  <2>1. n \in Nat /\ f \in [1..n -> Nat] /\ g \in [1..n -> Int]
    BY RowTypes DEF AccountInv
  <2>2. PenaltyPaid = Total(n, f) /\ PenaltyCharged = Total(n, g)
    BY RowTypes DEF AccountInv, PenaltyPaid, PenaltyCharged
  <2> HIDE DEF n, f, g
  <2> QED
    BY <2>1, <2>2, TotalType, TotalNonNegative
<1> QED
  BY <1>1, <1>2, <1>3, <1>4, <1>5

(* A posting keeps the ledger tied when it books what the step moved on the  *)
(* schedule and the penalties, and what it settles besides.                  *)
Books(p, i, x, charged, settled) ==
  /\ p \in Int /\ i \in Int /\ x \in Int /\ charged \in Int
  /\ settled \in [Accounts -> Int] /\ settled["fee"] = 0
  /\ PrincipalOutstanding' = PrincipalOutstanding - p
  /\ InterestPaid' = InterestPaid + i
  /\ PenaltyPaid' = PenaltyPaid + x
  /\ PenaltyCharged' = PenaltyCharged + charged
  /\ \A a \in Accounts : PostedBySettlement(a)' = PostedBySettlement(a) + settled[a]
  /\ \A a \in Accounts :
       ledger'[a] = ledger[a]
         + Entry(p + i + x, charged - p, 0 - i, 0, 0 - (charged + x), 0)[a] + settled[a]

LEMMA PostingKeepsTied ==
  ASSUME AccountInv, LedgerTied, NEW p, NEW i, NEW x, NEW charged, NEW settled,
         Books(p, i, x, charged, settled)
  PROVE  LedgerTied'
<1> USE DEF Books
<1> DEFINE e == Entry(p + i + x, charged - p, 0 - i, 0, 0 - (charged + x), 0)
<1>1. /\ e["cash"] = p + i + x /\ e["receivable"] = charged - p /\ e["interest"] = 0 - i
      /\ e["fee"] = 0 /\ e["penalty"] = 0 - (charged + x) /\ e["discount"] = 0
  BY EntryFields
<1> HIDE DEF e
<1>2. /\ "cash" \in Accounts /\ "receivable" \in Accounts /\ "interest" \in Accounts
      /\ "fee" \in Accounts /\ "penalty" \in Accounts /\ "discount" \in Accounts
  BY DEF Accounts
<1>3. /\ ledger["cash"] \in Int /\ ledger["receivable"] \in Int /\ ledger["interest"] \in Int
      /\ ledger["fee"] \in Int /\ ledger["penalty"] \in Int /\ ledger["discount"] \in Int
      /\ PostedBySettlement("cash") \in Int /\ PostedBySettlement("receivable") \in Int
      /\ PostedBySettlement("interest") \in Int /\ PostedBySettlement("penalty") \in Int
      /\ PostedBySettlement("discount") \in Int
      /\ settled["cash"] \in Int /\ settled["receivable"] \in Int /\ settled["interest"] \in Int
      /\ settled["penalty"] \in Int /\ settled["discount"] \in Int
  BY <1>2, LedgerTypes
<1>4. /\ PrincipalOutstanding \in Int /\ InterestPaid \in Int
      /\ PenaltyPaid \in Int /\ PenaltyCharged \in Int /\ ProcessingFee \in Int
      /\ PrincipalOutstanding' \in Int /\ InterestPaid' \in Int
      /\ PenaltyPaid' \in Int /\ PenaltyCharged' \in Int
  BY LedgerTypes, ProductAssumption
<1>5. /\ ledger'["cash"] = ledger["cash"] + (p + i + x) + settled["cash"]
      /\ ledger'["receivable"] = ledger["receivable"] + (charged - p) + settled["receivable"]
      /\ ledger'["interest"] = ledger["interest"] + (0 - i) + settled["interest"]
      /\ ledger'["fee"] = ledger["fee"]
      /\ ledger'["penalty"] = ledger["penalty"] + (0 - (charged + x)) + settled["penalty"]
      /\ ledger'["discount"] = ledger["discount"] + settled["discount"]
  BY <1>1, <1>2, <1>3 DEF e
<1>6. /\ PostedBySettlement("cash")' = PostedBySettlement("cash") + settled["cash"]
      /\ PostedBySettlement("receivable")'
           = PostedBySettlement("receivable") + settled["receivable"]
      /\ PostedBySettlement("interest")' = PostedBySettlement("interest") + settled["interest"]
      /\ PostedBySettlement("penalty")' = PostedBySettlement("penalty") + settled["penalty"]
      /\ PostedBySettlement("discount")' = PostedBySettlement("discount") + settled["discount"]
  BY <1>2
<1>7. \A l, s, o, c, q, t \in Int :
        l - s = o + c => (l + (q - p) + t) - (s + t) = (o - p) + (c + q)
  OBVIOUS
<1>8. \A l, s, c, n, t \in Int :
        l - s = - (c + n)
          => (l + (0 - (charged + x)) + t) - (s + t) = - ((c + charged) + (n + x))
  OBVIOUS
<1>9. \A l, s, f, o, c, n, t \in Int :
        l - s = f - o + c + n
          => (l + (p + i + x) + t) - (s + t) = f - (o - p) + (c + i) + (n + x)
  OBVIOUS
<1>10. ledger'["receivable"] - PostedBySettlement("receivable")'
         = PrincipalOutstanding' + PenaltyCharged'
  <2> DEFINE l == ledger["receivable"]
             s == PostedBySettlement("receivable")
             t == settled["receivable"]
  <2>1. /\ l \in Int /\ s \in Int /\ t \in Int
        /\ l - s = PrincipalOutstanding + PenaltyCharged
    BY <1>3 DEF LedgerTied
  <2>2. /\ ledger'["receivable"] = l + (charged - p) + t
        /\ PostedBySettlement("receivable")' = s + t
    BY <1>5, <1>6
  <2> HIDE DEF l, s, t
  <2>3. (l + (charged - p) + t) - (s + t)
          = (PrincipalOutstanding - p) + (PenaltyCharged + charged)
    BY <1>4, <1>7, <2>1
  <2> QED
    BY <2>2, <2>3
<1>11. ledger'["interest"] - PostedBySettlement("interest")' = - InterestPaid'
  BY <1>3, <1>4, <1>5, <1>6 DEF LedgerTied
<1>12. ledger'["penalty"] - PostedBySettlement("penalty")'
         = - (PenaltyCharged' + PenaltyPaid')
  <2> DEFINE l == ledger["penalty"]
             s == PostedBySettlement("penalty")
             t == settled["penalty"]
  <2>1. /\ l \in Int /\ s \in Int /\ t \in Int
        /\ l - s = - (PenaltyCharged + PenaltyPaid)
    BY <1>3 DEF LedgerTied
  <2>2. /\ ledger'["penalty"] = l + (0 - (charged + x)) + t
        /\ PostedBySettlement("penalty")' = s + t
    BY <1>5, <1>6
  <2> HIDE DEF l, s, t
  <2>3. (l + (0 - (charged + x)) + t) - (s + t)
          = - ((PenaltyCharged + charged) + (PenaltyPaid + x))
    BY <1>4, <1>8, <2>1
  <2> QED
    BY <2>2, <2>3
<1>13. ledger'["fee"] = - ProcessingFee
  BY <1>5 DEF LedgerTied
<1>14. ledger'["discount"] = PostedBySettlement("discount")'
  BY <1>5, <1>6 DEF LedgerTied
<1>15. ledger'["cash"] - PostedBySettlement("cash")'
         = ProcessingFee - PrincipalOutstanding' + InterestPaid' + PenaltyPaid'
  <2> DEFINE l == ledger["cash"]
             s == PostedBySettlement("cash")
             t == settled["cash"]
  <2>1. /\ l \in Int /\ s \in Int /\ t \in Int
        /\ l - s = ProcessingFee - PrincipalOutstanding + InterestPaid + PenaltyPaid
    BY <1>3 DEF LedgerTied
  <2>2. /\ ledger'["cash"] = l + (p + i + x) + t
        /\ PostedBySettlement("cash")' = s + t
    BY <1>5, <1>6
  <2> HIDE DEF l, s, t
  <2>3. (l + (p + i + x) + t) - (s + t)
          = ProcessingFee - (PrincipalOutstanding - p) + (InterestPaid + i) + (PenaltyPaid + x)
    BY <1>4, <1>9, <2>1
  <2> QED
    BY <2>2, <2>3
<1> QED
  BY <1>10, <1>11, <1>12, <1>13, <1>14, <1>15 DEF LedgerTied

LEMMA LedgerPosted ==
  ASSUME AccountInv, NEW e, Post(e)
  PROVE  \A a \in Accounts : ledger'[a] = ledger[a] + e[a]
BY DEF Post

(* A step that posts nothing and moves nothing. *)
LEMMA TiedKept ==
  ASSUME AccountInv, LedgerTied, UNCHANGED <<collections, ledger>>,
         PrincipalOutstanding' = PrincipalOutstanding, InterestPaid' = InterestPaid,
         PenaltyPaid' = PenaltyPaid, PenaltyCharged' = PenaltyCharged
  PROVE  LedgerTied'
<1>1. \A a : PostedBySettlement(a)' = PostedBySettlement(a)
  BY DEF PostedBySettlement
<1> QED
  BY <1>1 DEF LedgerTied

(* What a row of the collections moves when it is added, or taken back. *)
LEMMA AllocationMoves ==
  ASSUME AccountInv, NEW alloc, alloc.penalty \in Seq(Int),
         DOMAIN alloc.penalty \subseteq DOMAIN penalties,
         alloc.principal \in [1..N -> Int], alloc.interest \in [1..N -> Int],
         MovesInstallments(alloc.principal, alloc.interest), MovesPenalties(Padded(alloc))
  PROVE  /\ PrincipalOutstanding' = PrincipalOutstanding - PrincipalTotal(alloc)
         /\ InterestPaid' = InterestPaid + InterestTotal(alloc)
         /\ PenaltyPaid' = PenaltyPaid + PenaltyTotal(alloc)
         /\ PenaltyCharged' = PenaltyCharged
         /\ ScheduleOutstanding(installments)'
              = ScheduleOutstanding(installments) - PrincipalTotal(alloc) - InterestTotal(alloc)
         /\ PrincipalTotal(alloc) \in Int /\ InterestTotal(alloc) \in Int
         /\ PenaltyTotal(alloc) \in Int
<1>1. /\ Padded(alloc) \in [1..Len(penalties) -> Int]
      /\ Total(Len(penalties), Padded(alloc)) = PenaltyTotal(alloc)
  BY PaddedSums
<1>2. /\ PenaltyPaid' = PenaltyPaid + Total(Len(penalties), Padded(alloc))
      /\ PenaltyCharged' = PenaltyCharged
      /\ Total(Len(penalties), Padded(alloc)) \in Int
  BY <1>1, PenaltySums
<1>3. /\ PrincipalOutstanding' = PrincipalOutstanding - Total(N, alloc.principal)
      /\ InterestPaid' = InterestPaid + Total(N, alloc.interest)
      /\ ScheduleOutstanding(installments)'
           = ScheduleOutstanding(installments) - Total(N, alloc.principal)
               - Total(N, alloc.interest)
      /\ Total(N, alloc.principal) \in Int /\ Total(N, alloc.interest) \in Int
  BY InstallmentSums
<1> QED
  BY <1>1, <1>2, <1>3 DEF PrincipalTotal, InterestTotal

LEMMA PaymentTotals ==
  ASSUME AccountInv, NEW amount \in Amounts, PostCollection(amount)
  PROVE  LET alloc == Allocate(amount)
         IN  /\ PrincipalOutstanding' = PrincipalOutstanding - PrincipalTotal(alloc)
             /\ InterestPaid' = InterestPaid + InterestTotal(alloc)
             /\ PenaltyPaid' = PenaltyPaid + PenaltyTotal(alloc)
             /\ PenaltyCharged' = PenaltyCharged
             /\ ScheduleOutstanding(installments)'
                  = ScheduleOutstanding(installments)
                      - PrincipalTotal(alloc) - InterestTotal(alloc)
             /\ PrincipalTotal(alloc) \in Int /\ InterestTotal(alloc) \in Int
             /\ PenaltyTotal(alloc) \in Int
<1> DEFINE alloc == Allocate(amount)
<1>1. amount \in Nat /\ TypeOK
  BY BoundAssumption DEF AccountInv
<1>2. /\ MovesInstallments(alloc.principal, alloc.interest)
      /\ MovesPenalties(alloc.penalty) /\ Padded(alloc) = alloc.penalty
  BY PaymentMoves
<1>3. /\ alloc.penalty \in [1..Len(penalties) -> Int]
      /\ alloc.principal \in [1..N -> Int] /\ alloc.interest \in [1..N -> Int]
  BY <1>1, AllocateBounds
<1> HIDE DEF alloc
<1>4. alloc.penalty \in Seq(Int) /\ DOMAIN alloc.penalty = DOMAIN penalties
  BY <1>1, <1>3, RowTypes, IntervalSequence
<1>5. MovesPenalties(Padded(alloc))
  BY <1>2
<1> QED
  BY <1>2, <1>3, <1>4, <1>5, AllocationMoves DEF alloc

LEMMA ReversalTotals ==
  ASSUME AccountInv, RowsInv, PaidInv, NEW c \in DOMAIN collections, ReverseCollection(c)
  PROVE  LET alloc == collections[c].alloc
         IN  /\ PrincipalOutstanding' = PrincipalOutstanding + PrincipalTotal(alloc)
             /\ InterestPaid' = InterestPaid - InterestTotal(alloc)
             /\ PenaltyPaid' = PenaltyPaid - PenaltyTotal(alloc)
             /\ PenaltyCharged' = PenaltyCharged
             /\ PrincipalTotal(alloc) \in Int /\ InterestTotal(alloc) \in Int
             /\ PenaltyTotal(alloc) \in Int
<1> DEFINE alloc == collections[c].alloc
           n == Len(penalties)
           backX == [k \in 1..n |-> - Padded(alloc)[k]]
           backP == [i \in 1..N |-> - alloc.principal[i]]
           backI == [i \in 1..N |-> - alloc.interest[i]]
<1>1. MovesInstallments(backP, backI) /\ MovesPenalties(backX)
  BY ReversalMoves
<1>2. /\ alloc.penalty \in Seq(Int) /\ DOMAIN alloc.penalty \subseteq DOMAIN penalties
      /\ alloc.principal \in [1..N -> Int] /\ alloc.interest \in [1..N -> Int]
  BY CollectionTypes DEF AccountInv, RowsInv, Installments
<1>2a. \A i \in 1..N : alloc.principal[i] \in Int /\ alloc.interest[i] \in Int
  BY <1>2
<1> HIDE DEF alloc
<1>3. /\ Padded(alloc) \in [1..n -> Int]
      /\ Total(n, Padded(alloc)) = PenaltyTotal(alloc)
  BY <1>2, PaddedSums
<1>4. n \in Nat /\ N \in Nat
  BY RowTypes, ScheduleAssumption DEF AccountInv
<1> HIDE DEF n
<1>5. /\ backX \in [1..n -> Int] /\ \A k \in 1..n : backX[k] = - Padded(alloc)[k]
      /\ backP \in [1..N -> Int] /\ \A i \in 1..N : backP[i] = - alloc.principal[i]
      /\ backI \in [1..N -> Int] /\ \A i \in 1..N : backI[i] = - alloc.interest[i]
  <2>1. backX \in [1..n -> Int] /\ \A k \in 1..n : backX[k] = - Padded(alloc)[k]
    BY <1>3
  <2>2. backP \in [1..N -> Int] /\ \A i \in 1..N : backP[i] = - alloc.principal[i]
    BY <1>2a
  <2>3. backI \in [1..N -> Int] /\ \A i \in 1..N : backI[i] = - alloc.interest[i]
    BY <1>2a
  <2> QED
    BY <2>1, <2>2, <2>3
<1> HIDE DEF backX, backP, backI
<1>6. /\ PenaltyPaid' = PenaltyPaid + Total(n, backX) /\ PenaltyCharged' = PenaltyCharged
  BY <1>1, <1>5, PenaltySums DEF n
<1>7. /\ PrincipalOutstanding' = PrincipalOutstanding - Total(N, backP)
      /\ InterestPaid' = InterestPaid + Total(N, backI)
  BY <1>1, <1>5, InstallmentSums
<1>8. /\ Total(n, backX) = - Total(n, Padded(alloc))
      /\ Total(N, backP) = - Total(N, alloc.principal)
      /\ Total(N, backI) = - Total(N, alloc.interest)
  BY <1>2, <1>3, <1>4, <1>5, TotalNegated
<1>9. /\ Total(n, Padded(alloc)) \in Int /\ Total(N, alloc.principal) \in Int
      /\ Total(N, alloc.interest) \in Int
  BY <1>2, <1>3, <1>4, TotalType
<1>10. PrincipalOutstanding \in Int /\ InterestPaid \in Int /\ PenaltyPaid \in Int
  BY LedgerTypes
<1>11. PrincipalTotal(alloc) = Total(N, alloc.principal)
       /\ InterestTotal(alloc) = Total(N, alloc.interest)
  BY DEF PrincipalTotal, InterestTotal
<1>12. /\ PrincipalOutstanding' = PrincipalOutstanding + PrincipalTotal(alloc)
       /\ InterestPaid' = InterestPaid - InterestTotal(alloc)
       /\ PenaltyPaid' = PenaltyPaid - PenaltyTotal(alloc)
  BY <1>3, <1>6, <1>7, <1>8, <1>9, <1>10, <1>11
<1> QED
  BY <1>3, <1>6, <1>9, <1>11, <1>12 DEF alloc

(* Each handler that posts keeps the ledger tied. *)
LEMMA PaymentKeepsTied ==
  ASSUME AccountInv, LedgerTied, NEW amount \in Amounts, PostCollection(amount)
  PROVE  LedgerTied'
<1> DEFINE alloc == Allocate(amount)
           row == [kind |-> "payment", amount |-> amount, status |-> "posted", original |-> 0,
                   alloc |-> alloc, entry |-> CollectionEntry(alloc), receipt |-> "issued"]
           p == PrincipalTotal(alloc)
           i == InterestTotal(alloc)
           x == PenaltyTotal(alloc)
           none == [a \in Accounts |-> 0]
<1>1. collections' = Append(collections, row) /\ Post(CollectionEntry(alloc))
  BY DEF PostCollection
<1>2. /\ PrincipalOutstanding' = PrincipalOutstanding - p
      /\ InterestPaid' = InterestPaid + i /\ PenaltyPaid' = PenaltyPaid + x
      /\ PenaltyCharged' = PenaltyCharged
      /\ p \in Int /\ i \in Int /\ x \in Int
  BY PaymentTotals
<1> HIDE DEF alloc
<1>3. CollectionEntry(alloc) = Entry(p + i + x, - p, - i, 0, - x, 0)
  BY DEF CollectionEntry
<1>4. row.kind = "payment" /\ row.status = "posted"
  OBVIOUS
<1> HIDE DEF row
<1>5. row \in CollectionRows
  <2>1. collections' \in Seq(CollectionRows)
    BY PostCollectionPreserves, Zenon DEF AccountInv, TypeOK
  <2> QED
    BY <1>1, <2>1, Appended, TablesAreSequences
<1>6. \A a \in Accounts : PostedBySettlement(a)' = PostedBySettlement(a) + 0
  BY <1>1, <1>4, <1>5, PostedRowAdds DEF SettledEntry
<1> HIDE DEF p, i, x
<1>7. - p = 0 - p /\ - i = 0 - i /\ - x = 0 - (0 + x)
  BY <1>2
<1>8. CollectionEntry(alloc) = Entry(p + i + x, 0 - p, 0 - i, 0, 0 - (0 + x), 0)
  BY <1>3, <1>7
<1>9. \A a \in Accounts :
        ledger'[a] = ledger[a] + Entry(p + i + x, 0 - p, 0 - i, 0, 0 - (0 + x), 0)[a] + none[a]
  <2>1. Entry(p + i + x, 0 - p, 0 - i, 0, 0 - (0 + x), 0) \in [Accounts -> Int]
    <3>1. p + i + x \in Int /\ 0 - p \in Int /\ 0 - i \in Int /\ 0 - (0 + x) \in Int /\ 0 \in Int
      BY <1>2
    <3> QED
      BY <3>1, EntryType, Zenon
  <2> HIDE DEF none
  <2>2. \A a \in Accounts : ledger'[a] = ledger[a] + CollectionEntry(alloc)[a]
    BY <1>1, LedgerPosted
  <2>3. \A a \in Accounts : none[a] = 0
    BY DEF none
  <2>4. \A a \in Accounts : ledger[a] \in Int
    BY LedgerTypes
  <2> QED
    BY <1>8, <2>1, <2>2, <2>3, <2>4
<1>10. /\ none \in [Accounts -> Int] /\ none["fee"] = 0
       /\ \A a \in Accounts : PostedBySettlement(a)' = PostedBySettlement(a) + none[a]
  BY <1>6 DEF Accounts
<1>11. PenaltyCharged' = PenaltyCharged + 0
  BY <1>2, LedgerTypes
<1> HIDE DEF none
<1>12. Books(p, i, x, 0, none)
  BY <1>2, <1>9, <1>10, <1>11 DEF Books
<1> QED
  BY <1>12, PostingKeepsTied

LEMMA PenaltyKeepsTied ==
  ASSUME AccountInv, LedgerTied, NEW i \in Installments, NEW period \in 1..Periods,
         NEW reference \in 0..MaxDay, PostPenalty(i, period, reference)
  PROVE  LedgerTied'
<1> DEFINE none == [a \in Accounts |-> 0]
<1>1. PICK row : /\ penalties' = Append(penalties, row) /\ row.paid = 0
                 /\ Post(Entry(0, row.amount, 0, 0, - row.amount, 0))
  BY DEF PostPenalty
<1>2. UNCHANGED <<installments, collections>>
  BY DEF PostPenalty
<1>3. row \in PenaltyRows
  <2>1. penalties' \in Seq(PenaltyRows)
    BY PostPenaltyPreserves, Zenon DEF AccountInv, TypeOK
  <2> QED
    BY <1>1, <2>1, Appended, TablesAreSequences
<1> DEFINE q == row.amount
<1>4. /\ PenaltyPaid' = PenaltyPaid /\ PenaltyCharged' = PenaltyCharged + q
      /\ q \in Int
  BY <1>1, <1>3, PenaltyAdds
<1>5. Post(Entry(0, q, 0, 0, - q, 0))
  BY <1>1
<1> HIDE DEF q
<1>6. /\ PrincipalOutstanding' = PrincipalOutstanding /\ InterestPaid' = InterestPaid
      /\ \A a \in Accounts : PostedBySettlement(a)' = PostedBySettlement(a)
  BY <1>2 DEF PrincipalOutstanding, InterestPaid, PostedBySettlement
<1>7. /\ PrincipalOutstanding' = PrincipalOutstanding - 0
      /\ InterestPaid' = InterestPaid + 0 /\ PenaltyPaid' = PenaltyPaid + 0
  BY <1>4, <1>6, LedgerTypes
<1>8. /\ none \in [Accounts -> Int] /\ none["fee"] = 0 /\ \A a \in Accounts : none[a] = 0
  BY DEF Accounts
<1> HIDE DEF none
<1>9. \A a \in Accounts : PostedBySettlement(a)' = PostedBySettlement(a) + none[a]
  BY <1>6, <1>8, LedgerTypes
<1>10. \A a \in Accounts :
         ledger'[a] = ledger[a] + Entry(0 + 0 + 0, q - 0, 0 - 0, 0, 0 - (q + 0), 0)[a] + none[a]
  <2>1. Entry(0, q, 0, 0, - q, 0) \in [Accounts -> Int]
    <3>1. - q \in Int /\ 0 \in Int
      BY <1>4
    <3> QED
      BY <1>4, <3>1, EntryType, Zenon
  <2>2. \A a \in Accounts : ledger'[a] = ledger[a] + Entry(0, q, 0, 0, - q, 0)[a]
    BY <1>5, LedgerPosted
  <2>3. Entry(0 + 0 + 0, q - 0, 0 - 0, 0, 0 - (q + 0), 0) = Entry(0, q, 0, 0, - q, 0)
    <3>1. 0 + 0 + 0 = 0
      OBVIOUS
    <3>2. q - 0 = q
      BY <1>4
    <3>3. 0 - (q + 0) = - q
      BY <1>4
    <3>4. 0 - 0 = 0
      OBVIOUS
    <3> QED
      BY <3>1, <3>2, <3>3, <3>4
  <2>4. \A a \in Accounts : ledger[a] \in Int
    BY LedgerTypes
  <2> QED
    BY <1>8, <2>1, <2>2, <2>3, <2>4
<1>11. Books(0, 0, 0, q, none)
  BY <1>4, <1>7, <1>8, <1>9, <1>10 DEF Books
<1> QED
  BY <1>11, PostingKeepsTied

LEMMA EntryNegated ==
  ASSUME NEW p \in Int, NEW i \in Int, NEW x \in Int, NEW a \in Accounts
  PROVE  Entry((0 - p) + (0 - i) + (0 - x), 0 - (0 - p), 0 - (0 - i), 0, 0 - (0 + (0 - x)), 0)[a]
           + Entry(p + i + x, - p, - i, 0, - x, 0)[a] = 0
<1> DEFINE e == Entry((0 - p) + (0 - i) + (0 - x), 0 - (0 - p), 0 - (0 - i), 0,
                      0 - (0 + (0 - x)), 0)
           f == Entry(p + i + x, - p, - i, 0, - x, 0)
<1>1. /\ e["cash"] = (0 - p) + (0 - i) + (0 - x) /\ e["receivable"] = 0 - (0 - p)
      /\ e["interest"] = 0 - (0 - i) /\ e["fee"] = 0 /\ e["penalty"] = 0 - (0 + (0 - x))
      /\ e["discount"] = 0
  BY EntryFields
<1>2. /\ f["cash"] = p + i + x /\ f["receivable"] = - p /\ f["interest"] = - i
      /\ f["fee"] = 0 /\ f["penalty"] = - x /\ f["discount"] = 0
  BY EntryFields
<1> HIDE DEF e, f
<1>3. /\ e["cash"] + f["cash"] = 0 /\ e["receivable"] + f["receivable"] = 0
      /\ e["interest"] + f["interest"] = 0 /\ e["penalty"] + f["penalty"] = 0
      /\ e["fee"] + f["fee"] = 0 /\ e["discount"] + f["discount"] = 0
  <2>1. e["cash"] + f["cash"] = 0
    BY <1>1, <1>2
  <2>2. e["receivable"] + f["receivable"] = 0
    BY <1>1, <1>2
  <2>3. e["interest"] + f["interest"] = 0
    BY <1>1, <1>2
  <2>4. e["penalty"] + f["penalty"] = 0
    BY <1>1, <1>2
  <2>5. e["fee"] + f["fee"] = 0
    BY <1>1, <1>2
  <2>6. e["discount"] + f["discount"] = 0
    BY <1>1, <1>2
  <2> QED
    BY <2>1, <2>2, <2>3, <2>4, <2>5, <2>6
<1>4. e[a] + f[a] = 0
  BY <1>3 DEF Accounts
<1> QED
  BY <1>4 DEF e, f

LEMMA ZeroEntry ==
  ASSUME NEW a \in Accounts
  PROVE  Entry(0 + 0 + 0, 0 - 0, 0 - 0, 0, 0 - (0 + 0), 0)[a] = 0
<1>1. /\ 0 + 0 + 0 = 0 /\ 0 - 0 = 0 /\ 0 - (0 + 0) = 0
  OBVIOUS
<1>2. Entry(0 + 0 + 0, 0 - 0, 0 - 0, 0, 0 - (0 + 0), 0) = Entry(0, 0, 0, 0, 0, 0)
  BY <1>1
<1>3. Entry(0, 0, 0, 0, 0, 0)[a] = 0
  BY EntryFields DEF Accounts
<1> QED
  BY <1>2, <1>3

LEMMA SettlementKeepsTied ==
  ASSUME AccountInv, LedgerTied, NEW n \in DOMAIN quotes, ExecuteForeclosure(n)
  PROVE  LedgerTied'
<1> DEFINE entry == SettlementEntry(quotes[n])
           row == [kind |-> "settlement", amount |-> quotes[n].settlement, status |-> "posted",
                   original |-> 0, alloc |-> NoAllocation, entry |-> entry,
                   receipt |-> "issued"]
<1>1. collections' = Append(collections, row) /\ Post(entry)
  BY DEF ExecuteForeclosure
<1>2. entry["fee"] = 0
  BY EntryFields DEF SettlementEntry
<1> HIDE DEF entry
<1>3. row.kind = "settlement" /\ row.status = "posted" /\ row.entry = entry
  OBVIOUS
<1> HIDE DEF row
<1>4. row \in CollectionRows
  <2>1. collections' \in Seq(CollectionRows)
    BY ExecuteForeclosurePreserves, Zenon DEF AccountInv, TypeOK
  <2> QED
    BY <1>1, <2>1, Appended, TablesAreSequences
<1>5. entry \in [Accounts -> Int]
  BY <1>3, <1>4 DEF CollectionRows
<1>6. \A a \in Accounts : PostedBySettlement(a)' = PostedBySettlement(a) + entry[a]
  BY <1>1, <1>3, <1>4, PostedRowAdds DEF SettledEntry
<1>7. /\ PrincipalOutstanding' = PrincipalOutstanding /\ InterestPaid' = InterestPaid
      /\ PenaltyPaid' = PenaltyPaid /\ PenaltyCharged' = PenaltyCharged
  BY SettlementMovesNothing, UnmovedSums
<1>8. /\ PrincipalOutstanding' = PrincipalOutstanding - 0 /\ InterestPaid' = InterestPaid + 0
      /\ PenaltyPaid' = PenaltyPaid + 0 /\ PenaltyCharged' = PenaltyCharged + 0
  BY <1>7, LedgerTypes
<1>9. \A a \in Accounts :
        ledger'[a] = ledger[a] + Entry(0 + 0 + 0, 0 - 0, 0 - 0, 0, 0 - (0 + 0), 0)[a] + entry[a]
  <2>1. \A a \in Accounts : ledger'[a] = ledger[a] + entry[a]
    BY <1>1, LedgerPosted
  <2>2. \A a \in Accounts : ledger[a] \in Int
    BY LedgerTypes
  <2> QED
    BY <2>1, <2>2, ZeroEntry
<1>10. Books(0, 0, 0, 0, entry)
  BY <1>2, <1>5, <1>6, <1>8, <1>9 DEF Books
<1> QED
  BY <1>10, PostingKeepsTied

LEMMA ReversalKeepsTied ==
  ASSUME AccountInv, RowsInv, PaidInv, LedgerTied,
         NEW c \in DOMAIN collections, ReverseCollection(c)
  PROVE  LedgerTied'
<1> DEFINE alloc == collections[c].alloc
           entry == collections[c].entry
           mirror == [a \in Accounts |-> - entry[a]]
           p == PrincipalTotal(alloc)
           i == InterestTotal(alloc)
           x == PenaltyTotal(alloc)
           none == [a \in Accounts |-> 0]
<1>1. /\ Post(mirror) /\ collections[c].kind # "reversal" /\ collections[c].status = "posted"
      /\ collections[c] \in CollectionRows
  BY TablesAreSequences DEF ReverseCollection, Reversible
<1>2. entry \in [Accounts -> Int] /\ collections[c].kind \in {"payment", "settlement"}
  BY <1>1 DEF CollectionRows
<1>3. /\ PrincipalOutstanding' = PrincipalOutstanding + p
      /\ InterestPaid' = InterestPaid - i /\ PenaltyPaid' = PenaltyPaid - x
      /\ PenaltyCharged' = PenaltyCharged
      /\ p \in Int /\ i \in Int /\ x \in Int
  BY ReversalTotals
<1>4. \A a \in Accounts :
        PostedBySettlement(a)' = PostedBySettlement(a) - SettledEntry(collections[c], a)
  BY ReversalTakesBack
<1>5. \A a \in Accounts : ledger'[a] = ledger[a] + (- entry[a])
  <2>1. \A a \in Accounts : mirror[a] = - entry[a]
    OBVIOUS
  <2> HIDE DEF mirror
  <2> QED
    BY <1>1, <2>1, LedgerPosted
<1>6. /\ none \in [Accounts -> Int] /\ none["fee"] = 0 /\ \A a \in Accounts : none[a] = 0
  BY DEF Accounts
<1> HIDE DEF none, mirror
<1>7. PenaltyCharged' = PenaltyCharged + 0
  BY <1>3, LedgerTypes
<1>8. CASE collections[c].kind = "payment"
  <2>1. entry = Entry(p + i + x, - p, - i, 0, - x, 0)
    BY <1>8 DEF RowsInv, CollectionEntry
  <2>2. \A a \in Accounts : PostedBySettlement(a)' = PostedBySettlement(a) + none[a]
    BY <1>4, <1>6, <1>8, LedgerTypes DEF SettledEntry
  <2> HIDE DEF alloc, entry, p, i, x
  <2>3. \A a \in Accounts :
          ledger'[a] = ledger[a]
            + Entry((0 - p) + (0 - i) + (0 - x), 0 - (0 - p), 0 - (0 - i), 0,
                    0 - (0 + (0 - x)), 0)[a] + none[a]
    <3>1. ASSUME NEW a \in Accounts
          PROVE  ledger'[a] = ledger[a]
                   + Entry((0 - p) + (0 - i) + (0 - x), 0 - (0 - p), 0 - (0 - i), 0,
                           0 - (0 + (0 - x)), 0)[a] + none[a]
      <4> DEFINE e == Entry((0 - p) + (0 - i) + (0 - x), 0 - (0 - p), 0 - (0 - i), 0,
                            0 - (0 + (0 - x)), 0)
      <4>1. e[a] + entry[a] = 0
        BY <1>3, <2>1, EntryNegated
      <4>3. e[a] \in Int
        <5>1. /\ (0 - p) + (0 - i) + (0 - x) \in Int /\ 0 - (0 - p) \in Int
              /\ 0 - (0 - i) \in Int /\ 0 \in Int /\ 0 - (0 + (0 - x)) \in Int
          BY <1>3
        <5>2. e \in [Accounts -> Int]
          BY <5>1, EntryType, Zenon
        <5> QED
          BY <5>2
      <4> HIDE DEF e
      <4>2. ledger[a] \in Int /\ entry[a] \in Int
        BY <1>2, LedgerTypes
      <4>4. ledger'[a] = ledger[a] + e[a] + none[a]
        BY <1>5, <1>6, <4>1, <4>2, <4>3
      <4> QED
        BY <4>4 DEF e
    <3> QED
      BY <3>1
  <2>4. /\ PrincipalOutstanding' = PrincipalOutstanding - (0 - p)
        /\ InterestPaid' = InterestPaid + (0 - i) /\ PenaltyPaid' = PenaltyPaid + (0 - x)
        /\ 0 - p \in Int /\ 0 - i \in Int /\ 0 - x \in Int
    BY <1>3, LedgerTypes
  <2>5. Books(0 - p, 0 - i, 0 - x, 0, none)
    BY <1>6, <1>7, <2>2, <2>3, <2>4 DEF Books
  <2> QED
    BY <2>5, PostingKeepsTied
<1>9. CASE collections[c].kind = "settlement"
  <2> DEFINE back == [a \in Accounts |-> - entry[a]]
  <2>1. alloc = NoAllocation /\ entry["fee"] = 0
    BY <1>9 DEF RowsInv
  <2>2. p = 0 /\ i = 0 /\ x = 0
    <3> DEFINE zero == [j \in 1..N |-> 0]
    <3>1. NoAllocation.principal = zero /\ NoAllocation.interest = zero
          /\ NoAllocation.penalty = <<>>
      BY DEF NoAllocation, Installments
    <3>2. zero \in [1..N -> Int] /\ (\A j \in 1..N : zero[j] = 0) /\ N \in Nat
      BY ScheduleAssumption
    <3>3. /\ <<>> \in [1..0 -> Int] /\ \A k \in 1..0 : <<>>[k] = 0
          /\ Len(<<>>) = 0 /\ 0 \in Nat
      OBVIOUS
    <3> HIDE DEF zero
    <3>4. Total(N, zero) = 0 /\ Total(0, <<>>) = 0
      BY <3>2, <3>3, TotalZero
    <3> QED
      BY <2>1, <3>1, <3>3, <3>4 DEF PrincipalTotal, InterestTotal, PenaltyTotal
  <2> HIDE DEF alloc, entry, p, i, x
  <2>3. /\ back \in [Accounts -> Int] /\ back["fee"] = 0
        /\ \A a \in Accounts : back[a] = - entry[a]
    <3>1. \A a \in Accounts : back[a] = - entry[a]
      OBVIOUS
    <3>2. back["fee"] = 0
      BY <2>1 DEF Accounts
    <3> QED
      BY <1>2, <3>1, <3>2
  <2> HIDE DEF back
  <2>4. \A a \in Accounts : PostedBySettlement(a)' = PostedBySettlement(a) + back[a]
    <3>1. \A a \in Accounts : SettledEntry(collections[c], a) = entry[a]
      BY <1>1, <1>9 DEF SettledEntry, entry
    <3> QED
      BY <1>2, <1>4, <2>3, <3>1, LedgerTypes
  <2>5. \A a \in Accounts :
          ledger'[a] = ledger[a] + Entry(0 + 0 + 0, 0 - 0, 0 - 0, 0, 0 - (0 + 0), 0)[a] + back[a]
    <3>1. \A a \in Accounts : ledger[a] \in Int /\ back[a] \in Int
      BY <2>3, LedgerTypes
    <3> QED
      BY <1>5, <2>3, <3>1, ZeroEntry
  <2>6. /\ PrincipalOutstanding' = PrincipalOutstanding - 0
        /\ InterestPaid' = InterestPaid + 0 /\ PenaltyPaid' = PenaltyPaid + 0
    BY <1>3, <2>2, LedgerTypes
  <2>7. Books(0, 0, 0, 0, back)
    BY <1>7, <2>3, <2>4, <2>5, <2>6 DEF Books
  <2> QED
    BY <2>7, PostingKeepsTied
<1> QED
  BY <1>2, <1>8, <1>9

LEMMA DisbursementTies ==
  ASSUME AccountInv, EarlyInv, Disburse
  PROVE  LedgerTied'
<1>1. /\ Post(Entry(ProcessingFee - TotalPrincipal, TotalPrincipal, 0, - ProcessingFee, 0, 0))
      /\ UNCHANGED <<installments, penalties, collections>>
  BY DEF Disburse
<1>2. /\ collections = <<>> /\ penalties = <<>> /\ \A a \in Accounts : ledger[a] = 0
      /\ \A i \in Installments : /\ installments[i].principalPaid = 0
                                 /\ installments[i].interestPaid = 0
  BY DEF EarlyInv, Disburse
<1>3. \A f \in [1..0 -> Int] : Total(0, f) = 0
  <2>1. ASSUME NEW f \in [1..0 -> Int] PROVE Total(0, f) = 0
    <3>1. 0 \in Nat /\ \A k \in 1..0 : f[k] = 0
      OBVIOUS
    <3> QED
      BY <3>1, TotalZero
  <2> QED
    BY <2>1
<1>4. /\ Len(collections) = 0 /\ DOMAIN collections = 1..0
      /\ Len(penalties) = 0 /\ DOMAIN penalties = 1..0
  BY <1>2
<1>5. \A a : PostedBySettlement(a) = 0
  <2>1. ASSUME NEW a
        PROVE  [c \in DOMAIN collections |->
                  IF collections[c].kind = "settlement" /\ collections[c].status = "posted"
                  THEN collections[c].entry[a] ELSE 0] \in [1..0 -> Int]
    BY <1>4
  <2> QED
    BY <1>3, <1>4, <2>1, Zenon DEF PostedBySettlement
<1>6. PenaltyPaid = 0 /\ PenaltyCharged = 0
  <2>1. /\ [k \in DOMAIN penalties |-> penalties[k].paid] \in [1..0 -> Int]
        /\ [k \in DOMAIN penalties |-> penalties[k].amount] \in [1..0 -> Int]
    BY <1>4
  <2> QED
    BY <1>3, <1>4, <2>1, Zenon DEF PenaltyPaid, PenaltyCharged
<1>7. InterestPaid = 0
  <2> DEFINE f == [i \in 1..N |-> installments[i].interestPaid]
  <2>1. f \in [1..N -> Int] /\ (\A i \in 1..N : f[i] = 0) /\ N \in Nat
    BY <1>2, ScheduleAssumption DEF Installments
  <2>2. InterestPaid = Total(N, f)
    BY DEF InterestPaid, Installments
  <2> HIDE DEF f
  <2> QED
    BY <2>1, <2>2, TotalZero
<1>8. PrincipalOutstanding = TotalPrincipal
  <2> DEFINE f == [i \in 1..N |-> Principal[i] - installments[i].principalPaid]
  <2>1. \A i \in 1..N : f[i] = Principal[i]
    BY <1>2, ScheduleAssumption DEF Installments
  <2>2. Principal = [i \in 1..N |-> Principal[i]] /\ f = [i \in 1..N |-> f[i]]
    BY ScheduleAssumption DEF Installments
  <2>3. PrincipalOutstanding = Total(N, f)
    BY DEF PrincipalOutstanding, Installments
  <2> HIDE DEF f
  <2> QED
    BY <2>1, <2>2, <2>3 DEF TotalPrincipal
<1>9. \A a \in Accounts :
        ledger'[a] = Entry(ProcessingFee - TotalPrincipal, TotalPrincipal, 0, - ProcessingFee,
                           0, 0)[a]
  <2> DEFINE e == Entry(ProcessingFee - TotalPrincipal, TotalPrincipal, 0, - ProcessingFee,
                        0, 0)
  <2>1. /\ ProcessingFee - TotalPrincipal \in Int /\ TotalPrincipal \in Int /\ 0 \in Int
        /\ - ProcessingFee \in Int
    BY ScheduleTotals, ProductAssumption
  <2>2. e \in [Accounts -> Int]
    BY <2>1, EntryType, Zenon
  <2>3. \A a \in Accounts : ledger'[a] = ledger[a] + e[a]
    BY <1>1, LedgerPosted
  <2> HIDE DEF e
  <2>4. \A a \in Accounts : ledger'[a] = e[a]
    BY <1>2, <2>2, <2>3
  <2> QED
    BY <2>4 DEF e
<1>10. /\ ledger'["cash"] = ProcessingFee - TotalPrincipal
       /\ ledger'["receivable"] = TotalPrincipal /\ ledger'["interest"] = 0
       /\ ledger'["fee"] = - ProcessingFee /\ ledger'["penalty"] = 0 /\ ledger'["discount"] = 0
  BY <1>9, EntryFields DEF Accounts
<1>11. /\ \A a : PostedBySettlement(a)' = 0
       /\ PenaltyPaid' = 0 /\ PenaltyCharged' = 0 /\ InterestPaid' = 0
       /\ PrincipalOutstanding' = TotalPrincipal
  <2>1. /\ \A a : PostedBySettlement(a)' = PostedBySettlement(a)
        /\ PenaltyPaid' = PenaltyPaid /\ PenaltyCharged' = PenaltyCharged
        /\ InterestPaid' = InterestPaid /\ PrincipalOutstanding' = PrincipalOutstanding
    BY <1>1 DEF PostedBySettlement, PenaltyPaid, PenaltyCharged, InterestPaid,
       PrincipalOutstanding
  <2> QED
    BY <1>5, <1>6, <1>7, <1>8, <2>1
<1>12. TotalPrincipal \in Int /\ ProcessingFee \in Int
  BY ScheduleTotals, ProductAssumption
<1>13. /\ TotalPrincipal - 0 = TotalPrincipal + 0
       /\ (ProcessingFee - TotalPrincipal) - 0 = ProcessingFee - TotalPrincipal + 0 + 0
  BY <1>12
<1>14. - InterestPaid' = 0 /\ - (PenaltyCharged' + PenaltyPaid') = 0
  <2>1. \A x \in Int : x <= 0 /\ x >= 0 => - x = 0
    OBVIOUS
  <2>2. InterestPaid' \in Int /\ InterestPaid' <= 0 /\ InterestPaid' >= 0
    BY <1>11
  <2> DEFINE both == PenaltyCharged' + PenaltyPaid'
  <2>3. both \in Int /\ both <= 0 /\ both >= 0
    BY <1>11
  <2> HIDE DEF both
  <2>4. - both = 0
    BY <2>1, <2>3, Zenon
  <2>5. - InterestPaid' = 0
    BY <2>1, <2>2, Zenon
  <2> QED
    BY <2>4, <2>5, Zenon DEF both
<1>15. /\ ledger'["receivable"] - PostedBySettlement("receivable")'
            = PrincipalOutstanding' + PenaltyCharged'
       /\ ledger'["cash"] - PostedBySettlement("cash")'
            = ProcessingFee - PrincipalOutstanding' + InterestPaid' + PenaltyPaid'
  BY <1>10, <1>11, <1>13
<1>16. /\ ledger'["interest"] - PostedBySettlement("interest")' = 0
       /\ ledger'["penalty"] - PostedBySettlement("penalty")' = 0
       /\ ledger'["discount"] = PostedBySettlement("discount")'
  BY <1>10, <1>11
<1> QED
  BY <1>10, <1>14, <1>15, <1>16 DEF LedgerTied

(* Before the disbursement nothing happens to the account. *)
LEMMA EarlySteps ==
  ASSUME AccountInv, EarlyInv, [Next]_vars, loan.status = "approved"
  PROVE  \/ Disburse
         \/ UNCHANGED <<installments, penalties, collections, ledger>>
              /\ loan'.status = "approved" /\ reads'.close = "none"
<1>1. collections = <<>> /\ penalties = <<>> /\ reads.close = "none"
  BY DEF EarlyInv
<1>2. DOMAIN collections = {} /\ DOMAIN penalties = {}
  BY <1>1
<1>3. \A amount \in Amounts : ~ PostCollection(amount)
  BY DEF PostCollection, Live
<1>4. \A i \in Installments, period \in 1..Periods, reference \in 0..MaxDay :
        ~ PostPenalty(i, period, reference)
  BY DEF PostPenalty, Live
<1>5. \A n \in DOMAIN quotes : ~ ExecuteForeclosure(n)
  BY DEF ExecuteForeclosure, Foreclosable, Live
<1>6. ~ ReadForQuote /\ ~ ReadForClose /\ ~ CloseLoan /\ ~ RefuseClose
  BY <1>1 DEF ReadForQuote, ReadForClose, CloseLoan, RefuseClose, Live
<1>7. ASSUME NEW rebate \in Rebates, CreateQuote(rebate)
      PROVE  UNCHANGED <<loan, installments, penalties, collections, ledger>>
               /\ reads'.close = reads.close
  <2>1. reads' = [NoReads EXCEPT !.close = reads.close]
        /\ UNCHANGED <<loan, installments, penalties, collections, ledger>>
    BY <1>7 DEF CreateQuote
  <2> QED
    BY <2>1 DEF NoReads
<1>8. ASSUME AbandonQuote
      PROVE  UNCHANGED <<loan, installments, penalties, collections, ledger>>
               /\ reads'.close = reads.close
  <2>1. reads' = [NoReads EXCEPT !.close = reads.close]
        /\ UNCHANGED <<loan, installments, penalties, collections, ledger>>
    BY <1>8 DEF AbandonQuote
  <2> QED
    BY <2>1 DEF NoReads
<1>9. ASSUME Tick \/ UNCHANGED vars
      PROVE  UNCHANGED <<loan, installments, penalties, collections, ledger, reads>>
  BY <1>9 DEF Tick, vars
<1>10. [Next]_vars => \/ Disburse \/ (\E rebate \in Rebates : CreateQuote(rebate))
                      \/ AbandonQuote \/ Tick \/ UNCHANGED vars
  BY <1>2, <1>3, <1>4, <1>5, <1>6, Zenon DEF Next
<1>11. CASE \E rebate \in Rebates : CreateQuote(rebate)
  BY <1>1, <1>7, <1>11
<1>12. CASE AbandonQuote
  BY <1>1, <1>8, <1>12
<1>13. CASE Tick \/ UNCHANGED vars
  BY <1>1, <1>9, <1>13
<1> QED
  BY <1>10, <1>11, <1>12, <1>13

LEMMA EarlyStep ==
  AccountInv /\ EarlyInv /\ [Next]_vars => EarlyInv'
<1> SUFFICES ASSUME AccountInv, EarlyInv, [Next]_vars, loan'.status = "approved"
             PROVE  EarlyInv'
  BY DEF EarlyInv
<1>1. CASE loan.status = "approved"
  <2>1. CASE Disburse
    BY <2>1 DEF Disburse
  <2>2. CASE ~ Disburse
    <3>1. UNCHANGED <<installments, penalties, collections, ledger>>
            /\ reads'.close = "none"
      BY <1>1, <2>2, EarlySteps
    <3> QED
      BY <1>1, <3>1 DEF EarlyInv
  <2> QED
    BY <2>1, <2>2
<1>2. CASE loan.status # "approved"
  <2>1. loan'.status = loan.status \/ loan'.status \in Live \union Terminal
    <3>1. loan \in [status : {"approved"} \union Live \union Terminal, cached : Nat, dpd : Nat]
      BY Zenon DEF AccountInv, TypeOK
    <3>2. \A insts, out : StatusAfterCollection(insts, out) \in Live \union Terminal
      BY DEF StatusAfterCollection, Live, Terminal
    <3>3. \A dpd : StatusForDpd(dpd) \in Live \union {loan.status}
      BY DEF StatusForDpd, Live
    <3>4. ASSUME NEW amount \in Amounts, PostCollection(amount)
          PROVE  loan'.status \in Live \union Terminal
      BY <3>2, <3>4 DEF PostCollection
    <3>5. ASSUME NEW c \in DOMAIN collections, ReverseCollection(c)
          PROVE  loan'.status = loan.status
      BY <3>1, <3>5 DEF ReverseCollection
    <3>6. ASSUME NEW i \in Installments, NEW period \in 1..Periods,
                 NEW reference \in 0..MaxDay, PostPenalty(i, period, reference)
          PROVE  loan'.status \in Live \union {loan.status}
      BY <3>3, <3>6 DEF PostPenalty
    <3>7. ASSUME NEW k \in DOMAIN penalties, WaivePenalty(k)
          PROVE  loan'.status \in Live \union {loan.status}
      BY <3>3, <3>7 DEF WaivePenalty
    <3>8. ASSUME NEW n \in DOMAIN quotes, ExecuteForeclosure(n)
          PROVE  loan'.status \in Terminal
      BY <3>8 DEF ExecuteForeclosure, Terminal
    <3>9. ASSUME CloseLoan PROVE loan'.status \in Terminal
      BY <3>1, <3>9 DEF CloseLoan, Terminal
    <3>10. ASSUME Disburse PROVE loan'.status \in Live
      BY <3>10 DEF Disburse, Live
    <3>11. ASSUME \/ \E rebate \in Rebates : CreateQuote(rebate)
                  \/ ReadForQuote \/ AbandonQuote \/ ReadForClose \/ RefuseClose \/ Tick
                  \/ UNCHANGED vars
           PROVE  loan' = loan
      BY <3>11 DEF CreateQuote, ReadForQuote, AbandonQuote, ReadForClose, RefuseClose, Tick, vars
    <3> QED
      BY <3>4, <3>5, <3>6, <3>7, <3>8, <3>9, <3>10, <3>11 DEF Next
  <2> QED
    BY <1>2, <2>1 DEF Live, Terminal
<1> QED
  BY <1>1, <1>2

LEMMA LedgerStep ==
  AccountInv /\ RowsInv /\ PaidInv /\ EarlyInv /\ LedgerTiesToAccounts /\ [Next]_vars
    => LedgerTiesToAccounts'
<1> SUFFICES ASSUME AccountInv, RowsInv, PaidInv, EarlyInv, LedgerTiesToAccounts, [Next]_vars,
                    loan'.status # "approved"
             PROVE  LedgerTied'
  BY DEF LedgerTiesToAccounts, LedgerTied
<1>1. CASE loan.status = "approved"
  <2>1. Disburse
    BY <1>1, EarlySteps
  <2> QED
    BY <2>1, DisbursementTies
<1>2. CASE loan.status # "approved"
  <2>1. LedgerTied
    BY <1>2 DEF LedgerTiesToAccounts, LedgerTied
  <2>2. CASE \E amount \in Amounts : PostCollection(amount)
    BY <2>1, <2>2, PaymentKeepsTied
  <2>3. CASE \E c \in DOMAIN collections : ReverseCollection(c)
    BY <2>1, <2>3, ReversalKeepsTied
  <2>4. CASE \E n \in DOMAIN quotes : ExecuteForeclosure(n)
    BY <2>1, <2>4, SettlementKeepsTied
  <2>5. CASE \E i \in Installments, period \in 1..Periods, reference \in 0..MaxDay :
               PostPenalty(i, period, reference)
    BY <2>1, <2>5, PenaltyKeepsTied
  <2>6. CASE \E k \in DOMAIN penalties : WaivePenalty(k)
    <3>1. PICK k \in DOMAIN penalties : WaivePenalty(k)
      BY <2>6
    <3>2. /\ UNCHANGED <<collections, ledger>>
          /\ PrincipalOutstanding' = PrincipalOutstanding /\ InterestPaid' = InterestPaid
          /\ PenaltyPaid' = PenaltyPaid /\ PenaltyCharged' = PenaltyCharged
      BY <3>1, WaiverMovesNothing, UnmovedSums
    <3> QED
      BY <2>1, <3>2, TiedKept
  <2>7. CASE UNCHANGED <<installments, penalties, collections, ledger>>
    <3>1. /\ PrincipalOutstanding' = PrincipalOutstanding /\ InterestPaid' = InterestPaid
          /\ PenaltyPaid' = PenaltyPaid /\ PenaltyCharged' = PenaltyCharged
      BY <2>7 DEF PrincipalOutstanding, InterestPaid, PenaltyPaid, PenaltyCharged
    <3> QED
      BY <2>1, <2>7, <3>1, TiedKept
  <2>8. ASSUME \/ \E rebate \in Rebates : CreateQuote(rebate)
               \/ ReadForQuote \/ AbandonQuote \/ ReadForClose \/ CloseLoan \/ RefuseClose
               \/ Tick \/ UNCHANGED vars
        PROVE  UNCHANGED <<installments, penalties, collections, ledger>>
    BY <2>8 DEF CreateQuote, ReadForQuote, AbandonQuote, ReadForClose, CloseLoan, RefuseClose,
       Tick, vars
  <2>9. ~ Disburse
    BY <1>2 DEF Disburse
  <2> QED
    BY <2>2, <2>3, <2>4, <2>5, <2>6, <2>7, <2>8, <2>9, Zenon DEF Next
<1> QED
  BY <1>1, <1>2

LEMMA InitialLedger ==
  ASSUME Init
  PROVE  EarlyInv /\ LedgerTiesToAccounts
<1>1. /\ loan = [status |-> "approved", cached |-> 0, dpd |-> 0]
      /\ installments = [i \in Installments |-> [principalPaid |-> 0, interestPaid |-> 0,
                                                 penaltyPaid |-> 0, status |-> "pending"]]
      /\ penalties = <<>> /\ collections = <<>> /\ ledger = [a \in Accounts |-> 0]
      /\ reads = NoReads
  BY DEF Init
<1>2. loan.status = "approved" /\ reads.close = "none"
  BY <1>1 DEF NoReads
<1>3. \A i \in Installments : /\ installments[i].principalPaid = 0
                              /\ installments[i].interestPaid = 0
  BY <1>1
<1> QED
  BY <1>1, <1>2, <1>3 DEF EarlyInv, LedgerTiesToAccounts

(* The state of the records of an account, as one inductive invariant. *)
RecordsInv == AccountInv /\ RowsInv /\ PaidInv /\ EarlyInv /\ LedgerTiesToAccounts

LEMMA RecordsStep ==
  RecordsInv /\ [Next]_vars => RecordsInv'
BY StepPreserves, RowsStep, PaidStep, EarlyStep, LedgerStep DEF RecordsInv

LEMMA InitialRecords ==
  Init => RecordsInv
BY InitEstablishes, InitialSums, InitialLedger DEF RecordsInv

(* The general ledger can be derived from the schedule, the penalties and    *)
(* the settlements that stand, account by account: a handler that books one  *)
(* side only, or a reversal that does not mirror its original, would show.   *)
THEOREM LedgerTiesToAccountsAlways ==
  Spec => []LedgerTiesToAccounts
<1>1. Init => RecordsInv
  BY InitialRecords
<1>2. RecordsInv /\ [Next]_vars => RecordsInv'
  BY RecordsStep
<1>3. RecordsInv => LedgerTiesToAccounts
  BY DEF RecordsInv
<1> QED
  BY <1>1, <1>2, <1>3, PTL DEF Spec

-----------------------------------------------------------------------------
(***************************************************************************)
(* What an allocation spends.  The engine takes the penalties period by    *)
(* period, and the three components in the order of the product: whatever  *)
(* that order is, it spends the amount, or it meets every due.             *)
(***************************************************************************)
PenaltyDue(k) == IF IsPending(penalties[k]) THEN penalties[k].amount - penalties[k].paid ELSE 0

LEMMA PenaltyLeftRecursion ==
  ASSUME TypeOK, NEW budget \in Nat
  PROVE  /\ PenaltyLeft(budget)[0] = budget
         /\ \A p \in 1..Periods :
              PenaltyLeft(budget)[p]
                = Leftover(PenaltyLeft(budget)[p - 1], Len(penalties), PenaltyDues(p))
<1> DEFINE left == PenaltyLeft(budget)
<1>1. left = [p \in 0..Periods |->
                IF p = 0 THEN budget
                ELSE Leftover(left[p - 1], Len(penalties), PenaltyDues(p))]
  BY PenaltyLeftExists, Zenon DEF PenaltyLeft
<1> HIDE DEF left
<1>2. 0 \in 0..Periods /\ \A p \in 1..Periods : p \in 0..Periods /\ p # 0
  BY ProductAssumption
<1> QED
  BY <1>1, <1>2 DEF left

LEMMA DuesNotNegative ==
  ASSUME AccountInv
  PROVE  /\ InterestDues \in [1..N -> Nat] /\ PrincipalDues \in [1..N -> Nat]
         /\ \A k \in DOMAIN penalties : PenaltyDue(k) \in Nat
         /\ \A p, k : k \in DOMAIN penalties =>
              PenaltyDues(p)[k] = IF penalties[k].period = p THEN PenaltyDue(k) ELSE 0
         /\ \A p : PenaltyDues(p) \in [1..Len(penalties) -> Nat]
<1>1. TypeOK /\ NeverOverpaid
  BY DEF AccountInv
<1>2. \A i \in 1..N : /\ Interest[i] - installments[i].interestPaid \in Nat
                      /\ Principal[i] - installments[i].principalPaid \in Nat
  <2>1. \A i \in 1..N : /\ Interest[i] \in Nat /\ Principal[i] \in Nat
                        /\ installments[i].interestPaid \in 0..Interest[i]
                        /\ installments[i].principalPaid \in 0..Principal[i]
    BY <1>1, ScheduleAssumption, Zenon DEF NeverOverpaid, Installments
  <2> QED
    BY <2>1
<1>3. InterestDues \in [1..N -> Nat] /\ PrincipalDues \in [1..N -> Nat]
  BY <1>2 DEF InterestDues, PrincipalDues, Installments
<1>4. \A k \in DOMAIN penalties : PenaltyDue(k) \in Nat
  <2>1. \A k \in DOMAIN penalties : penalties[k].amount \in Nat
                                    /\ penalties[k].paid \in 0..penalties[k].amount
    BY <1>1, RowTypes DEF NeverOverpaid
  <2> QED
    BY <2>1 DEF PenaltyDue
<1>5. \A p, k : k \in DOMAIN penalties =>
        PenaltyDues(p)[k] = IF penalties[k].period = p THEN PenaltyDue(k) ELSE 0
  BY DEF PenaltyDues, PenaltyDue
<1>6. ASSUME NEW p PROVE PenaltyDues(p) \in [1..Len(penalties) -> Nat]
  <2>1. DOMAIN penalties = 1..Len(penalties)
    BY <1>1, RowTypes
  <2>2. PenaltyDues(p) = [k \in 1..Len(penalties) |-> PenaltyDues(p)[k]]
    BY <2>1 DEF PenaltyDues
  <2>3. \A k \in 1..Len(penalties) : PenaltyDues(p)[k] \in Nat
    BY <1>4, <1>5, <2>1
  <2> QED
    BY <2>2, <2>3
<1> QED
  BY <1>3, <1>4, <1>5, <1>6

LEMMA PenaltyPass ==
  ASSUME AccountInv, NEW budget \in Nat,
         NEW taken \in [1..Len(penalties) -> Nat],
         \A k \in 1..Len(penalties) :
           taken[k] = Taken(PenaltyLeft(budget)[penalties[k].period - 1], Len(penalties),
                            PenaltyDues(penalties[k].period))[k]
  PROVE  /\ Total(Len(penalties), taken) = budget - PenaltyLeft(budget)[Periods]
         /\ PenaltyLeft(budget)[Periods] \in 0..budget
         /\ PenaltyLeft(budget)[Periods] > 0
              => \A k \in 1..Len(penalties) : taken[k] = PenaltyDue(k)
<1> DEFINE left == PenaltyLeft(budget)
           n == Len(penalties)
           pass(p) == Taken(left[p - 1], n, PenaltyDues(p))
           upTo(m) == [k \in 1..n |-> IF penalties[k].period <= m THEN taken[k] ELSE 0]
           X == {m \in Nat : m <= Periods => Total(n, upTo(m)) = budget - left[m]}
           Y == {m \in Nat : m <= Periods => \A p \in 0..m : left[m] <= left[p]}
<1>0. TypeOK
  BY DEF AccountInv
<1>1. /\ n \in Nat /\ DOMAIN penalties = 1..n /\ Periods \in Nat
      /\ \A k \in 1..n : penalties[k].period \in 1..Periods
  BY <1>0, RowTypes, ProductAssumption
<1>2. /\ left[0] = budget
      /\ \A p \in 1..Periods : left[p] = Leftover(left[p - 1], n, PenaltyDues(p))
  BY <1>0, PenaltyLeftRecursion
<1>3. \A p \in 0..Periods : left[p] \in Nat
  BY <1>0, PenaltyLeftType
<1>4. /\ \A k \in 1..n : PenaltyDue(k) \in Nat
      /\ \A p : \A k \in 1..n :
           PenaltyDues(p)[k] = IF penalties[k].period = p THEN PenaltyDue(k) ELSE 0
      /\ \A p : PenaltyDues(p) \in [1..n -> Nat]
  BY <1>1, DuesNotNegative
<1>5. \A k \in 1..n : taken[k] = pass(penalties[k].period)[k]
  OBVIOUS
<1> HIDE DEF left, n
<1>6. ASSUME NEW p \in 1..Periods
      PROVE  /\ pass(p) \in [1..n -> Int]
             /\ Total(n, pass(p)) = left[p - 1] - left[p]
             /\ left[p] <= left[p - 1]
             /\ left[p] > 0 => \A k \in 1..n : pass(p)[k] = PenaltyDues(p)[k]
             /\ \A k \in 1..n : penalties[k].period # p => pass(p)[k] = 0
  <2>1. p - 1 \in 0..Periods /\ p \in 0..Periods
    BY <1>1
  <2>2. left[p - 1] \in Nat /\ left[p] \in Nat
    BY <1>3, <2>1
  <2>3. /\ PenaltyDues(p) \in [1..n -> Nat] /\ PenaltyDues(p) \in [1..n -> Int]
    BY <1>4
  <2>4. /\ pass(p) \in [1..n -> Nat]
        /\ \A k \in 1..n : pass(p)[k] <= AtLeastZero(PenaltyDues(p)[k])
    BY <1>1, <2>2, <2>3, TakenBounds
  <2>5. /\ Total(n, pass(p)) = left[p - 1] - Leftover(left[p - 1], n, PenaltyDues(p))
        /\ Leftover(left[p - 1], n, PenaltyDues(p)) > 0
             => \A k \in 1..n : pass(p)[k] = PenaltyDues(p)[k]
    BY <1>1, <2>2, <2>3, PassSpends
  <2>6. Leftover(left[p - 1], n, PenaltyDues(p)) \in 0..left[p - 1]
    BY <1>1, <2>2, <2>3, LeftoverBounds
  <2>7. left[p] = Leftover(left[p - 1], n, PenaltyDues(p))
    BY <1>2
  <2>8. \A k \in 1..n : penalties[k].period # p => PenaltyDues(p)[k] = 0
    BY <1>4
  <2>9. ASSUME NEW k \in 1..n, penalties[k].period # p PROVE pass(p)[k] = 0
    <3>1. pass(p)[k] \in Nat /\ pass(p)[k] <= AtLeastZero(0)
      BY <2>4, <2>8, <2>9
    <3> HIDE DEF pass
    <3> QED
      BY <3>1 DEF AtLeastZero
  <2> HIDE DEF pass
  <2>10. pass(p) \in [1..n -> Int]
    BY <2>4
  <2> QED
    BY <2>2, <2>5, <2>6, <2>7, <2>9, <2>10
<1> HIDE DEF pass
<1>7. \A m \in Nat : upTo(m) \in [1..n -> Int]
  <2>1. \A k \in 1..n : taken[k] \in Int
    BY DEF n
  <2> QED
    BY <2>1
<1>8. X = Nat
  <2>1. 0 \in X
    <3>1. \A k \in 1..n : upTo(0)[k] = 0
      BY <1>1
    <3>2. upTo(0) \in [1..n -> Int]
      BY <1>7
    <3> HIDE DEF upTo
    <3>3. Total(n, upTo(0)) = 0
      BY <1>1, <3>1, <3>2, TotalZero
    <3> QED
      BY <1>2, <3>3
  <2>2. ASSUME NEW m \in Nat, m + 1 <= Periods, Total(n, upTo(m)) = budget - left[m]
        PROVE  Total(n, upTo(m + 1)) = budget - left[m + 1]
    <3>1. m + 1 \in 1..Periods /\ (m + 1) - 1 = m /\ m \in 0..Periods /\ m + 1 \in 0..Periods
      BY <1>1, <2>2
    <3>2. /\ pass(m + 1) \in [1..n -> Int]
          /\ Total(n, pass(m + 1)) = left[m] - left[m + 1]
          /\ \A k \in 1..n : penalties[k].period # m + 1 => pass(m + 1)[k] = 0
      BY <1>6, <3>1
    <3>3. ASSUME NEW k \in 1..n
          PROVE  upTo(m + 1)[k] = upTo(m)[k] + pass(m + 1)[k]
      <4>1. taken[k] \in Int /\ penalties[k].period \in Int
        BY <1>1 DEF n
      <4>2. CASE penalties[k].period = m + 1
        <5>1. upTo(m + 1)[k] = taken[k] /\ upTo(m)[k] = 0 /\ taken[k] = pass(m + 1)[k]
          BY <1>5, <4>2
        <5> QED
          BY <4>1, <5>1
      <4>3. CASE penalties[k].period # m + 1
        <5>1. pass(m + 1)[k] = 0
          BY <3>2, <4>3
        <5>2. upTo(m + 1)[k] = upTo(m)[k] /\ upTo(m)[k] \in Int
          BY <4>1, <4>3
        <5> QED
          BY <5>1, <5>2
      <4> QED
        BY <4>2, <4>3
    <3>4. upTo(m) \in [1..n -> Int] /\ upTo(m + 1) \in [1..n -> Int]
      BY <1>7
    <3> HIDE DEF upTo
    <3>5. Total(n, upTo(m + 1)) = Total(n, upTo(m)) + Total(n, pass(m + 1))
      BY <1>1, <3>2, <3>3, <3>4, TotalSum
    <3>6. left[m] \in Int /\ left[m + 1] \in Int
      BY <1>3, <3>1
    <3> QED
      BY <2>2, <3>2, <3>5, <3>6
  <2> HIDE DEF upTo
  <2>3. ASSUME NEW m \in Nat, m \in X PROVE m + 1 \in X
    <3>1. CASE m + 1 <= Periods
      <4>1. Total(n, upTo(m)) = budget - left[m]
        BY <1>1, <2>3, <3>1
      <4>2. Total(n, upTo(m + 1)) = budget - left[m + 1]
        BY <2>2, <3>1, <4>1
      <4> QED
        BY <4>2
    <3>2. CASE ~ m + 1 <= Periods
      BY <3>2
    <3> QED
      BY <3>1, <3>2
  <2> HIDE DEF X
  <2> QED
    BY <2>1, <2>3, SetInduction DEF X
<1>9. Y = Nat
  <2>1. 0 \in Y
    BY <1>2
  <2>2. ASSUME NEW m \in Nat, m + 1 <= Periods, \A p \in 0..m : left[m] <= left[p]
        PROVE  \A p \in 0..(m + 1) : left[m + 1] <= left[p]
    <3>1. m + 1 \in 1..Periods /\ (m + 1) - 1 = m /\ m \in 0..Periods /\ m + 1 \in 0..Periods
      BY <1>1, <2>2
    <3>2. left[m + 1] <= left[m] /\ left[m + 1] \in Nat /\ left[m] \in Nat
      BY <1>3, <1>6, <3>1
    <3>3. ASSUME NEW p \in 0..(m + 1) PROVE left[m + 1] <= left[p]
      <4>1. p = m + 1 \/ p \in 0..m
        BY <3>3
      <4>2. left[p] \in Nat
        BY <1>1, <1>3, <3>1
      <4> QED
        BY <2>2, <3>2, <4>1, <4>2
    <3> QED
      BY <3>3
  <2>3. \A m \in Nat : m \in Y => m + 1 \in Y
    BY <1>1, <2>2
  <2> HIDE DEF Y
  <2> QED
    BY <2>1, <2>3, SetInduction DEF Y
<1>10. Periods \in X /\ Periods \in Y
  BY <1>1, <1>8, <1>9
<1>11. \A p \in 0..Periods : left[Periods] <= left[p]
  BY <1>1, <1>10
<1>12. Total(n, upTo(Periods)) = budget - left[Periods]
  BY <1>1, <1>10
<1>13. upTo(Periods) = taken
  BY <1>1 DEF n
<1>14. left[Periods] \in 0..budget
  <2>1. left[Periods] \in Nat /\ left[Periods] <= left[0]
    BY <1>1, <1>3, <1>11
  <2> QED
    BY <1>2, <2>1
<1>15. ASSUME left[Periods] > 0, NEW k \in 1..n PROVE taken[k] = PenaltyDue(k)
  <2> DEFINE p == penalties[k].period
  <2>1. p \in 1..Periods /\ p \in 0..Periods
    BY <1>1
  <2>2. left[p] > 0
    BY <1>3, <1>11, <1>14, <1>15, <2>1
  <2>3. pass(p)[k] = PenaltyDues(p)[k]
    BY <1>6, <2>1, <2>2
  <2>4. PenaltyDues(p)[k] = PenaltyDue(k)
    BY <1>4
  <2> QED
    BY <1>5, <2>3, <2>4
<1> HIDE DEF upTo
<1> QED
  BY <1>12, <1>13, <1>14, <1>15 DEF left, n

LEMMA OrderIsPermutation ==
  /\ Order[1] \in Components /\ Order[2] \in Components /\ Order[3] \in Components
  /\ Order[1] # Order[2] /\ Order[1] # Order[3] /\ Order[2] # Order[3]
<1>1. Order \in [1..3 -> Components] /\ \A c \in Components : \E j \in 1..3 : Order[j] = c
  BY ProductAssumption
<1>2. Order[1] \in Components /\ Order[2] \in Components /\ Order[3] \in Components
  BY <1>1
<1>3. \A c \in Components : c = Order[1] \/ c = Order[2] \/ c = Order[3]
  <2>1. \A j \in 1..3 : j = 1 \/ j = 2 \/ j = 3
    OBVIOUS
  <2> QED
    BY <1>1, <2>1
<1>4. /\ "penalty" = Order[1] \/ "penalty" = Order[2] \/ "penalty" = Order[3]
      /\ "interest" = Order[1] \/ "interest" = Order[2] \/ "interest" = Order[3]
      /\ "principal" = Order[1] \/ "principal" = Order[2] \/ "principal" = Order[3]
  BY <1>3 DEF Components
<1> QED
  BY <1>2, <1>4

(* One pass over the installments spends what it does not leave, and leaves
   something only when every installment got what it was due. *)
LEMMA PassMeetsDues ==
  ASSUME N \in Nat, NEW b \in Nat, NEW due \in [1..N -> Nat], NEW taken \in [1..N -> Nat],
         taken = Taken(b, N, due)
  PROVE  /\ Total(N, taken) = b - Leftover(b, N, due)
         /\ Leftover(b, N, due) \in 0..b
         /\ Leftover(b, N, due) > 0 => taken = due
<1>1. /\ Total(N, taken) = b - Leftover(b, N, due)
      /\ Leftover(b, N, due) > 0 => \A i \in 1..N : taken[i] = due[i]
  BY PassSpends
<1>2. due \in [1..N -> Int]
  OBVIOUS
<1>3. Leftover(b, N, due) \in 0..b
  BY <1>2, LeftoverBounds
<1>4. taken = [i \in 1..N |-> taken[i]] /\ due = [i \in 1..N |-> due[i]]
  BY Zenon
<1>5. (\A i \in 1..N : taken[i] = due[i])
        => [i \in 1..N |-> taken[i]] = [i \in 1..N |-> due[i]]
  BY Zenon
<1>6. (\A i \in 1..N : taken[i] = due[i]) => taken = due
  BY <1>4, <1>5, Zenon
<1> QED
  BY <1>1, <1>3, <1>6

LEMMA AllocationSpends ==
  ASSUME AccountInv, NEW amount \in Nat
  PROVE  LET alloc == Allocate(amount)
         IN  \E rest \in 0..amount :
               /\ PrincipalTotal(alloc) + InterestTotal(alloc) + PenaltyTotal(alloc)
                    = amount - rest
               /\ rest > 0 => /\ alloc.interest = InterestDues
                              /\ alloc.principal = PrincipalDues
                              /\ \A k \in 1..Len(penalties) : alloc.penalty[k] = PenaltyDue(k)
<1> DEFINE alloc == Allocate(amount)
           n == Len(penalties)
           given == [c \in Components |->
                       CASE c = "penalty" -> PenaltyTotal(alloc)
                         [] c = "interest" -> InterestTotal(alloc)
                         [] c = "principal" -> PrincipalTotal(alloc)]
           Met(c) == /\ c = "penalty" => \A k \in 1..n : alloc.penalty[k] = PenaltyDue(k)
                     /\ c = "interest" => alloc.interest = InterestDues
                     /\ c = "principal" => alloc.principal = PrincipalDues
<1>0. TypeOK /\ N \in Nat /\ n \in Nat /\ DOMAIN penalties = 1..n
  BY RowTypes, ScheduleAssumption DEF AccountInv
<1>1. /\ alloc.penalty \in [1..n -> Nat]
      /\ alloc.interest \in [1..N -> Nat] /\ alloc.principal \in [1..N -> Nat]
  BY <1>0, AllocateBounds
<1>2. /\ alloc.interest = Taken(BudgetOf("interest", amount), N, InterestDues)
      /\ alloc.principal = Taken(BudgetOf("principal", amount), N, PrincipalDues)
      /\ \A k \in 1..n :
           alloc.penalty[k]
             = Taken(PenaltyLeft(BudgetOf("penalty", amount))[penalties[k].period - 1], n,
                     PenaltyDues(penalties[k].period))[k]
  BY <1>0 DEF Allocate
<1>3. /\ InterestDues \in [1..N -> Nat] /\ PrincipalDues \in [1..N -> Nat]
      /\ InterestDues \in [1..N -> Int] /\ PrincipalDues \in [1..N -> Int]
  BY DuesNotNegative
<1>4. \A c : BudgetOf(c, amount) \in Nat
  BY <1>0, BudgetType
<1> HIDE DEF alloc
<1>5. ASSUME NEW c \in Components
      PROVE  /\ given[c] = BudgetOf(c, amount) - LeftAfter(c, BudgetOf(c, amount))
             /\ LeftAfter(c, BudgetOf(c, amount)) \in 0..BudgetOf(c, amount)
             /\ LeftAfter(c, BudgetOf(c, amount)) > 0 => Met(c)
  <2> DEFINE b == BudgetOf(c, amount)
  <2>1. b \in Nat
    BY <1>4
  <2>2. CASE c = "penalty"
    <3>1. /\ Total(n, alloc.penalty) = b - PenaltyLeft(b)[Periods]
          /\ PenaltyLeft(b)[Periods] \in 0..b
          /\ PenaltyLeft(b)[Periods] > 0
               => \A k \in 1..n : alloc.penalty[k] = PenaltyDue(k)
      BY <1>1, <1>2, <2>1, <2>2, PenaltyPass
    <3>2. given[c] = Total(n, alloc.penalty) /\ LeftAfter(c, b) = PenaltyLeft(b)[Periods]
      <4>1. Len(alloc.penalty) = n
        BY <1>0, <1>1
      <4>2. given[c] = PenaltyTotal(alloc)
        BY <2>2 DEF Components
      <4> QED
        BY <2>2, <4>1, <4>2 DEF PenaltyTotal, LeftAfter
    <3> HIDE DEF given, b
    <3> QED
      BY <2>2, <3>1, <3>2 DEF b
  <2>3. CASE c = "interest"
    <3>1. /\ alloc.interest = Taken(b, N, InterestDues)
          /\ alloc.interest \in [1..N -> Nat] /\ InterestDues \in [1..N -> Nat]
      BY <1>1, <1>2, <1>3, <2>3
    <3>2. given[c] = Total(N, alloc.interest) /\ LeftAfter(c, b) = Leftover(b, N, InterestDues)
      <4>1. given[c] = InterestTotal(alloc)
        BY <2>3 DEF Components
      <4> QED
        BY <2>3, <4>1 DEF InterestTotal, LeftAfter
    <3> HIDE DEF given, b
    <3>3. /\ Total(N, alloc.interest) = b - Leftover(b, N, InterestDues)
          /\ Leftover(b, N, InterestDues) \in 0..b
          /\ Leftover(b, N, InterestDues) > 0 => alloc.interest = InterestDues
      BY <1>0, <2>1, <3>1, PassMeetsDues, Zenon
    <3> QED
      BY <2>3, <3>2, <3>3 DEF b
  <2>4. CASE c = "principal"
    <3>1. /\ alloc.principal = Taken(b, N, PrincipalDues)
          /\ alloc.principal \in [1..N -> Nat] /\ PrincipalDues \in [1..N -> Nat]
      BY <1>1, <1>2, <1>3, <2>4
    <3>2. given[c] = Total(N, alloc.principal) /\ LeftAfter(c, b) = Leftover(b, N, PrincipalDues)
      <4>1. given[c] = PrincipalTotal(alloc)
        BY <2>4 DEF Components
      <4> QED
        BY <2>4, <4>1 DEF PrincipalTotal, LeftAfter
    <3> HIDE DEF given, b
    <3>3. /\ Total(N, alloc.principal) = b - Leftover(b, N, PrincipalDues)
          /\ Leftover(b, N, PrincipalDues) \in 0..b
          /\ Leftover(b, N, PrincipalDues) > 0 => alloc.principal = PrincipalDues
      BY <1>0, <2>1, <3>1, PassMeetsDues, Zenon
    <3> QED
      BY <2>4, <3>2, <3>3 DEF b
  <2> QED
    BY <2>2, <2>3, <2>4 DEF Components
<1> DEFINE second == LeftAfter(Order[1], amount)
           third == LeftAfter(Order[2], second)
           rest == LeftAfter(Order[3], third)
<1>6. /\ BudgetOf(Order[1], amount) = amount
      /\ BudgetOf(Order[2], amount) = second
      /\ BudgetOf(Order[3], amount) = third
  BY OrderIsPermutation DEF BudgetOf
<1>7. PrincipalTotal(alloc) + InterestTotal(alloc) + PenaltyTotal(alloc)
        = given["principal"] + given["interest"] + given["penalty"]
  BY DEF Components
<1> HIDE DEF second, third, rest, given, Met
<1>8. /\ given[Order[1]] = amount - second /\ second \in 0..amount
      /\ second > 0 => Met(Order[1])
  BY <1>5, <1>6, OrderIsPermutation DEF second
<1>9. /\ given[Order[2]] = second - third /\ third \in 0..second
      /\ third > 0 => Met(Order[2])
  BY <1>5, <1>6, OrderIsPermutation DEF third
<1>10. /\ given[Order[3]] = third - rest /\ rest \in 0..third
       /\ rest > 0 => Met(Order[3])
  BY <1>5, <1>6, OrderIsPermutation DEF rest
<1>11. rest \in 0..amount /\ (rest > 0 => second > 0 /\ third > 0)
  BY <1>8, <1>9, <1>10
<1>12. given["principal"] + given["interest"] + given["penalty"]
         = given[Order[1]] + given[Order[2]] + given[Order[3]]
  <2>1. \A c \in Components : given[c] \in Int
    <3>1. given[Order[1]] \in Int /\ given[Order[2]] \in Int /\ given[Order[3]] \in Int
      BY <1>8, <1>9, <1>10
    <3>2. \A c \in Components : c = Order[1] \/ c = Order[2] \/ c = Order[3]
      BY OrderIsPermutation DEF Components
    <3> QED
      BY <3>1, <3>2
  <2>2. \/ Order[1] = "penalty" /\ Order[2] = "interest" /\ Order[3] = "principal"
        \/ Order[1] = "penalty" /\ Order[2] = "principal" /\ Order[3] = "interest"
        \/ Order[1] = "interest" /\ Order[2] = "penalty" /\ Order[3] = "principal"
        \/ Order[1] = "interest" /\ Order[2] = "principal" /\ Order[3] = "penalty"
        \/ Order[1] = "principal" /\ Order[2] = "penalty" /\ Order[3] = "interest"
        \/ Order[1] = "principal" /\ Order[2] = "interest" /\ Order[3] = "penalty"
    BY OrderIsPermutation DEF Components
  <2>3. given["penalty"] \in Int /\ given["interest"] \in Int /\ given["principal"] \in Int
    BY <2>1 DEF Components
  <2> QED
    BY <2>2, <2>3
<1>13. given[Order[1]] + given[Order[2]] + given[Order[3]] = amount - rest
  <2>1. second \in Int /\ third \in Int /\ rest \in Int
    BY <1>8, <1>9, <1>10
  <2> QED
    BY <1>8, <1>9, <1>10, <2>1
<1>14. rest > 0 => \A c \in Components : Met(c)
  BY <1>8, <1>9, <1>10, <1>11, OrderIsPermutation DEF Components
<1>15. rest > 0 => /\ alloc.interest = InterestDues
                   /\ alloc.principal = PrincipalDues
                   /\ \A k \in 1..n : alloc.penalty[k] = PenaltyDue(k)
  BY <1>14 DEF Met, Components
<1> QED
  BY <1>7, <1>11, <1>12, <1>13, <1>15 DEF alloc

-----------------------------------------------------------------------------
(***************************************************************************)
(* The cached outstanding.  postCollection counts a pending penalty gross  *)
(* and the reversal counts it net, so the two sides of the bracket are a   *)
(* penalty payment apart; what closes it is that an allocation which       *)
(* leaves something over has met every due (AllocationSpends).             *)
(***************************************************************************)
PendingDues == Total(Len(penalties), [k \in 1..Len(penalties) |-> PenaltyDue(k)])

LEMMA PendingSums ==
  ASSUME AccountInv
  PROVE  /\ PendingNet(penalties) = PendingDues
         /\ PendingNet(penalties) \in Nat /\ PendingGross(penalties) \in Nat
         /\ PenaltyPaid \in Nat
         /\ PendingNet(penalties) <= PendingGross(penalties)
         /\ PendingGross(penalties) <= PendingNet(penalties) + PenaltyPaid
<1> DEFINE n == Len(penalties)
           net == [k \in 1..n |-> PenaltyDue(k)]
           gross == [k \in 1..n |-> IF IsPending(penalties[k]) THEN penalties[k].amount ELSE 0]
           paid == [k \in 1..n |-> penalties[k].paid]
           sum == [k \in 1..n |-> net[k] + paid[k]]
<1>1. n \in Nat /\ DOMAIN penalties = 1..n
  BY RowTypes DEF AccountInv
<1>2. \A k \in 1..n : /\ penalties[k].amount \in Nat /\ penalties[k].paid \in Nat
                      /\ penalties[k].paid <= penalties[k].amount
  BY <1>1, PenaltyFields
<1>3. \A k \in 1..n :
        IF IsPending(penalties[k])
        THEN AtLeastZero(penalties[k].amount - penalties[k].paid) = PenaltyDue(k)
        ELSE PenaltyDue(k) = 0
  BY <1>2 DEF AtLeastZero, PenaltyDue
<1>4. \A k \in 1..n : /\ PenaltyDue(k) \in Nat
                      /\ gross[k] \in Nat /\ PenaltyDue(k) <= gross[k]
                      /\ gross[k] <= PenaltyDue(k) + penalties[k].paid
  BY <1>2 DEF PenaltyDue
<1>5. PendingNet(penalties) = Total(n, net)
  <2>1. [k \in DOMAIN penalties |->
           IF IsPending(penalties[k])
           THEN AtLeastZero(penalties[k].amount - penalties[k].paid) ELSE 0] = net
    BY <1>1, <1>3
  <2> QED
    BY <2>1 DEF PendingNet
<1>6. PendingGross(penalties) = Total(n, gross) /\ PenaltyPaid = Total(n, paid)
  BY <1>1 DEF PendingGross, PenaltyPaid
<1> HIDE DEF n
<1>7. /\ net \in [1..n -> Nat] /\ net \in [1..n -> Int]
      /\ gross \in [1..n -> Nat] /\ gross \in [1..n -> Int]
      /\ paid \in [1..n -> Nat] /\ paid \in [1..n -> Int]
      /\ \A k \in 1..n : net[k] <= gross[k]
  BY <1>2, <1>4
<1>8. /\ sum \in [1..n -> Int] /\ \A k \in 1..n : sum[k] = net[k] + paid[k]
      /\ \A k \in 1..n : gross[k] <= sum[k]
  BY <1>2, <1>4
<1> HIDE DEF net, gross, paid, sum
<1>9. Total(n, net) \in Nat /\ Total(n, gross) \in Nat /\ Total(n, paid) \in Nat
  BY <1>1, <1>7, TotalNonNegative
<1>10. Total(n, net) <= Total(n, gross)
  BY <1>1, <1>7, TotalMonotone
<1>11. Total(n, sum) = Total(n, net) + Total(n, paid)
  BY <1>1, <1>7, <1>8, TotalSum
<1>12. Total(n, gross) <= Total(n, sum)
  BY <1>1, <1>7, <1>8, TotalMonotone
<1> QED
  BY <1>5, <1>6, <1>9, <1>10, <1>11, <1>12 DEF net, n, PendingDues

(* The same sums, after a step. *)
OwedFacts ==
  /\ PendingNet(penalties) = PendingDues
  /\ PendingNet(penalties) \in Nat /\ PendingGross(penalties) \in Nat
  /\ PenaltyPaid \in Nat
  /\ ScheduleOutstanding(installments) \in Nat

LEMMA ScheduleSums ==
  ASSUME AccountInv
  PROVE  /\ ScheduleOutstanding(installments) = Total(N, PrincipalDues) + Total(N, InterestDues)
         /\ Total(N, PrincipalDues) = PrincipalOutstanding
         /\ ScheduleOutstanding(installments) \in Nat
         /\ Total(N, PrincipalDues) \in Nat /\ Total(N, InterestDues) \in Nat
<1> DEFINE h == [i \in Installments |-> (Principal[i] - installments[i].principalPaid)
                                        + (Interest[i] - installments[i].interestPaid)]
           p == PrincipalDues
           q == InterestDues
<1>1. N \in Nat /\ Installments = 1..N
  BY ScheduleAssumption DEF Installments
<1>2. p \in [1..N -> Nat] /\ q \in [1..N -> Nat] /\ p \in [1..N -> Int] /\ q \in [1..N -> Int]
  BY DuesNotNegative
<1>3. \A i \in 1..N : h[i] = p[i] + q[i] /\ p[i] \in Int /\ q[i] \in Int
  BY <1>1, <1>2 DEF PrincipalDues, InterestDues
<1>4. h = [i \in 1..N |-> h[i]] /\ \A i \in 1..N : h[i] \in Int
  <2>1. \A i \in 1..N : h[i] \in Int
    <3> HIDE DEF h, p, q
    <3> QED
      BY <1>3
  <2> QED
    BY <1>1, <2>1
<1>5. ScheduleOutstanding(installments) = Total(N, h) /\ PrincipalOutstanding = Total(N, p)
  BY DEF ScheduleOutstanding, PrincipalOutstanding, PrincipalDues
<1> HIDE DEF h, p, q
<1>6. h \in [1..N -> Int]
  BY <1>4
<1>7. Total(N, h) = Total(N, p) + Total(N, q)
  BY <1>1, <1>2, <1>3, <1>6, TotalSum
<1>8. Total(N, p) \in Nat /\ Total(N, q) \in Nat
  BY <1>1, <1>2, TotalNonNegative
<1> QED
  BY <1>5, <1>7, <1>8 DEF p, q

LEMMA OwedFactsNext ==
  AccountInv' => OwedFacts'
<1>1. AccountInv => OwedFacts
  BY PendingSums, ScheduleSums DEF OwedFacts
<1> QED
  BY <1>1, PTL

(* A payment takes from the pending penalties what it allocates to them. *)
LEMMA PaymentTakesPending ==
  ASSUME AccountInv, NEW amount \in Amounts, PostCollection(amount)
  PROVE  PendingNet(penalties)' = PendingNet(penalties) - PenaltyTotal(Allocate(amount))
<1> DEFINE n == Len(penalties)
           alloc == Allocate(amount)
           taken == alloc.penalty
           net == [k \in 1..n |-> PenaltyDue(k)]
           after == [k \in 1..n |-> PenaltyDue(k)']
<1>0. TypeOK /\ amount \in Nat /\ n \in Nat /\ DOMAIN penalties = 1..n
  BY RowTypes, BoundAssumption DEF AccountInv
<1>1. AccountInv'
  BY PostCollectionPreserves
<1>2. /\ taken \in [1..n -> Nat] /\ taken \in [1..n -> Int]
      /\ \A k \in 1..n : taken[k] <= AtLeastZero(penalties[k].amount - penalties[k].paid)
      /\ \A k \in 1..n : IsPending(penalties[k]) \/ taken[k] = 0
  BY <1>0, AllocateBounds
<1>3. /\ penalties' = PenaltiesAfter(alloc)
      /\ MovesPenalties(alloc.penalty)
  BY PaymentMoves DEF PostCollection
<1>4. DOMAIN penalties' = 1..n /\ Len(penalties') = n
  BY <1>0, <1>3 DEF MovesPenalties
<1>5. PendingNet(penalties)' = Total(n, after)
  <2>1. PendingNet(penalties)' = PendingDues'
    BY <1>1, OwedFactsNext DEF OwedFacts
  <2> QED
    BY <2>1, <1>4 DEF PendingDues
<1>6. PendingNet(penalties) = Total(n, net)
  BY PendingSums DEF PendingDues
<1>7. PenaltyTotal(alloc) = Total(n, taken)
  <2>1. Len(taken) = n
    BY <1>0, <1>2
  <2> QED
    BY <2>1 DEF PenaltyTotal
<1> HIDE DEF alloc
<1>8. ASSUME NEW k \in 1..n
      PROVE  /\ PenaltyDue(k) \in Int /\ PenaltyDue(k)' \in Int
             /\ PenaltyDue(k) = PenaltyDue(k)' + taken[k]
  <2> DEFINE total == penalties[k].paid + taken[k]
             full == total >= penalties[k].amount
  <2>1. /\ penalties[k] \in PenaltyRows /\ penalties[k].amount \in Nat
        /\ penalties[k].paid \in 0..penalties[k].amount
    BY <1>0, PenaltyFields
  <2>2. penalties'[k] = IF taken[k] > 0
                        THEN [penalties[k] EXCEPT !.paid = total, !.isPaid = full]
                        ELSE penalties[k]
    BY <1>0, <1>3 DEF PenaltiesAfter
  <2>3. taken[k] \in Nat /\ taken[k] <= penalties[k].amount - penalties[k].paid
    BY <1>2, <2>1 DEF AtLeastZero
  <2>4. CASE taken[k] > 0
    <3>1. IsPending(penalties[k])
      BY <1>2, <2>4
    <3>2. full \in BOOLEAN
      OBVIOUS
    <3>3. full => total = penalties[k].amount
      BY <2>1, <2>3
    <3> HIDE DEF full, total
    <3>4. /\ penalties'[k].paid = total /\ penalties'[k].isPaid = full
          /\ penalties'[k].amount = penalties[k].amount
          /\ penalties'[k].isWaived = penalties[k].isWaived
      BY <2>1, <2>2, <2>4 DEF PenaltyRows
    <3>5. ~ penalties[k].isWaived /\ PenaltyDue(k) = penalties[k].amount - penalties[k].paid
      BY <3>1 DEF IsPending, PenaltyDue
    <3>6. PenaltyDue(k)' = IF IsPending(penalties[k])' THEN penalties[k].amount - total ELSE 0
      BY <3>4 DEF PenaltyDue
    <3>7. full => ~ IsPending(penalties[k])'
      BY <3>4, Zenon DEF IsPending
    <3>8. ~ full => IsPending(penalties[k])'
      BY <3>4, <3>5, Zenon DEF IsPending
    <3>9. PenaltyDue(k)' = penalties[k].amount - total
      <4>1. total \in Int
        BY <2>1, <2>3 DEF total
      <4>2. penalties[k].amount \in Int
        BY <2>1
      <4>3. full => penalties[k].amount - total = 0
        BY <3>3, <4>1, <4>2
      <4> QED
        BY <3>6, <3>7, <3>8, <4>3, Zenon
    <3> QED
      BY <3>5, <3>9, <2>1, <2>3 DEF total
  <2>5. CASE ~ (taken[k] > 0)
    <3>1. penalties'[k] = penalties[k] /\ taken[k] = 0
      BY <2>2, <2>3, <2>5
    <3>2. PenaltyDue(k)' = PenaltyDue(k)
      BY <3>1 DEF PenaltyDue
    <3>3. PenaltyDue(k) \in Int
      BY <2>1 DEF PenaltyDue
    <3> QED
      BY <3>1, <3>2, <3>3
  <2> QED
    BY <2>4, <2>5
<1> HIDE DEF taken, n
<1>9. /\ net \in [1..n -> Int] /\ after \in [1..n -> Int]
      /\ \A k \in 1..n : net[k] = after[k] + taken[k]
  BY <1>8
<1> HIDE DEF net, after
<1>10. Total(n, net) = Total(n, after) + Total(n, taken)
  BY <1>0, <1>2, <1>9, TotalSum
<1>11. Total(n, after) \in Int /\ Total(n, taken) \in Int
  BY <1>0, <1>2, <1>9, TotalType
<1> QED
  BY <1>5, <1>6, <1>7, <1>10, <1>11 DEF alloc

-----------------------------------------------------------------------------
(* The bracket, action by action. *)
Bracketed == /\ TrueOutstanding <= loan.cached
             /\ loan.cached <= TrueOutstanding + PenaltyPaid

LEMMA PaymentBrackets ==
  ASSUME AccountInv, NEW amount \in Amounts, PostCollection(amount)
  PROVE  Bracketed'
<1> DEFINE alloc == Allocate(amount)
           so == ScheduleOutstanding(installments)
           net == PendingNet(penalties)
           gross == PendingGross(penalties)
           a == PrincipalTotal(alloc)
           b == InterestTotal(alloc)
           x == PenaltyTotal(alloc)
<1>0. amount \in Nat
  BY BoundAssumption
<1>1. /\ amount <= so + gross
      /\ loan'.cached = AtLeastZero((so + gross) - amount)
  <2> DEFINE paid == InstallmentsAfter(alloc)
             to == StatusAfterCollection(paid, (so + gross) - amount)
             d == Dpd(paid, day)
  <2>1. amount <= so + gross
    BY DEF PostCollection
  <2>2. loan' = [status |-> to, cached |-> AtLeastZero((so + gross) - amount), dpd |-> d]
    BY Zenon DEF PostCollection
  <2> HIDE DEF alloc, so, gross, paid, to, d
  <2> QED
    BY <2>1, <2>2
<1>2. PICK rest \in 0..amount :
        /\ a + b + x = amount - rest
        /\ rest > 0 => /\ alloc.interest = InterestDues
                       /\ alloc.principal = PrincipalDues
                       /\ \A k \in 1..Len(penalties) : alloc.penalty[k] = PenaltyDue(k)
  BY <1>0, AllocationSpends, Zenon
<1>3. /\ so \in Nat /\ net \in Nat /\ gross \in Nat /\ PenaltyPaid \in Nat
      /\ net <= gross /\ gross <= net + PenaltyPaid /\ net = PendingDues
      /\ so = Total(N, PrincipalDues) + Total(N, InterestDues)
  BY PendingSums, ScheduleSums
<1>4. /\ ScheduleOutstanding(installments)' = so - a - b
      /\ PenaltyPaid' = PenaltyPaid + x
      /\ a \in Int /\ b \in Int /\ x \in Int
  BY PaymentTotals
<1>5. PendingNet(penalties)' = net - x
  BY PaymentTakesPending
<1>6. x \in Nat /\ (rest > 0 => x = net)
  <2> DEFINE n == Len(penalties)
             dues == [k \in 1..n |-> PenaltyDue(k)]
  <2>1. alloc.penalty \in [1..n -> Nat] /\ n \in Nat
    BY <1>0, AllocateBounds, RowTypes DEF AccountInv
  <2>2. x = Total(n, alloc.penalty)
    <3>1. Len(alloc.penalty) = n
      BY <2>1
    <3> QED
      BY <3>1 DEF PenaltyTotal
  <2>3. rest > 0 => alloc.penalty = dues
    <3> HIDE DEF alloc, n
    <3>1. alloc.penalty = [k \in 1..n |-> alloc.penalty[k]]
      BY <2>1
    <3> QED
      BY <1>2, <3>1 DEF n
  <2>4. Total(n, alloc.penalty) \in Nat
    BY <2>1, TotalNonNegative
  <2> QED
    BY <1>3, <2>2, <2>3, <2>4 DEF PendingDues
<1>7. rest > 0 => a + b = so
  <2>1. a = Total(N, alloc.principal) /\ b = Total(N, alloc.interest)
    BY DEF PrincipalTotal, InterestTotal
  <2> HIDE DEF a, b, alloc
  <2> QED
    BY <1>2, <1>3, <2>1
<1>8. TrueOutstanding' = (so - a - b) + (net - x)
  BY <1>4, <1>5 DEF TrueOutstanding
<1> HIDE DEF so, net, gross, a, b, x, alloc
<1>9. loan'.cached = so + gross - amount
  BY <1>0, <1>1, <1>3 DEF AtLeastZero
<1>10. rest \in Int /\ rest >= 0 /\ amount \in Int
  BY <1>0, <1>2
<1>11. TrueOutstanding' = so + net - amount + rest
  BY <1>2, <1>3, <1>4, <1>8, <1>10
<1>12. rest <= gross - net
  <2>1. CASE rest > 0
    <3>1. x = net /\ a + b = so /\ a + b + x = amount - rest
      BY <1>2, <1>6, <1>7, <2>1
    <3>2. so + net = amount - rest
      BY <3>1
    <3>3. rest = amount - (so + net)
      BY <1>3, <1>10, <3>2
    <3> QED
      BY <1>1, <1>3, <1>10, <3>3
  <2>2. CASE ~ (rest > 0)
    BY <1>3, <1>10, <2>2
  <2> QED
    BY <2>1, <2>2
<1>13. TrueOutstanding' <= loan'.cached
  BY <1>3, <1>9, <1>10, <1>11, <1>12
<1>14. loan'.cached <= TrueOutstanding' + PenaltyPaid'
  BY <1>3, <1>4, <1>6, <1>9, <1>10, <1>11
<1> QED
  BY <1>13, <1>14 DEF Bracketed

LEMMA ReversalBrackets ==
  ASSUME AccountInv, NEW c \in DOMAIN collections, ReverseCollection(c)
  PROVE  Bracketed'
<1>1. OwedFacts'
  BY ReverseCollectionPreserves, OwedFactsNext
<1>2. /\ ScheduleOutstanding(installments)' \in Nat /\ PendingNet(penalties)' \in Nat
      /\ PenaltyPaid' \in Nat
  BY <1>1 DEF OwedFacts
<1> DEFINE insts == Restored(collections[c].alloc)
           pens == PenaltiesRestored(collections[c].alloc)
           d == Dpd(insts, day)
           owed == ScheduleOutstanding(insts) + PendingNet(pens)
<1>3. /\ installments' = insts /\ penalties' = pens
      /\ loan' = [loan EXCEPT !.cached = AtLeastZero(owed), !.dpd = d]
  BY DEF ReverseCollection
<1>4. loan \in [status : {"approved"} \union Live \union Terminal, cached : Nat, dpd : Nat]
  BY Zenon DEF AccountInv, TypeOK
<1> DEFINE so == ScheduleOutstanding(installments)'
           net == PendingNet(penalties)'
<1>5. owed = so + net
  <2>1. so = ScheduleOutstanding(installments')
    OBVIOUS
  <2>2. net = PendingNet(penalties')
    OBVIOUS
  <2> QED
    BY <1>3, <2>1, <2>2
<1> HIDE DEF d, owed, insts, pens
<1>6. loan'.cached = AtLeastZero(owed)
  BY <1>3, <1>4
<1>7. TrueOutstanding' = so + net
  BY DEF TrueOutstanding
<1>8. loan'.cached = TrueOutstanding' /\ TrueOutstanding' \in Nat
  <2> HIDE DEF so, net
  <2>1. so \in Nat /\ net \in Nat
    BY <1>2 DEF so, net
  <2> QED
    BY <1>5, <1>6, <1>7, <2>1 DEF AtLeastZero
<1>9. TrueOutstanding' <= loan'.cached
  BY <1>8
<1>10. loan'.cached <= TrueOutstanding' + PenaltyPaid'
  <2>1. \A u, v \in Nat : u <= u + v
    OBVIOUS
  <2>2. TrueOutstanding' <= TrueOutstanding' + PenaltyPaid'
    BY <1>2, <1>8, <2>1
  <2> QED
    BY <1>8, <2>2
<1> QED
  BY <1>9, <1>10 DEF Bracketed

LEMMA PenaltyBrackets ==
  ASSUME AccountInv, Bracketed, NEW i \in Installments, NEW period \in 1..Periods,
         NEW reference \in 0..MaxDay, PostPenalty(i, period, reference)
  PROVE  Bracketed'
<1>0. AccountInv'
  BY PostPenaltyPreserves
<1>1. PICK row : /\ penalties' = Append(penalties, row) /\ row.paid = 0
                 /\ ~ row.isPaid /\ ~ row.isWaived
                 /\ loan'.cached = loan.cached + row.amount
  BY DEF PostPenalty
<1>2. UNCHANGED installments
  BY DEF PostPenalty
<1>3. row \in PenaltyRows
  <2>1. penalties' \in Seq(PenaltyRows)
    BY <1>0, Zenon DEF AccountInv, TypeOK
  <2> QED
    BY <1>1, <2>1, Appended, TablesAreSequences
<1>4. PenaltyPaid' = PenaltyPaid /\ row.amount \in Nat
  BY <1>1, <1>3, PenaltyAdds
<1>5. PendingNet(penalties)' = PendingNet(penalties) + row.amount
  <2>0. PICK n \in Nat : n = Len(penalties)
    BY TablesAreSequences
  <2> DEFINE net == [k \in 1..n |-> PenaltyDue(k)]
             after == [k \in 1..(n + 1) |-> PenaltyDue(k)']
  <2>1. /\ DOMAIN penalties = 1..n
        /\ Len(penalties') = n + 1
        /\ penalties'[n + 1] = row
        /\ \A k \in 1..n : penalties'[k] = penalties[k]
    BY <1>1, <2>0, TablesAreSequences
  <2>2. PendingNet(penalties) = Total(n, net)
    BY <2>0, PendingSums DEF PendingDues
  <2>3. PendingNet(penalties)' = Total(n + 1, after)
    <3>1. PendingNet(penalties)' = PendingDues'
      BY <1>0, OwedFactsNext DEF OwedFacts
    <3> QED
      BY <2>1, <3>1 DEF PendingDues
  <2>4. \A k \in 1..n : PenaltyDue(k) \in Nat /\ PenaltyDue(k)' = PenaltyDue(k)
    <3>1. \A k \in 1..n : PenaltyDue(k)' = PenaltyDue(k)
      BY <2>1 DEF PenaltyDue
    <3> QED
      BY <2>1, <3>1, DuesNotNegative
  <2>5. PenaltyDue(n + 1)' = row.amount
    <3>1. IsPending(row)
      BY <1>1, Zenon DEF IsPending
    <3>2. row.amount - row.paid = row.amount
      BY <1>1, <1>4
    <3>3. IsPending(penalties'[n + 1])
      BY <2>1, <3>1, Zenon
    <3>4. PenaltyDue(n + 1)' = penalties'[n + 1].amount - penalties'[n + 1].paid
      BY <3>3, Zenon DEF PenaltyDue, IsPending
    <3> QED
      BY <2>1, <3>2, <3>4
  <2>6. /\ net \in [1..n -> Int] /\ after \in [1..(n + 1) -> Int]
        /\ \A k \in 1..n : net[k] = after[k]
        /\ after[n + 1] = row.amount
    <3>1. \A k \in 1..(n + 1) : k \in 1..n \/ k = n + 1
      BY <2>1
    <3>2. \A k \in 1..(n + 1) : PenaltyDue(k)' \in Int
      <4> SUFFICES ASSUME NEW k \in 1..(n + 1) PROVE PenaltyDue(k)' \in Int
        OBVIOUS
      <4>1. CASE k \in 1..n
        BY <2>4, <4>1
      <4>2. CASE k = n + 1
        BY <1>4, <2>5, <4>2
      <4> QED
        BY <3>1, <4>1, <4>2
    <3>3. n + 1 \in 1..(n + 1) /\ \A k \in 1..n : k \in 1..(n + 1)
      BY <2>1
    <3> QED
      BY <2>4, <2>5, <3>2, <3>3
  <2> HIDE DEF net, after
  <2>7. Total(n + 1, after) = Total(n, net) + after[n + 1]
    BY <2>1, <2>6, TotalAppend
  <2> QED
    BY <2>2, <2>3, <2>6, <2>7
<1>6. ScheduleOutstanding(installments)' = ScheduleOutstanding(installments)
  BY <1>2 DEF ScheduleOutstanding
<1>7. /\ ScheduleOutstanding(installments) \in Int /\ PendingNet(penalties) \in Int
      /\ PenaltyPaid \in Int /\ loan.cached \in Int
  <2>1. loan \in [status : {"approved"} \union Live \union Terminal, cached : Nat, dpd : Nat]
    BY Zenon DEF AccountInv, TypeOK
  <2>2. loan.cached \in Int
    BY <2>1
  <2> QED
    BY <2>2, PendingSums, ScheduleSums
<1> DEFINE so == ScheduleOutstanding(installments)
           net == PendingNet(penalties)
<1>8. /\ TrueOutstanding = so + net
      /\ TrueOutstanding' = so + (net + row.amount)
  BY <1>5, <1>6 DEF TrueOutstanding
<1> HIDE DEF so, net
<1>9. so \in Int /\ net \in Int
  BY <1>7 DEF so, net
<1> DEFINE before == loan.cached
           q == row.amount
<1>10. before \in Int /\ q \in Int /\ loan'.cached = before + q
  BY <1>1, <1>4, <1>7
<1>11. so + net <= before /\ before <= so + net + PenaltyPaid
  BY <1>8 DEF Bracketed
<1>12. TrueOutstanding' = so + (net + q)
  BY <1>8
<1> HIDE DEF before, q
<1>13. TrueOutstanding' <= loan'.cached
  BY <1>9, <1>10, <1>11, <1>12
<1>14. loan'.cached <= TrueOutstanding' + PenaltyPaid'
  BY <1>4, <1>7, <1>9, <1>10, <1>11, <1>12
<1> QED
  BY <1>13, <1>14 DEF Bracketed

LEMMA WaiverBrackets ==
  ASSUME AccountInv, Bracketed, NEW k \in DOMAIN penalties, WaivePenalty(k)
  PROVE  Bracketed'
<1> DEFINE n == Len(penalties)
           so == ScheduleOutstanding(installments)
           net == [j \in 1..n |-> PenaltyDue(j)]
           after == [j \in 1..n |-> PenaltyDue(j)']
<1>0. AccountInv'
  BY WaivePenaltyPreserves
<1>1. /\ UNCHANGED installments
      /\ DOMAIN penalties' = DOMAIN penalties /\ Len(penalties') = n
      /\ \A j \in DOMAIN penalties :
           /\ penalties'[j].paid = penalties[j].paid
           /\ penalties'[j].amount = penalties[j].amount
           /\ penalties'[j].isPaid = penalties[j].isPaid
           /\ j # k => penalties'[j].isWaived = penalties[j].isWaived
      /\ penalties'[k].isWaived
      /\ PenaltyPaid' = PenaltyPaid
  BY WaiverMovesNothing, UnmovedSums
<1>2. /\ n \in Nat /\ DOMAIN penalties = 1..n
      /\ \A j \in 1..n : PenaltyDue(j) \in Nat
  BY RowTypes, DuesNotNegative DEF AccountInv
<1>3. /\ IsPending(penalties[k])
      /\ loan'.cached = AtLeastZero(loan.cached - WaivedPaise(penalties[k]))
  BY DEF WaivePenalty
<1>4. WaivedPaise(penalties[k]) = PenaltyDue(k)
  <2>1. penalties[k].amount \in Nat /\ penalties[k].paid \in 0..penalties[k].amount
    BY PenaltyFields
  <2> QED
    BY <1>3, <2>1 DEF WaivedPaise, AtLeastZero, PenaltyDue
<1>5. PendingNet(penalties) = Total(n, net)
  BY PendingSums DEF PendingDues
<1>6. PendingNet(penalties)' = Total(n, after)
  <2>1. PendingNet(penalties)' = PendingDues'
    BY <1>0, OwedFactsNext DEF OwedFacts
  <2> QED
    BY <1>1, <2>1 DEF PendingDues
<1>7. ASSUME NEW j \in 1..n
      PROVE  PenaltyDue(j)' = IF j = k THEN 0 ELSE PenaltyDue(j)
  BY <1>1, <1>2 DEF PenaltyDue, IsPending
<1> HIDE DEF n
<1>8. /\ net \in [1..n -> Int] /\ net \in [1..n -> Nat] /\ after \in [1..n -> Int]
      /\ k \in 1..n /\ after[k] = 0 /\ net[k] = PenaltyDue(k)
      /\ \A j \in 1..n : j # k => after[j] = net[j]
  BY <1>2, <1>7
<1> HIDE DEF net, after
<1>9. Total(n, after) = Total(n, net) + (after[k] - net[k])
  BY <1>2, <1>8, TotalChanged
<1>10. Total(n, net) \in Nat /\ net[k] <= Total(n, net)
  BY <1>2, <1>8, TotalNonNegative, TotalBoundsEntries
<1>11. so \in Nat /\ PenaltyPaid \in Nat
  BY PendingSums, ScheduleSums
<1>12. /\ TrueOutstanding = so + Total(n, net)
       /\ TrueOutstanding' = so + Total(n, after)
  <2>1. ScheduleOutstanding(installments)' = so
    BY <1>1 DEF ScheduleOutstanding
  <2> QED
    BY <1>5, <1>6, <2>1 DEF TrueOutstanding
<1>13. loan.cached \in Int
  <2>1. loan \in [status : {"approved"} \union Live \union Terminal, cached : Nat, dpd : Nat]
    BY Zenon DEF AccountInv, TypeOK
  <2> QED
    BY <2>1
<1> HIDE DEF so
<1> DEFINE w == net[k]
           t == Total(n, net)
<1>14. w \in Nat /\ t \in Nat /\ w <= t
  BY <1>8, <1>10
<1>15. loan'.cached = AtLeastZero(loan.cached - w)
  BY <1>3, <1>4, <1>8
<1>16. TrueOutstanding = so + t /\ TrueOutstanding' = so + (t + (0 - w))
  BY <1>8, <1>9, <1>12
<1> HIDE DEF w, t
<1>17. loan.cached >= so + t /\ loan.cached <= so + t + PenaltyPaid
  BY <1>11, <1>16 DEF Bracketed
<1>18. loan'.cached = loan.cached - w
  BY <1>11, <1>13, <1>14, <1>15, <1>17 DEF AtLeastZero
<1> QED
  BY <1>1, <1>11, <1>13, <1>14, <1>16, <1>17, <1>18 DEF Bracketed

LEMMA DisbursementBrackets ==
  ASSUME AccountInv, EarlyInv, Disburse
  PROVE  Bracketed'
<1>1. /\ UNCHANGED <<installments, penalties>>
      /\ loan'.cached = TotalPrincipal + TotalInterest
  BY DEF Disburse
<1>2. /\ penalties = <<>>
      /\ \A i \in Installments : /\ installments[i].principalPaid = 0
                                 /\ installments[i].interestPaid = 0
  BY DEF EarlyInv, Disburse
<1>3. ScheduleOutstanding(installments) = TotalPrincipal + TotalInterest
  <2>1. \A i \in Installments : PrincipalDues[i] = Principal[i] /\ InterestDues[i] = Interest[i]
    BY <1>2, ScheduleAssumption DEF PrincipalDues, InterestDues
  <2>2. /\ PrincipalDues = [i \in Installments |-> PrincipalDues[i]]
        /\ InterestDues = [i \in Installments |-> InterestDues[i]]
        /\ Principal = [i \in Installments |-> Principal[i]]
        /\ Interest = [i \in Installments |-> Interest[i]]
    BY ScheduleAssumption, DuesNotNegative, Zenon DEF Installments
  <2>3. PrincipalDues = Principal /\ InterestDues = Interest
    BY <2>1, <2>2
  <2> QED
    BY <2>3, ScheduleSums DEF TotalPrincipal, TotalInterest
<1>4. PendingNet(penalties) = 0
  <2> DEFINE none == [k \in 1..Len(penalties) |-> PenaltyDue(k)]
  <2>1. Len(penalties) = 0
    BY <1>2
  <2>2. none \in [1..0 -> Int] /\ \A k \in 1..0 : none[k] = 0
    BY <2>1
  <2>3. PendingNet(penalties) = Total(0, none)
    BY <2>1, PendingSums DEF PendingDues
  <2> HIDE DEF none
  <2>4. Total(0, none) = 0
    BY <2>2, TotalZero
  <2> QED
    BY <2>3, <2>4
<1>5. /\ ScheduleOutstanding(installments)' = ScheduleOutstanding(installments)
      /\ PendingNet(penalties)' = PendingNet(penalties)
      /\ PenaltyPaid' = PenaltyPaid
  BY <1>1 DEF ScheduleOutstanding, PendingNet, PenaltyPaid
<1>6. PenaltyPaid \in Nat
  BY PendingSums
<1> DEFINE owed == TotalPrincipal + TotalInterest
<1>7. owed \in Int
  BY ScheduleTotals
<1>8. TrueOutstanding' = owed + 0 /\ loan'.cached = owed
  BY <1>1, <1>3, <1>4, <1>5 DEF TrueOutstanding
<1> HIDE DEF owed
<1> QED
  BY <1>5, <1>6, <1>7, <1>8 DEF Bracketed

-----------------------------------------------------------------------------
(***************************************************************************)
(* The status of the rows.  An installment marked paid is paid, and only a *)
(* loan that has ended has installments that a foreclosure closed.         *)
(***************************************************************************)
StatusInv ==
  /\ \A i \in Installments : installments[i].status = "paid" => FullyPaid(installments, i)
  /\ loan.status \notin Terminal => \A i \in Installments : installments[i].status # "closed"

LEMMA RowsKeepStatus ==
  ASSUME StatusInv,
         \A i \in Installments :
           \/ installments'[i] = installments[i]
           \/ \E a, b, c : installments'[i] = InstallmentRow(i, a, b, c),
         loan'.status \notin Terminal => loan.status \notin Terminal
  PROVE  StatusInv'
<1>1. ASSUME NEW i \in Installments
      PROVE  /\ installments'[i].status = "paid"
                  => /\ installments'[i].principalPaid >= Principal[i]
                     /\ installments'[i].interestPaid >= Interest[i]
             /\ installments'[i].status = "closed" => installments[i].status = "closed"
  <2>1. CASE installments'[i] = installments[i]
    BY <2>1 DEF StatusInv, FullyPaid
  <2>2. CASE \E a, b, c : installments'[i] = InstallmentRow(i, a, b, c)
    <3>1. PICK a, b, c : installments'[i] = InstallmentRow(i, a, b, c)
      BY <2>2
    <3>2. /\ installments'[i].principalPaid = a /\ installments'[i].interestPaid = b
          /\ installments'[i].status = InstallmentStatus(i, a, b)
      BY <3>1, InstallmentRowFields
    <3>3. InstallmentStatus(i, a, b) = "paid" => a >= Principal[i] /\ b >= Interest[i]
      BY DEF InstallmentStatus
    <3>4. InstallmentStatus(i, a, b) # "closed"
      BY DEF InstallmentStatus
    <3> QED
      BY <3>2, <3>3, <3>4
  <2> QED
    BY <2>1, <2>2
<1>2. \A i \in Installments : (installments[i].status = "paid" => FullyPaid(installments, i))'
  BY <1>1 DEF FullyPaid
<1>3. loan'.status \notin Terminal => \A i \in Installments : installments'[i].status # "closed"
  BY <1>1 DEF StatusInv
<1> QED
  BY <1>2, <1>3 DEF StatusInv

LEMMA StatusStep ==
  AccountInv /\ StatusInv /\ [Next]_vars => StatusInv'
<1> SUFFICES ASSUME AccountInv, StatusInv, [Next]_vars PROVE StatusInv'
  OBVIOUS
<1>0. loan \in [status : {"approved"} \union Live \union Terminal, cached : Nat, dpd : Nat]
  BY Zenon DEF AccountInv, TypeOK
<1>1. ASSUME NEW amount \in Amounts, PostCollection(amount) PROVE StatusInv'
  <2> DEFINE alloc == Allocate(amount)
  <2>1. installments' = InstallmentsAfter(alloc) /\ loan.status \in Live
    BY <1>1 DEF PostCollection
  <2> HIDE DEF alloc
  <2>2. \A i \in Installments :
          \/ installments'[i] = installments[i]
          \/ \E a, b, c : installments'[i] = InstallmentRow(i, a, b, c)
    BY <2>1, Zenon DEF InstallmentsAfter
  <2>3. loan.status \notin Terminal
    BY <2>1 DEF Live, Terminal
  <2> QED
    BY <2>2, <2>3, RowsKeepStatus
<1>2. ASSUME NEW c \in DOMAIN collections, ReverseCollection(c) PROVE StatusInv'
  <2> DEFINE alloc == collections[c].alloc
             cached == AtLeastZero(ScheduleOutstanding(Restored(alloc))
                                     + PendingNet(PenaltiesRestored(alloc)))
             d == Dpd(Restored(alloc), day)
  <2>1. installments' = Restored(alloc)
    BY <1>2, Zenon DEF ReverseCollection
  <2>2. loan' = [loan EXCEPT !.cached = cached, !.dpd = d]
    BY <1>2, Zenon DEF ReverseCollection
  <2> HIDE DEF alloc, cached, d
  <2>3. loan'.status = loan.status
    BY <1>0, <2>2
  <2>4. \A i \in Installments :
          \/ installments'[i] = installments[i]
          \/ \E a, b, x : installments'[i] = InstallmentRow(i, a, b, x)
    BY <2>1, Zenon DEF Restored
  <2> QED
    BY <2>3, <2>4, RowsKeepStatus
<1>3. ASSUME NEW n \in DOMAIN quotes, ExecuteForeclosure(n) PROVE StatusInv'
  <2>1. /\ installments' = [i \in Installments |->
             IF installments[i].status \in {"paid", "closed"} THEN installments[i]
             ELSE [installments[i] EXCEPT !.status = "closed"]]
        /\ loan'.status \in Terminal
    BY <1>3 DEF ExecuteForeclosure, Terminal
  <2>2. \A i \in Installments : installments[i] \in InstallmentRows
    BY RowTypes DEF AccountInv
  <2>3. ASSUME NEW i \in Installments, installments'[i].status = "paid"
        PROVE  FullyPaid(installments, i)'
    <3>1. installments'[i] = installments[i]
      BY <2>1, <2>2, <2>3 DEF InstallmentRows
    <3>2. FullyPaid(installments, i)
      BY <2>3, <3>1 DEF StatusInv
    <3> QED
      BY <3>1, <3>2 DEF FullyPaid
  <2> QED
    BY <2>1, <2>3 DEF StatusInv
<1>4. ASSUME UNCHANGED installments,
             loan'.status \notin Terminal => loan.status \notin Terminal
      PROVE  StatusInv'
  BY <1>4, RowsKeepStatus
<1>5. \A dpd : StatusForDpd(dpd) \notin Terminal => loan.status \notin Terminal
  BY DEF StatusForDpd, Terminal
<1>6. ASSUME Disburse PROVE StatusInv'
  <2>1. UNCHANGED installments /\ loan.status \notin Terminal
    BY <1>6 DEF Disburse, Terminal
  <2> QED
    BY <1>4, <2>1
<1>7. ASSUME NEW i \in Installments, NEW period \in 1..Periods,
             NEW reference \in 0..MaxDay, PostPenalty(i, period, reference)
      PROVE  StatusInv'
  <2>1. UNCHANGED installments /\ loan.status \notin Terminal
    BY <1>7 DEF PostPenalty, Live, Terminal
  <2> QED
    BY <1>4, <2>1
<1>8. ASSUME NEW k \in DOMAIN penalties, WaivePenalty(k) PROVE StatusInv'
  <2>1. UNCHANGED installments
        /\ loan'.status = StatusForDpd(Dpd(installments, day))
    BY <1>8 DEF WaivePenalty
  <2> QED
    BY <1>4, <1>5, <2>1
<1>9. ASSUME CloseLoan PROVE StatusInv'
  <2>1. UNCHANGED installments /\ loan'.status \in Terminal
    BY <1>0, <1>9 DEF CloseLoan, Terminal
  <2> QED
    BY <1>4, <2>1
<1>10. ASSUME \/ \E rebate \in Rebates : CreateQuote(rebate)
              \/ ReadForQuote \/ AbandonQuote \/ ReadForClose \/ RefuseClose \/ Tick
              \/ UNCHANGED vars
       PROVE  UNCHANGED <<installments, loan>>
  BY <1>10 DEF CreateQuote, ReadForQuote, AbandonQuote, ReadForClose, RefuseClose, Tick, vars
<1> QED
  BY <1>1, <1>2, <1>3, <1>4, <1>6, <1>7, <1>8, <1>9, <1>10, Zenon DEF Next

(* Every record of an account and its balance, as one inductive invariant.  *)
BalanceInv == RecordsInv /\ StatusInv /\ CachedBracketsOutstanding

LEMMA BalanceStep ==
  BalanceInv /\ [Next]_vars => BalanceInv'
<1> SUFFICES ASSUME BalanceInv, [Next]_vars PROVE CachedBracketsOutstanding'
  BY RecordsStep, StatusStep DEF BalanceInv, RecordsInv
<1>0. AccountInv /\ EarlyInv /\ (loan.status \in Live => Bracketed)
  BY DEF BalanceInv, RecordsInv, CachedBracketsOutstanding, Bracketed
<1>1. SUFFICES ASSUME loan'.status \in Live PROVE Bracketed'
  BY DEF CachedBracketsOutstanding, Bracketed
<1>2. loan \in [status : {"approved"} \union Live \union Terminal, cached : Nat, dpd : Nat]
  BY <1>0, Zenon DEF AccountInv, TypeOK
<1>3. CASE Disburse
  BY <1>0, <1>3, DisbursementBrackets
<1>4. CASE \E amount \in Amounts : PostCollection(amount)
  BY <1>0, <1>4, PaymentBrackets
<1>5. CASE \E c \in DOMAIN collections : ReverseCollection(c)
  BY <1>0, <1>5, ReversalBrackets
<1>6. CASE \E i \in Installments, period \in 1..Periods, reference \in 0..MaxDay :
             PostPenalty(i, period, reference)
  <2>1. loan.status \in Live
    BY <1>6 DEF PostPenalty
  <2> QED
    BY <1>0, <1>6, <2>1, PenaltyBrackets
<1>7. CASE \E k \in DOMAIN penalties : WaivePenalty(k)
  <2>1. loan'.status = StatusForDpd(Dpd(installments, day))
    BY <1>7 DEF WaivePenalty
  <2>2. \A dpd : StatusForDpd(dpd) \in Live => loan.status \in Live
    BY DEF StatusForDpd, Live
  <2>3. loan.status \in Live
    BY <1>1, <2>1, <2>2
  <2> QED
    BY <1>0, <1>7, <2>3, WaiverBrackets
<1>8. ASSUME NEW n \in DOMAIN quotes PROVE ~ ExecuteForeclosure(n)
  BY <1>1 DEF ExecuteForeclosure, Live
<1>9. ~ CloseLoan
  BY <1>1, <1>2 DEF CloseLoan, Live
<1>10. CASE UNCHANGED <<loan, installments, penalties>>
  <2>1. Bracketed
    BY <1>0, <1>1, <1>10
  <2>2. /\ loan'.cached = loan.cached /\ TrueOutstanding' = TrueOutstanding
        /\ PenaltyPaid' = PenaltyPaid
    BY <1>10 DEF TrueOutstanding, ScheduleOutstanding, PendingNet, PenaltyPaid
  <2> QED
    BY <2>1, <2>2 DEF Bracketed
<1>11. ASSUME \/ \E rebate \in Rebates : CreateQuote(rebate)
              \/ ReadForQuote \/ AbandonQuote \/ ReadForClose \/ RefuseClose \/ Tick
              \/ UNCHANGED vars
       PROVE  UNCHANGED <<loan, installments, penalties>>
  BY <1>11 DEF CreateQuote, ReadForQuote, AbandonQuote, ReadForClose, RefuseClose, Tick, vars
<1> QED
  BY <1>3, <1>4, <1>5, <1>6, <1>7, <1>8, <1>9, <1>10, <1>11, Zenon DEF Next

LEMMA InitialBalance ==
  Init => BalanceInv
<1> SUFFICES ASSUME Init PROVE BalanceInv
  OBVIOUS
<1>1. /\ loan = [status |-> "approved", cached |-> 0, dpd |-> 0]
      /\ installments = [i \in Installments |-> [principalPaid |-> 0, interestPaid |-> 0,
                                                 penaltyPaid |-> 0, status |-> "pending"]]
  BY DEF Init
<1>2. \A i \in Installments : installments[i].status = "pending"
  BY <1>1
<1>3. loan.status \notin Live
  BY <1>1 DEF Live
<1> QED
  BY <1>2, <1>3, InitialRecords DEF BalanceInv, StatusInv, CachedBracketsOutstanding

LEMMA BalanceInvariant ==
  Spec => []BalanceInv
<1>1. Init => BalanceInv
  BY InitialBalance
<1>2. BalanceInv /\ [Next]_vars => BalanceInv'
  BY BalanceStep
<1> QED
  BY <1>1, <1>2, PTL DEF Spec

(* While a loan can be paid, its cached outstanding is never less than what  *)
(* is owed, and exceeds it by the penalty payments at most: postCollection,  *)
(* which counts a pending penalty gross, and reverseCollection, which counts *)
(* it net, can be interleaved in any order without leaving the bracket.      *)
THEOREM CachedBracketsOutstandingAlways ==
  Spec => []CachedBracketsOutstanding
<1>1. BalanceInv => CachedBracketsOutstanding
  BY DEF BalanceInv
<1> QED
  BY <1>1, BalanceInvariant, PTL

-----------------------------------------------------------------------------
(* A live loan closes by a payment or by closeLoan; the bracket bounds what  *)
(* is owed on it by the balance that both look at.                           *)
LEMMA PaymentClosesSettled ==
  ASSUME BalanceInv, NEW amount \in Amounts, PostCollection(amount), loan'.status = "closed"
  PROVE  Unpaid(installments)' = {} /\ TrueOutstanding' <= 1
<1> DEFINE gross == ScheduleOutstanding(installments) + PendingGross(penalties)
           paid == InstallmentsAfter(Allocate(amount))
           to == StatusAfterCollection(paid, gross - amount)
           d == Dpd(paid, day)
<1>0. AccountInv /\ amount \in Nat
  BY BoundAssumption DEF BalanceInv, RecordsInv
<1>1. loan' = [status |-> to, cached |-> AtLeastZero(gross - amount), dpd |-> d]
  BY Zenon DEF PostCollection
<1>2. installments' = paid
  BY Zenon DEF PostCollection
<1>3. gross \in Nat
  BY <1>0, PendingSums, ScheduleSums
<1>4. to = "closed" => Unpaid(paid) = {} /\ Magnitude(gross - amount) <= 1
  BY DEF StatusAfterCollection
<1> HIDE DEF gross, paid, to, d
<1>5. to = "closed" /\ loan'.cached = AtLeastZero(gross - amount)
  BY <1>1
<1>6. loan'.cached <= 1
  BY <1>0, <1>3, <1>4, <1>5 DEF Magnitude, AtLeastZero
<1>7. TrueOutstanding' <= loan'.cached
  BY <1>0, PaymentBrackets DEF Bracketed
<1>8. Unpaid(installments)' = Unpaid(paid)
  BY <1>2 DEF Unpaid, FullyPaid
<1>9. TrueOutstanding' \in Int /\ loan'.cached \in Int
  <2>1. OwedFacts' /\ AccountInv'
    BY <1>0, PostCollectionPreserves, OwedFactsNext
  <2>2. loan'.cached \in Int
    BY <1>0, <1>3, <1>5 DEF AtLeastZero
  <2>3. /\ ScheduleOutstanding(installments)' \in Nat /\ PendingNet(penalties)' \in Nat
    BY <2>1 DEF OwedFacts
  <2> QED
    BY <2>2, <2>3 DEF TrueOutstanding
<1> QED
  BY <1>4, <1>5, <1>6, <1>7, <1>8, <1>9

LEMMA CloseLoanClosesSettled ==
  ASSUME BalanceInv, CloseLoan, loan.status \in Live
  PROVE  Unpaid(installments)' = {} /\ TrueOutstanding' <= 1
<1>1. /\ \A i \in Installments : installments[i].status \in {"paid", "closed"}
      /\ Magnitude(loan.cached) <= 1
      /\ UNCHANGED <<installments, penalties>>
  BY DEF CloseLoan, ClosurePrerequisites
<1>2. AccountInv /\ StatusInv /\ Bracketed
  BY DEF BalanceInv, RecordsInv, CachedBracketsOutstanding, Bracketed
<1>3. \A i \in Installments : FullyPaid(installments, i)
  BY <1>1, <1>2 DEF StatusInv, Live, Terminal
<1>4. Unpaid(installments)' = {}
  BY <1>1, <1>3 DEF Unpaid, FullyPaid
<1>5. loan.cached \in Nat
  <2>1. loan \in [status : {"approved"} \union Live \union Terminal, cached : Nat, dpd : Nat]
    BY <1>2, Zenon DEF AccountInv, TypeOK
  <2> QED
    BY <2>1
<1>6. TrueOutstanding <= loan.cached /\ TrueOutstanding \in Int
  <2>1. ScheduleOutstanding(installments) \in Nat /\ PendingNet(penalties) \in Nat
    BY <1>2, PendingSums, ScheduleSums
  <2> QED
    BY <1>2, <2>1 DEF Bracketed, TrueOutstanding
<1>7. TrueOutstanding' = TrueOutstanding
  BY <1>1 DEF TrueOutstanding, ScheduleOutstanding, PendingNet
<1>8. loan.cached <= 1
  BY <1>1, <1>5 DEF Magnitude
<1>9. TrueOutstanding <= 1
  BY <1>5, <1>6, <1>8
<1> QED
  BY <1>4, <1>7, <1>9

LEMMA ClosingStep ==
  ASSUME BalanceInv, [Next]_vars, loan.status \in Live, loan'.status = "closed"
  PROVE  Unpaid(installments)' = {} /\ TrueOutstanding' <= 1
<1>1. loan \in [status : {"approved"} \union Live \union Terminal, cached : Nat, dpd : Nat]
  BY Zenon DEF BalanceInv, RecordsInv, AccountInv, TypeOK
<1>2. CASE \E amount \in Amounts : PostCollection(amount)
  BY <1>2, PaymentClosesSettled
<1>3. CASE CloseLoan
  BY <1>3, CloseLoanClosesSettled
<1>4. \A dpd : StatusForDpd(dpd) # "closed"
  BY DEF StatusForDpd, Live
<1>5. ~ Disburse
  BY DEF Disburse
<1>6. \A c \in DOMAIN collections : ~ ReverseCollection(c)
  <2>1. ASSUME NEW c \in DOMAIN collections, ReverseCollection(c) PROVE FALSE
    <3>1. \E x, y : loan' = [loan EXCEPT !.cached = x, !.dpd = y]
      BY <2>1, Zenon DEF ReverseCollection
    <3>2. loan'.status = loan.status
      BY <1>1, <3>1
    <3> QED
      BY <3>2 DEF Live
  <2> QED
    BY <2>1
<1>7. \A i \in Installments, period \in 1..Periods, reference \in 0..MaxDay :
        ~ PostPenalty(i, period, reference)
  BY <1>4 DEF PostPenalty
<1>8. \A k \in DOMAIN penalties : ~ WaivePenalty(k)
  BY <1>4 DEF WaivePenalty
<1>9. \A n \in DOMAIN quotes : ~ ExecuteForeclosure(n)
  BY DEF ExecuteForeclosure
<1>10. ASSUME \/ \E rebate \in Rebates : CreateQuote(rebate)
              \/ ReadForQuote \/ AbandonQuote \/ ReadForClose \/ RefuseClose \/ Tick
              \/ UNCHANGED vars
       PROVE  loan' = loan
  BY <1>10 DEF CreateQuote, ReadForQuote, AbandonQuote, ReadForClose, RefuseClose, Tick, vars
<1>11. loan' # loan
  BY DEF Live
<1> QED
  BY <1>2, <1>3, <1>5, <1>6, <1>7, <1>8, <1>9, <1>10, <1>11, Zenon DEF Next

(* However the last payment, a reversal and the two halves of closeLoan are  *)
(* interleaved, a live loan closes only when every installment is paid and   *)
(* at most a paisa is owed.                                                  *)
THEOREM ClosesOnlySettledAlways ==
  Spec => ClosesOnlySettled
<1>1. BalanceInv /\ [Next]_vars
        => (loan.status \in Live /\ loan'.status = "closed"
              => Unpaid(installments') = {} /\ TrueOutstanding' <= 1)
  <2> SUFFICES ASSUME BalanceInv, [Next]_vars, loan.status \in Live, loan'.status = "closed"
               PROVE  Unpaid(installments') = {} /\ TrueOutstanding' <= 1
    OBVIOUS
  <2>1. Unpaid(installments)' = {} /\ TrueOutstanding' <= 1
    BY ClosingStep
  <2>2. Unpaid(installments)' = Unpaid(installments')
    OBVIOUS
  <2> QED
    BY <2>1, <2>2
<1> QED
  BY <1>1, BalanceInvariant, PTL DEF ClosesOnlySettled, Spec

-----------------------------------------------------------------------------
(***************************************************************************)
(* What a settlement takes.  The handler compares the quoted settlement    *)
(* with one it computes under the lock, in which a pending penalty counts  *)
(* whole; what is owed counts it net.                                      *)
(***************************************************************************)
LEMMA InterestOwedBounds ==
  ASSUME AccountInv, day \in Nat
  PROVE  /\ AccruedInterest(day) \in Nat /\ InterestOwed(day) \in Nat
         /\ InterestTakenAgain \in Nat
         /\ InterestOwed(day) <= AccruedInterest(day)
         /\ AccruedInterest(day) <= InterestOwed(day) + InterestTakenAgain
<1>1. AccruedInterest(day) \in Nat
  BY AccruedInterestType DEF AccountInv
<1>2. InterestPaid \in Nat
  <2> DEFINE f == [i \in 1..N |-> installments[i].interestPaid]
  <2>1. f \in [1..N -> Nat] /\ N \in Nat
    BY RowTypes, ScheduleAssumption DEF AccountInv, Installments
  <2>2. InterestPaid = Total(N, f)
    BY DEF InterestPaid, Installments
  <2> HIDE DEF f
  <2> QED
    BY <2>1, <2>2, TotalNonNegative
<1>3. CASE InterestType = "flat"
  BY <1>1, <1>2, <1>3 DEF InterestOwed, InterestTakenAgain
<1>4. CASE InterestType # "flat"
  <2>1. /\ InterestOwed(day) = AtLeastZero(AccruedInterest(day) - InterestPaid)
        /\ InterestTakenAgain = InterestPaid
    BY <1>4 DEF InterestOwed, InterestTakenAgain
  <2> DEFINE a == AccruedInterest(day)
             b == InterestPaid
  <2> HIDE DEF a, b
  <2>2. a \in Nat /\ b \in Nat
    BY <1>1, <1>2 DEF a, b
  <2>3. /\ AtLeastZero(a - b) \in Nat /\ AtLeastZero(a - b) <= a
        /\ a <= AtLeastZero(a - b) + b
    BY <2>2 DEF AtLeastZero
  <2> QED
    BY <2>1, <2>2, <2>3 DEF a, b
<1> QED
  BY <1>3, <1>4

LEMMA SettlementCash ==
  ASSUME AccountInv, NEW n \in DOMAIN quotes, ExecuteForeclosure(n)
  PROVE  LET cash == ledger'["cash"] - ledger["cash"]
             owed == PrincipalOutstanding + InterestOwed(day) + PendingNet(penalties)
                       - quotes[n].rebate
         IN  /\ cash >= owed - QuoteDrift
             /\ cash <= AtLeastZero(owed) + QuoteDrift + PenaltyPaid + InterestTakenAgain
<1> DEFINE s == quotes[n].settlement
           reb == quotes[n].rebate
           before == ledger["cash"]
           after == ledger'["cash"]
           p == PrincipalOutstanding
           i == AccruedInterest(day)
           u == InterestOwed(day)
           t == InterestTakenAgain
           net == PendingNet(penalties)
           gross == PendingGross(penalties)
           x == PenaltyPaid
<1>1. /\ Magnitude(LiveSettlement(reb) - s) <= QuoteDrift
      /\ Post(SettlementEntry(quotes[n]))
  BY DEF ExecuteForeclosure
<1>2. s \in Nat /\ reb \in Nat
  <2>1. quotes[n] \in QuoteRows
    BY TablesAreSequences
  <2> QED
    BY <2>1 DEF QuoteRows
<1>3. p \in Nat /\ OutstandingPrincipal = p
  <2>1. p \in Nat
    BY ScheduleSums
  <2>2. OutstandingPrincipal = AtLeastZero(p)
    BY DEF OutstandingPrincipal, PrincipalOutstanding
  <2> QED
    BY <2>1, <2>2 DEF AtLeastZero
<1>4. /\ i \in Nat /\ u \in Nat /\ t \in Nat
      /\ u <= i /\ i <= u + t
  <2>1. TypeOK /\ day \in Nat
    BY BoundAssumption DEF AccountInv, TypeOK
  <2> QED
    BY <2>1, InterestOwedBounds
<1>5. /\ net \in Nat /\ gross \in Nat /\ x \in Nat /\ net <= gross /\ gross <= net + x
      /\ QuoteDrift \in Nat
  BY PendingSums, ProductAssumption
<1>6. after = before + s /\ before \in Int
  <2>1. \A a \in Accounts : ledger'[a] = ledger[a] + SettlementEntry(quotes[n])[a]
    BY <1>1, LedgerPosted
  <2>2. SettlementEntry(quotes[n])["cash"] = s
    BY EntryFields DEF SettlementEntry
  <2>3. "cash" \in Accounts
    BY DEF Accounts
  <2> QED
    BY <2>1, <2>2, <2>3, LedgerTypes
<1>7. LiveSettlement(reb) = AtLeastZero(p + i + gross - reb)
  BY <1>3 DEF LiveSettlement
<1> HIDE DEF s, reb, before, after, p, i, u, t, net, gross, x
<1> DEFINE now == AtLeastZero(p + i + gross - reb)
           owed == p + u + net - reb
<1>8. now \in Nat /\ owed \in Int
      /\ owed <= now /\ now <= AtLeastZero(owed) + x + t /\ AtLeastZero(owed) \in Nat
  BY <1>2, <1>3, <1>4, <1>5 DEF AtLeastZero
<1>9. Magnitude(now - s) <= QuoteDrift
  BY <1>1, <1>7
<1> HIDE DEF now
<1>10. now - s <= QuoteDrift /\ s - now <= QuoteDrift
  BY <1>2, <1>5, <1>8, <1>9 DEF Magnitude
<1>11. after - before = s
  BY <1>2, <1>6
<1> DEFINE floor == AtLeastZero(owed)
<1>12. floor \in Nat /\ now <= floor + x + t
  BY <1>8
<1> HIDE DEF owed, floor
<1>13. s >= owed - QuoteDrift
  BY <1>2, <1>5, <1>8, <1>10
<1>14. s <= floor + QuoteDrift + x + t
  BY <1>2, <1>4, <1>5, <1>8, <1>10, <1>12
<1>15. /\ after - before >= owed - QuoteDrift
       /\ after - before <= floor + QuoteDrift + x + t
  BY <1>11, <1>13, <1>14
<1> QED
  BY <1>15 DEF floor, owed, s, reb, before, after, p, u, t, net, x

(* Only executing a quote settles it. *)
LEMMA QuoteSettledByForeclosure ==
  ASSUME AccountInv, [Next]_vars, NEW n \in DOMAIN quotes,
         quotes[n].status = "quote", quotes'[n].status = "settled"
  PROVE  ExecuteForeclosure(n)
<1>1. ASSUME NEW rebate \in Rebates, CreateQuote(rebate) PROVE FALSE
  <2>1. PICK row : quotes' = Append(quotes, row)
    BY <1>1 DEF CreateQuote
  <2>2. quotes'[n] = quotes[n]
    BY <2>1, Appended, TablesAreSequences
  <2> QED
    BY <2>2
<1>2. ASSUME NEW m \in DOMAIN quotes, ExecuteForeclosure(m) PROVE m = n
  <2>1. quotes' = [quotes EXCEPT ![m].status = "settled"]
    BY <1>2 DEF ExecuteForeclosure
  <2>2. m # n => quotes'[n] = quotes[n]
    BY <2>1, TablesAreSequences
  <2> QED
    BY <2>2
<1>3. quotes' # quotes
  OBVIOUS
<1>4. ~ Disburse /\ \A amount \in Amounts : ~ PostCollection(amount)
  BY <1>3 DEF Disburse, PostCollection
<1>5. \A c \in DOMAIN collections : ~ ReverseCollection(c)
  BY <1>3 DEF ReverseCollection
<1>6. /\ \A i \in Installments, period \in 1..Periods, reference \in 0..MaxDay :
           ~ PostPenalty(i, period, reference)
      /\ \A k \in DOMAIN penalties : ~ WaivePenalty(k)
  BY <1>3 DEF PostPenalty, WaivePenalty
<1>7. /\ ~ ReadForQuote /\ ~ AbandonQuote /\ ~ ReadForClose /\ ~ CloseLoan /\ ~ RefuseClose
      /\ ~ Tick /\ ~ UNCHANGED vars
  BY <1>3 DEF ReadForQuote, AbandonQuote, ReadForClose, CloseLoan, RefuseClose, Tick, vars
<1> QED
  BY <1>1, <1>2, <1>4, <1>5, <1>6, <1>7, Zenon DEF Next

(* A settlement takes what is owed when it is executed, less the rebate, to  *)
(* the drift tolerance, although its amounts were read when the quote was    *)
(* made; over it, by the penalty payments that the quote counts as owed and, *)
(* with a reducing balance, by the interest that was paid before.            *)
THEOREM SettlementCoversDuesAlways ==
  Spec => SettlementCoversDues
<1>1. ASSUME AccountInv, [Next]_vars, NEW n \in DOMAIN quotes,
             quotes[n].status = "quote", quotes'[n].status = "settled"
      PROVE  LET cash == ledger'["cash"] - ledger["cash"]
                 owed == PrincipalOutstanding + InterestOwed(day) + PendingNet(penalties)
                           - quotes[n].rebate
             IN  /\ cash >= owed - QuoteDrift
                 /\ cash <= AtLeastZero(owed) + QuoteDrift + PenaltyPaid + InterestTakenAgain
  <2>1. ExecuteForeclosure(n)
    BY <1>1, QuoteSettledByForeclosure
  <2> QED
    BY <1>1, <2>1, SettlementCash
<1>2. AccountInv /\ [Next]_vars
        => \A n \in DOMAIN quotes :
             quotes[n].status = "quote" /\ quotes'[n].status = "settled" =>
               LET cash == ledger'["cash"] - ledger["cash"]
                   owed == PrincipalOutstanding + InterestOwed(day) + PendingNet(penalties)
                             - quotes[n].rebate
               IN  /\ cash >= owed - QuoteDrift
                   /\ cash <= AtLeastZero(owed) + QuoteDrift + PenaltyPaid + InterestTakenAgain
  BY <1>1
<1>3. BalanceInv => AccountInv
  BY DEF BalanceInv, RecordsInv
<1> QED
  BY <1>2, <1>3, BalanceInvariant, PTL DEF SettlementCoversDues, Spec
=============================================================================
