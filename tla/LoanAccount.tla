---------------------------- MODULE LoanAccount ----------------------------
(***************************************************************************)
(* The money state of one disbursed loan: its installments, penalties,     *)
(* collections, foreclosure quotes, general-ledger balances and status,    *)
(* and every handler that changes them.                                    *)
(*                                                                         *)
(* A handler that runs in one database transaction under the row lock of   *)
(* the loan is one action.  Two handlers read the loan before they take    *)
(* the lock (LoanService.closeLoan) or take no lock at all                 *)
(* (ForeclosureService.createQuote): each of these is two actions, with    *)
(* what it read held in "reads" between them.                              *)
(*                                                                         *)
(* Time advances in days, and the system clock is read at midday: due      *)
(* dates are midnights, so an installment is past its due instant on its   *)
(* due day while its days past due are still zero.                         *)
(***************************************************************************)
EXTENDS Paise, Sequences

CONSTANTS
  N,              \* installments in the schedule
  Principal,      \* principal_paise of each installment
  Interest,       \* interest_paise of each installment
  DueDay,         \* due_date of each installment, in days after disbursement
  Periods,        \* penalty periods are 1..Periods, ordered as the strings are
  PenaltyType,    \* product_version.penalty_type
  PenaltyValue,   \* product_version.penalty_value: paise, or basis points
  GraceDays,      \* product_version.penalty_grace_days
  ProcessingFee,  \* processing fee withheld at disbursement
  Order,          \* product_version.allocation_order
  InterestType,   \* product_version.interest_type
  RateNum,        \* reducing balance: interest per paisa per day is
  RateDen,        \*   RateNum / RateDen (annual_rate_bps / 10000 / 365)
  QuoteDrift,     \* QUOTE_DRIFT_TOLERANCE_PAISE
  QuoteDays,      \* QUOTE_VALIDITY_MS in days
  Amounts,        \* bound: the amounts a customer may pay
  Rebates,        \* bound: the rebates a quote may grant
  MaxDay,         \* bound: last day of the calendar
  MaxCollections, \* bound: rows in the collections table
  MaxQuotes       \* bound: rows in the foreclosures table

Installments == 1..N
Components == {"penalty", "interest", "principal"}

ASSUME ScheduleAssumption ==
  /\ N \in Nat \ {0}
  /\ Principal \in [Installments -> Nat]
  /\ Interest \in [Installments -> Nat]
  /\ DueDay \in [Installments -> Nat]

ASSUME ProductAssumption ==
  /\ Periods \in Nat
  /\ PenaltyType \in {"flat_per_period", "percentage_of_overdue"}
  /\ PenaltyValue \in Nat /\ GraceDays \in Nat /\ ProcessingFee \in Nat
  /\ Order \in [1..3 -> Components]
  /\ \A c \in Components : \E j \in 1..3 : Order[j] = c
  /\ InterestType \in {"flat", "reducing_balance"}
  /\ RateNum \in Nat /\ RateDen \in Nat \ {0}
  /\ QuoteDrift \in Nat /\ QuoteDays \in Nat

ASSUME BoundAssumption ==
  /\ Amounts \subseteq Nat \ {0}
  /\ Rebates \subseteq Nat
  /\ MaxDay \in Nat /\ MaxCollections \in Nat /\ MaxQuotes \in Nat

VARIABLES
  loan,          \* loans: status, cached_outstanding_paise, dpd
  installments,  \* loan_schedules: paid amounts and status
  penalties,     \* penalties, in the order of created_at
  collections,   \* collections with their allocations, journal and receipt
  ledger,        \* net debit balance of each account
  quotes,        \* foreclosures
  history,       \* newest row of loan_status_history
  reads,         \* what closeLoan and createQuote read before they write
  day            \* system clock

vars == <<loan, installments, penalties, collections, ledger, quotes,
          history, reads, day>>

Live == {"active", "overdue"}
Terminal == {"closed", "foreclosed"}
Accounts == {"cash", "receivable", "interest", "fee", "penalty", "discount"}

\* Debits less credits of a journal entry, per account: cash is 1001 or 1002,
\* receivable 1100, interest 4001, fee 4002, penalty 4003, discount 5007.
Entry(cash, receivable, interest, fee, penalty, discount) ==
  [a \in Accounts |->
     CASE a = "cash" -> cash
       [] a = "receivable" -> receivable
       [] a = "interest" -> interest
       [] a = "fee" -> fee
       [] a = "penalty" -> penalty
       [] a = "discount" -> discount]

Sum(e) == e["cash"] + e["receivable"] + e["interest"] + e["fee"]
            + e["penalty"] + e["discount"]

\* createJournalEntry accepts an entry that balances and whose lines are not
\* zero; every caller drops its optional lines when they are zero, so the line
\* that can be refused is the first one.
Accepted(e, firstLine) == Sum(e) = 0 /\ firstLine > 0

Post(e) == ledger' = [a \in Accounts |-> ledger[a] + e[a]]

-----------------------------------------------------------------------------
(* What is owed. *)

FullyPaid(insts, i) ==
  insts[i].principalPaid >= Principal[i] /\ insts[i].interestPaid >= Interest[i]

Unpaid(insts) == {i \in Installments : ~ FullyPaid(insts, i)}

ScheduleOutstanding(insts) ==
  Total(N, [i \in Installments |->
              (Principal[i] - insts[i].principalPaid)
              + (Interest[i] - insts[i].interestPaid)])

IsPending(p) == ~ p.isPaid /\ ~ p.isWaived

\* What postCollection and the foreclosure quote count for a pending penalty:
\* its whole amount.
PendingGross(pens) ==
  Total(Len(pens),
        [k \in DOMAIN pens |-> IF IsPending(pens[k]) THEN pens[k].amount ELSE 0])

\* What reversal and recomputeCachedOutstanding count: what is still unpaid.
PendingNet(pens) ==
  Total(Len(pens),
        [k \in DOMAIN pens |->
           IF IsPending(pens[k])
           THEN AtLeastZero(pens[k].amount - pens[k].paid) ELSE 0])

TrueOutstanding == ScheduleOutstanding(installments) + PendingNet(penalties)

EarliestDue(insts) ==
  LET first == CHOOSE i \in Unpaid(insts) :
                 \A j \in Unpaid(insts) : DueDay[i] <= DueDay[j]
  IN  DueDay[first]

\* Days past due of the earliest unpaid installment at day d.
Dpd(insts, d) ==
  IF Unpaid(insts) = {} THEN 0 ELSE AtLeastZero(d - EarliestDue(insts))

\* Every status change writes one row of loan_status_history.
Record(from, to) ==
  history' = IF from = to THEN history ELSE [from |-> from, to |-> to]

-----------------------------------------------------------------------------
(* The allocation engine. *)

InterestDues == [i \in Installments |-> Interest[i] - installments[i].interestPaid]
PrincipalDues == [i \in Installments |-> Principal[i] - installments[i].principalPaid]

\* Penalties are taken by period, then by created_at.
PenaltyDues(period) ==
  [k \in DOMAIN penalties |->
     IF IsPending(penalties[k]) /\ penalties[k].period = period
     THEN penalties[k].amount - penalties[k].paid ELSE 0]

PenaltyLeft(budget) ==
  LET left[p \in 0..Periods] ==
        IF p = 0 THEN budget
        ELSE Leftover(left[p - 1], Len(penalties), PenaltyDues(p))
  IN  left

LeftAfter(component, budget) ==
  CASE component = "penalty" -> PenaltyLeft(budget)[Periods]
    [] component = "interest" -> Leftover(budget, N, InterestDues)
    [] component = "principal" -> Leftover(budget, N, PrincipalDues)

\* What is left of the amount when the loop over Order reaches the component.
BudgetOf(component, amount) ==
  LET second == LeftAfter(Order[1], amount)
      third == LeftAfter(Order[2], second)
  IN  CASE Order[1] = component -> amount
        [] Order[1] # component /\ Order[2] = component -> second
        [] OTHER -> third

Allocate(amount) ==
  LET forPenalty == PenaltyLeft(BudgetOf("penalty", amount))
  IN  [penalty |->
         [k \in DOMAIN penalties |->
            LET period == penalties[k].period
            IN  Taken(forPenalty[period - 1], Len(penalties), PenaltyDues(period))[k]],
       interest |-> Taken(BudgetOf("interest", amount), N, InterestDues),
       principal |-> Taken(BudgetOf("principal", amount), N, PrincipalDues)]

PenaltyTotal(alloc) == Total(Len(alloc.penalty), alloc.penalty)
InterestTotal(alloc) == Total(N, alloc.interest)
PrincipalTotal(alloc) == Total(N, alloc.principal)

\* The penalty rows of an allocation carry the installment of the penalty.
PenaltyOn(alloc, i) ==
  Total(Len(alloc.penalty),
        [k \in DOMAIN alloc.penalty |->
           IF penalties[k].installment = i THEN alloc.penalty[k] ELSE 0])

Touches(alloc, i) ==
  alloc.interest[i] # 0 \/ alloc.principal[i] # 0 \/ PenaltyOn(alloc, i) # 0

NoAllocation == [penalty |-> <<>>,
                 interest |-> [i \in Installments |-> 0],
                 principal |-> [i \in Installments |-> 0]]

InstallmentStatus(i, principalPaid, interestPaid) ==
  CASE principalPaid >= Principal[i] /\ interestPaid >= Interest[i] -> "paid"
    [] (principalPaid < Principal[i] \/ interestPaid < Interest[i])
         /\ (principalPaid > 0 \/ interestPaid > 0) -> "partial"
    [] OTHER -> "pending"

InstallmentRow(i, principalPaid, interestPaid, penaltyPaid) ==
  [principalPaid |-> principalPaid,
   interestPaid |-> interestPaid,
   penaltyPaid |-> penaltyPaid,
   status |-> InstallmentStatus(i, principalPaid, interestPaid)]

-----------------------------------------------------------------------------
NoReads == [close |-> "none", quote |-> FALSE, principal |-> 0, interest |-> 0,
            at |-> 0]

\* An approved loan whose schedule has been generated.
Init ==
  /\ loan = [status |-> "approved", cached |-> 0, dpd |-> 0]
  /\ installments = [i \in Installments |-> [principalPaid |-> 0, interestPaid |-> 0,
                                             penaltyPaid |-> 0, status |-> "pending"]]
  /\ penalties = <<>>
  /\ collections = <<>>
  /\ ledger = [a \in Accounts |-> 0]
  /\ quotes = <<>>
  /\ history = [from |-> "under_review", to |-> "approved"]
  /\ reads = NoReads
  /\ day = 0

TotalPrincipal == Total(N, Principal)
TotalInterest == Total(N, Interest)

\* The disbursement writes two history rows, approved -> disbursed -> active.
Disburse ==
  /\ loan.status = "approved"
  /\ TotalPrincipal - ProcessingFee > 0
  /\ Post(Entry(ProcessingFee - TotalPrincipal, TotalPrincipal, 0,
                - ProcessingFee, 0, 0))
  /\ loan' = [status |-> "active", cached |-> TotalPrincipal + TotalInterest, dpd |-> 0]
  /\ history' = [from |-> "disbursed", to |-> "active"]
  /\ UNCHANGED <<installments, penalties, collections, quotes, reads, day>>

\* Slip: interest is credited to the receivable.
CollectionEntryToReceivable(alloc) ==
  Entry(PrincipalTotal(alloc) + InterestTotal(alloc) + PenaltyTotal(alloc),
        - (PrincipalTotal(alloc) + InterestTotal(alloc)), 0, 0, - PenaltyTotal(alloc), 0)

CollectionEntry(alloc) ==
  Entry(PrincipalTotal(alloc) + InterestTotal(alloc) + PenaltyTotal(alloc),
        - PrincipalTotal(alloc), - InterestTotal(alloc), 0, - PenaltyTotal(alloc), 0)

StatusAfterCollection(insts, outstanding) ==
  CASE Unpaid(insts) = {} /\ Magnitude(outstanding) <= 1 -> "closed"
    [] \E i \in Unpaid(insts) : DueDay[i] <= day -> "overdue"
    [] OTHER -> "active"

InstallmentsAfter(alloc) ==
  [i \in Installments |->
     IF Touches(alloc, i)
     THEN InstallmentRow(i, installments[i].principalPaid + alloc.principal[i],
                            installments[i].interestPaid + alloc.interest[i],
                            installments[i].penaltyPaid + PenaltyOn(alloc, i))
     ELSE installments[i]]

PenaltiesAfter(alloc) ==
  [k \in DOMAIN penalties |->
     IF alloc.penalty[k] > 0
     THEN [penalties[k] EXCEPT
             !.paid = @ + alloc.penalty[k],
             !.isPaid = penalties[k].paid + alloc.penalty[k] >= penalties[k].amount]
     ELSE penalties[k]]

PostCollection(amount) ==
  LET gross == ScheduleOutstanding(installments) + PendingGross(penalties)
      alloc == Allocate(amount)
      entry == CollectionEntry(alloc)
      paid  == InstallmentsAfter(alloc)
      to    == StatusAfterCollection(paid, gross - amount)
  IN  /\ loan.status \in Live
      /\ amount <= gross
      /\ Accepted(entry, entry["cash"])
      /\ Len(collections) < MaxCollections
      /\ Post(entry)
      /\ collections' = Append(collections,
           [kind |-> "payment", amount |-> amount, status |-> "posted", original |-> 0,
            alloc |-> alloc, entry |-> entry, receipt |-> "issued"])
      /\ penalties' = PenaltiesAfter(alloc)
      /\ installments' = paid
      /\ loan' = [status |-> to, cached |-> AtLeastZero(gross - amount),
                  dpd |-> Dpd(paid, day)]
      /\ Record(loan.status, to)
      /\ UNCHANGED <<quotes, reads, day>>

-----------------------------------------------------------------------------
Negated(alloc) ==
  [penalty |-> [k \in DOMAIN alloc.penalty |-> - alloc.penalty[k]],
   interest |-> [i \in Installments |-> - alloc.interest[i]],
   principal |-> [i \in Installments |-> - alloc.principal[i]]]

Restored(alloc) ==
  [i \in Installments |->
     IF Touches(alloc, i)
     THEN InstallmentRow(i,
            AtLeastZero(installments[i].principalPaid - alloc.principal[i]),
            AtLeastZero(installments[i].interestPaid - alloc.interest[i]),
            AtLeastZero(installments[i].penaltyPaid - PenaltyOn(alloc, i)))
     ELSE installments[i]]

PenaltyAllocated(alloc, k) ==
  IF k \in DOMAIN alloc.penalty THEN alloc.penalty[k] ELSE 0

\* Slip: the payment is taken back, the flag stays.
PenaltiesRestoredKeepingFlag(alloc) ==
  [k \in DOMAIN penalties |->
     [penalties[k] EXCEPT !.paid = @ - PenaltyAllocated(alloc, k)]]

\* Slip: the flag is cleared, the payment is not taken back.
PenaltiesRestoredKeepingPaid(alloc) ==
  [k \in DOMAIN penalties |->
     IF PenaltyAllocated(alloc, k) > 0
     THEN [penalties[k] EXCEPT !.isPaid = FALSE] ELSE penalties[k]]

PenaltiesRestored(alloc) ==
  [k \in DOMAIN penalties |->
     IF PenaltyAllocated(alloc, k) > 0
     THEN [penalties[k] EXCEPT !.paid = @ - PenaltyAllocated(alloc, k), !.isPaid = FALSE]
     ELSE penalties[k]]

\* Slip: only chained reversals are refused.
ReversibleAgain(c) == collections[c].kind # "reversal"

Reversible(c) == collections[c].kind # "reversal" /\ collections[c].status = "posted"

\* The reversal looks at neither the status of the loan nor whether the
\* collection is a foreclosure settlement, and leaves the status as it is.
ReverseCollection(c) ==
  LET alloc == collections[c].alloc
      mirror == [a \in Accounts |-> - collections[c].entry[a]]
      insts == Restored(alloc)
      pens  == PenaltiesRestored(alloc)
  IN  /\ Reversible(c)
      /\ \A k \in DOMAIN pens : pens[k].paid >= 0     \* CHECK on penalties
      /\ Accepted(mirror, - mirror["cash"])
      /\ Len(collections) < MaxCollections
      /\ Post(mirror)
      /\ collections' = Append(
           [collections EXCEPT ![c].status = "reversed", ![c].receipt = "reversed"],
           [kind |-> "reversal", amount |-> - collections[c].amount, status |-> "posted",
            original |-> c, alloc |-> Negated(alloc), entry |-> mirror,
            receipt |-> "issued"])
      /\ penalties' = pens
      /\ installments' = insts
      /\ loan' = [loan EXCEPT
                    !.cached = AtLeastZero(ScheduleOutstanding(insts) + PendingNet(pens)),
                    !.dpd = Dpd(insts, day)]
      /\ UNCHANGED <<quotes, history, reads, day>>

-----------------------------------------------------------------------------
PenaltyAmount(overdue) ==
  CASE PenaltyType = "flat_per_period" -> PenaltyValue
    [] PenaltyType = "percentage_of_overdue" -> HalfUp(overdue * PenaltyValue, 10000)

\* handleStatusTransition: any other status is left alone.
StatusForDpd(dpd) ==
  CASE loan.status = "active" /\ dpd > 0 -> "overdue"
    [] loan.status = "overdue" /\ dpd = 0 -> "active"
    [] OTHER -> loan.status

\* calculateAndPost; the caller chooses the reference date.
PostPenalty(i, period, reference) ==
  LET overdue == (Principal[i] - installments[i].principalPaid)
                   + (Interest[i] - installments[i].interestPaid)
      amount  == PenaltyAmount(overdue)
      dpd     == Dpd(installments, reference)
  IN  /\ loan.status \in Live
      /\ AtLeastZero(reference - DueDay[i]) > GraceDays
      /\ ~ FullyPaid(installments, i)
      /\ \A k \in DOMAIN penalties :
           ~ (penalties[k].installment = i /\ penalties[k].period = period)
      /\ amount > 0
      /\ Post(Entry(0, amount, 0, 0, - amount, 0))
      /\ penalties' = Append(penalties,
           [installment |-> i, period |-> period, amount |-> amount, paid |-> 0,
            isPaid |-> FALSE, isWaived |-> FALSE])
      /\ loan' = [status |-> StatusForDpd(dpd), cached |-> loan.cached + amount, dpd |-> dpd]
      /\ Record(loan.status, StatusForDpd(dpd))
      /\ UNCHANGED <<installments, collections, quotes, reads, day>>

\* Slip: the whole penalty leaves the outstanding, what was paid of it twice.
WaivedPaiseInFull(p) == p.amount

WaivedPaise(p) == AtLeastZero(p.amount - p.paid)

\* No journal entry, and no look at the status of the loan.
WaivePenalty(k) ==
  LET dpd == Dpd(installments, day)
  IN  /\ IsPending(penalties[k])
      /\ penalties' = [penalties EXCEPT ![k].isWaived = TRUE]
      /\ loan' = [status |-> StatusForDpd(dpd),
                  cached |-> AtLeastZero(loan.cached - WaivedPaise(penalties[k])), dpd |-> dpd]
      /\ Record(loan.status, StatusForDpd(dpd))
      /\ UNCHANGED <<installments, collections, ledger, quotes, reads, day>>

-----------------------------------------------------------------------------
OutstandingPrincipal ==
  AtLeastZero(Total(N, [i \in Installments |-> Principal[i] - installments[i].principalPaid]))

\* Flat: pro rata over the term, less the interest paid.  Reducing balance:
\* daily on the principal outstanding, from the disbursement (the accrual
\* checkpoint is moved by no payment).
AccruedInterest(at) ==
  IF InterestType = "flat"
  THEN LET term == IF DueDay[N] > 1 THEN DueDay[N] ELSE 1
           elapsed == Lesser(term, AtLeastZero(at))
           paid == Total(N, [i \in Installments |-> installments[i].interestPaid])
       IN  AtLeastZero(HalfUp(TotalInterest * elapsed, term) - paid)
  ELSE HalfUp(OutstandingPrincipal * RateNum * AtLeastZero(at), RateDen)

\* createQuote reads the loan and its schedule ...
ReadForQuote ==
  /\ ~ reads.quote
  /\ Len(quotes) < MaxQuotes
  /\ loan.status \in Live
  /\ reads' = [reads EXCEPT !.quote = TRUE, !.principal = OutstandingPrincipal,
                            !.interest = AccruedInterest(day), !.at = day]
  /\ UNCHANGED <<loan, installments, penalties, collections, ledger, quotes,
                 history, day>>

\* ... then the penalties, and writes the quote.
CreateQuote(rebate) ==
  LET dues == reads.principal + reads.interest + PendingGross(penalties)
  IN  /\ reads.quote
      /\ rebate <= dues
      /\ quotes' = Append(quotes,
           [principal |-> reads.principal, interest |-> reads.interest,
            penalties |-> PendingGross(penalties), rebate |-> rebate,
            settlement |-> dues - rebate, expires |-> reads.at + QuoteDays,
            status |-> "quote"])
      /\ reads' = [NoReads EXCEPT !.close = reads.close]
      /\ UNCHANGED <<loan, installments, penalties, collections, ledger,
                     history, day>>

\* createQuote fails between its reads and its write: the rebate is refused.
AbandonQuote ==
  /\ reads.quote
  /\ reads' = [NoReads EXCEPT !.close = reads.close]
  /\ UNCHANGED <<loan, installments, penalties, collections, ledger, quotes,
                 history, day>>

\* Slip: the freshness check ignores the interest accrued since the quote.
LiveSettlementWithoutInterest(rebate) ==
  AtLeastZero(OutstandingPrincipal + PendingGross(penalties) - rebate)

LiveSettlement(rebate) ==
  AtLeastZero(OutstandingPrincipal + AccruedInterest(day) + PendingGross(penalties) - rebate)

SettlementEntry(q) ==
  Entry(q.settlement, - q.principal, - q.interest, 0, - q.penalties, q.rebate)

\* Slip: a loan another quote has settled is settled again.
ForeclosableUnlessClosed == loan.status # "closed"

Foreclosable == loan.status \in Live

\* The amounts posted are the quoted ones; the installments and penalties
\* closed are the ones found now.
ExecuteForeclosure(n) ==
  LET q == quotes[n]
  IN  /\ q.status = "quote"
      /\ day <= q.expires
      /\ Foreclosable
      /\ Magnitude(LiveSettlement(q.rebate) - q.settlement) <= QuoteDrift
      /\ Accepted(SettlementEntry(q), q.settlement)
      /\ Len(collections) < MaxCollections
      /\ Post(SettlementEntry(q))
      /\ collections' = Append(collections,
           [kind |-> "settlement", amount |-> q.settlement, status |-> "posted",
            original |-> 0, alloc |-> NoAllocation, entry |-> SettlementEntry(q),
            receipt |-> "issued"])
      /\ installments' = [i \in Installments |->
           IF installments[i].status \in {"paid", "closed"} THEN installments[i]
           ELSE [installments[i] EXCEPT !.status = "closed"]]
      /\ penalties' = [k \in DOMAIN penalties |->
           IF IsPending(penalties[k]) THEN [penalties[k] EXCEPT !.isPaid = TRUE]
           ELSE penalties[k]]
      /\ loan' = [status |-> "foreclosed", cached |-> 0, dpd |-> 0]
      /\ Record(loan.status, "foreclosed")
      /\ quotes' = [quotes EXCEPT ![n].status = "settled"]
      /\ UNCHANGED <<reads, day>>

-----------------------------------------------------------------------------
\* closeLoan validates the transition on a row it reads before its transaction ...
ReadForClose ==
  /\ reads.close = "none"
  /\ loan.status \in Live
  /\ reads' = [reads EXCEPT !.close = loan.status]
  /\ UNCHANGED <<loan, installments, penalties, collections, ledger, quotes,
                 history, day>>

\* Slip: the cached balance stands for every prerequisite.
ClosurePrerequisitesByBalance == Magnitude(loan.cached) <= 1

ClosurePrerequisites ==
  /\ \A i \in Installments : installments[i].status \in {"paid", "closed"}
  /\ \A k \in DOMAIN penalties : ~ IsPending(penalties[k])
  /\ \A c \in DOMAIN collections :
       ~ (/\ collections[c].kind = "reversal"
          /\ collections[collections[c].original].status = "posted")
  /\ Magnitude(loan.cached) <= 1

\* ... and under the lock checks the prerequisites again, not the status.
CloseLoan ==
  /\ reads.close # "none"
  /\ ClosurePrerequisites
  /\ loan' = [loan EXCEPT !.status = "closed"]
  /\ history' = [from |-> reads.close, to |-> "closed"]
  /\ reads' = [reads EXCEPT !.close = "none"]
  /\ UNCHANGED <<installments, penalties, collections, ledger, quotes, day>>

RefuseClose ==
  /\ reads.close # "none"
  /\ ~ ClosurePrerequisites
  /\ reads' = [reads EXCEPT !.close = "none"]
  /\ UNCHANGED <<loan, installments, penalties, collections, ledger, quotes,
                 history, day>>

-----------------------------------------------------------------------------
Tick ==
  /\ loan.status # "approved"
  /\ day < MaxDay
  /\ day' = day + 1
  /\ UNCHANGED <<loan, installments, penalties, collections, ledger, quotes,
                 history, reads>>

Next ==
  \/ Disburse
  \/ \E amount \in Amounts : PostCollection(amount)
  \/ \E c \in DOMAIN collections : ReverseCollection(c)
  \/ \E i \in Installments, period \in 1..Periods, reference \in 0..MaxDay :
       PostPenalty(i, period, reference)
  \/ \E k \in DOMAIN penalties : WaivePenalty(k)
  \/ ReadForQuote
  \/ \E rebate \in Rebates : CreateQuote(rebate)
  \/ AbandonQuote
  \/ \E n \in DOMAIN quotes : ExecuteForeclosure(n)
  \/ ReadForClose
  \/ CloseLoan
  \/ RefuseClose
  \/ Tick

Spec == Init /\ [][Next]_vars

-----------------------------------------------------------------------------
(* Properties *)

InstallmentRows ==
  [principalPaid : Nat, interestPaid : Nat, penaltyPaid : Nat,
   status : {"pending", "partial", "paid", "closed"}]

PenaltyRows ==
  [installment : Installments, period : 1..Periods, amount : Nat, paid : Nat,
   isPaid : BOOLEAN, isWaived : BOOLEAN]

Allocations ==
  [penalty : Seq(Int), interest : [Installments -> Int], principal : [Installments -> Int]]

CollectionRows ==
  [kind : {"payment", "reversal", "settlement"}, amount : Int,
   status : {"posted", "reversed"}, original : Nat, alloc : Allocations,
   entry : [Accounts -> Int], receipt : {"issued", "reversed"}]

QuoteRows ==
  [principal : Nat, interest : Nat, penalties : Nat, rebate : Nat, settlement : Nat,
   expires : Nat, status : {"quote", "settled"}]

\* Every variable holds a value the schema allows, and the newest row of the
\* status history is the status of the loan.
TypeOK ==
  /\ loan \in [status : {"approved"} \union Live \union Terminal, cached : Nat, dpd : Nat]
  /\ installments \in [Installments -> InstallmentRows]
  /\ penalties \in Seq(PenaltyRows)
  /\ collections \in Seq(CollectionRows)
  /\ ledger \in [Accounts -> Int]
  /\ quotes \in Seq(QuoteRows)
  /\ history.to = loan.status
  /\ reads \in [close : {"none"} \union Live, quote : BOOLEAN, principal : Nat,
                interest : Nat, at : Nat]
  /\ day \in 0..MaxDay

\* No sequence of payments and reversals leaves an installment or a penalty
\* paid beyond its due, or below zero (allocate, restoreInstallments, the
\* CHECK on penalties).
NeverOverpaid ==
  /\ \A i \in Installments : /\ installments[i].principalPaid \in 0..Principal[i]
                             /\ installments[i].interestPaid \in 0..Interest[i]
  /\ \A k \in DOMAIN penalties : penalties[k].paid \in 0..penalties[k].amount

Allocated(component, i) ==
  Total(Len(collections),
        [c \in DOMAIN collections |-> collections[c].alloc[component][i]])

AllocatedToPenalty(k) ==
  Total(Len(collections),
        [c \in DOMAIN collections |->
           IF k \in DOMAIN collections[c].alloc.penalty
           THEN collections[c].alloc.penalty[k] ELSE 0])

PenaltyPaidOn(i) ==
  Total(Len(penalties),
        [k \in DOMAIN penalties |->
           IF penalties[k].installment = i THEN penalties[k].paid ELSE 0])

\* What the schedule and the penalties say was paid is the sum of the
\* allocation rows, reversals included: the two records of a payment, written
\* by different loops of postCollection and of reverseCollection, agree.
PaidIsNetAllocated ==
  /\ \A i \in Installments :
       /\ installments[i].principalPaid = Allocated("principal", i)
       /\ installments[i].interestPaid = Allocated("interest", i)
       /\ installments[i].penaltyPaid = PenaltyPaidOn(i)
  /\ \A k \in DOMAIN penalties : penalties[k].paid = AllocatedToPenalty(k)

\* What settlements that stand have posted to an account.
PostedBySettlement(a) ==
  Total(Len(collections),
        [c \in DOMAIN collections |->
           IF collections[c].kind = "settlement" /\ collections[c].status = "posted"
           THEN collections[c].entry[a] ELSE 0])

PenaltyCharged == Total(Len(penalties), [k \in DOMAIN penalties |-> penalties[k].amount])
PenaltyPaid == Total(Len(penalties), [k \in DOMAIN penalties |-> penalties[k].paid])
InterestPaid == Total(N, [i \in Installments |-> installments[i].interestPaid])
PrincipalOutstanding ==
  Total(N, [i \in Installments |-> Principal[i] - installments[i].principalPaid])

\* The general ledger can be derived from the schedule and the penalties: 1100
\* carries the unpaid principal and every penalty charged, 4001 the interest
\* paid, 4003 every penalty once when it is charged and again when it is paid.
\* A posting that a handler books on one side only breaks it.
LedgerTiesToAccounts ==
  loan.status # "approved" =>
    /\ ledger["receivable"] - PostedBySettlement("receivable")
         = PrincipalOutstanding + PenaltyCharged
    /\ ledger["interest"] - PostedBySettlement("interest") = - InterestPaid
    /\ ledger["penalty"] - PostedBySettlement("penalty") = - (PenaltyCharged + PenaltyPaid)
    /\ ledger["fee"] = - ProcessingFee
    /\ ledger["discount"] = PostedBySettlement("discount")
    /\ ledger["cash"] - PostedBySettlement("cash")
         = ProcessingFee - PrincipalOutstanding + InterestPaid + PenaltyPaid

\* While the loan can be paid, its cached outstanding is never less than what
\* is owed, and more by no more than the penalty payments that postCollection
\* counts as still owed.
CachedBracketsOutstanding ==
  loan.status \in Live =>
    TrueOutstanding <= loan.cached /\ loan.cached <= TrueOutstanding + PenaltyPaid

\* Exactly one compensating collection for each reversed one, none for any
\* other, and the two cancel in cash, allocation and ledger.
ReversalsPairUp ==
  \A c \in DOMAIN collections :
    LET reversalsOf == {r \in DOMAIN collections :
                          collections[r].kind = "reversal" /\ collections[r].original = c}
    IN  IF collections[c].status = "reversed"
        THEN \E r \in DOMAIN collections :
               /\ reversalsOf = {r}
               /\ collections[c].kind # "reversal"
               /\ collections[r].amount + collections[c].amount = 0
               /\ \A a \in Accounts : collections[r].entry[a] + collections[c].entry[a] = 0
               /\ collections[r].alloc = Negated(collections[c].alloc)
               /\ collections[c].receipt = "reversed"
        ELSE reversalsOf = {} /\ collections[c].receipt = "issued"

\* A penalty is never both paid and waived; one that is open still has
\* something to pay; and unless a foreclosure wrote it off, one marked paid is.
PaidFlagsFollowPayments ==
  \A k \in DOMAIN penalties :
    /\ ~ (penalties[k].isPaid /\ penalties[k].isWaived)
    /\ ~ penalties[k].isPaid => penalties[k].paid < penalties[k].amount
    /\ (penalties[k].isPaid /\ penalties[k].paid < penalties[k].amount)
         => \E c \in DOMAIN collections : collections[c].kind = "settlement"

\* A loan is foreclosed once: however many quotes are open, one settlement is
\* posted, and it belongs to the one settled quote.
SettledOnce ==
  /\ \A c, d \in DOMAIN collections :
       collections[c].kind = "settlement" /\ collections[d].kind = "settlement" => c = d
  /\ (\E c \in DOMAIN collections : collections[c].kind = "settlement")
       <=> (\E n \in DOMAIN quotes : quotes[n].status = "settled")
  /\ loan.status = "foreclosed" => \E n \in DOMAIN quotes : quotes[n].status = "settled"

\* The interest that has accrued and was not paid.  AccruedInterest takes the
\* payments off for a flat loan alone: for a reducing balance its comment
\* counts on a checkpoint that no payment moves.
InterestOwed(at) ==
  IF InterestType = "flat" THEN AccruedInterest(at)
  ELSE AtLeastZero(AccruedInterest(at) - InterestPaid)

\* So a reducing-balance settlement takes interest that was paid once more.
InterestTakenAgain == IF InterestType = "flat" THEN 0 ELSE InterestPaid

\* The cash a settlement takes is what is owed when it is executed, less the
\* rebate, although the amounts were read when the quote was made: short of it
\* by the tolerance at most, and over it by the tolerance, the penalty
\* payments that the quote counts as still owed and, with a reducing balance,
\* the interest already paid.
SettlementCoversDues ==
  [][\A n \in DOMAIN quotes :
       quotes[n].status = "quote" /\ quotes'[n].status = "settled" =>
         LET cash == ledger'["cash"] - ledger["cash"]
             owed == PrincipalOutstanding + InterestOwed(day) + PendingNet(penalties)
                       - quotes[n].rebate
         IN  /\ cash >= owed - QuoteDrift
             /\ cash <= AtLeastZero(owed) + QuoteDrift + PenaltyPaid + InterestTakenAgain]_vars

\* A live loan closes only when every installment is paid and at most a paisa
\* is owed, whether the last payment closes it or closeLoan does on a row that
\* was read before the lock.
ClosesOnlySettled ==
  [][loan.status \in Live /\ loan'.status = "closed"
       => Unpaid(installments') = {} /\ TrueOutstanding' <= 1]_vars

\* Stated by docs/finance-invariants.md:8, Outstanding Accuracy: the cached
\* balance of a live loan is what is still owed on it.
OutstandingAccuracy == loan.status \in Live => loan.cached = TrueOutstanding

\* Stated by foreclosure.service.ts:119-121 and 792-794: with a reducing balance
\* the interest of a settlement accrues from the last payment, because payments
\* have moved the accrual checkpoint forward.
PaymentsMoveTheCheckpoint ==
  [][InterestType = "reducing_balance" /\ InterestPaid' > InterestPaid
       => AccruedInterest(day)' = 0]_vars
=============================================================================
