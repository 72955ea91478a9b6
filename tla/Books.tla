------------------------------- MODULE Books -------------------------------
(***************************************************************************)
(* The books: journal entries, the cash transactions written beside them,  *)
(* the statements computed from both, and the handovers of cash.           *)
(*                                                                         *)
(* Every voucher is posted through AccountingService.createJournalEntry in *)
(* the transaction of its caller, so an entry and its cash transactions    *)
(* appear at once.  A voucher of a business day has the date column of the *)
(* day before: parseDateIST gives midnight in India, which is still the    *)
(* evening before in UTC, and the column keeps the UTC day.                *)
(***************************************************************************)
EXTENDS Paise, Sequences, FiniteSets

CONSTANTS
  Days,          \* business days
  Amounts,       \* amounts of a voucher, in paise
  Staff,         \* users
  Receivers,     \* users who are active super_admin, manager or accountant
  Verifiers,     \* verifications that may be under way at once
  MaxEntries,    \* bound: rows of journal_entries
  MaxHandovers,  \* bound: rows of cash_handover_records
  MaxVerdicts,   \* bound: verifications written
  None

ASSUME BooksAssumption ==
  /\ Days \subseteq Nat \ {0} /\ Amounts \subseteq Nat
  /\ Receivers \subseteq Staff
  /\ MaxEntries \in Nat /\ MaxHandovers \in Nat /\ MaxVerdicts \in Nat
  /\ None \notin Nat /\ None \notin Staff

VARIABLES
  journal,    \* journal_entries with their lines
  cash,       \* cash_transactions
  handovers,  \* cash_handover_records
  audit,      \* cash_handover_verified rows of the audit log
  reading     \* the verifyHandover of each verifier

vars == <<journal, cash, handovers, audit, reading>>
ledger == <<journal, cash>>
handing == <<handovers, audit, reading>>

Init ==
  /\ journal = <<>>
  /\ cash = <<>>
  /\ handovers = <<>>
  /\ audit = <<>>
  /\ reading = [v \in Verifiers |-> None]

-----------------------------------------------------------------------------
(* Accounts *)

Cash == "1001"
Bank == "1002"
Receivable == "1100"
Interest == "4001"
Fees == "4002"
Penalties == "4003"
Discount == "5007"
Chart == <<Cash, Bank, Receivable, Interest, Fees, Penalties, Discount, "5001", "5004", "5099">>
Accounts == {Chart[i] : i \in DOMAIN Chart}

Category(a) ==
  CASE a \in {Cash, Bank, Receivable} -> "asset"
    [] a \in {Interest, Fees, Penalties} -> "income"
    [] OTHER -> "expense"

DebitNormal(a) == Category(a) \in {"asset", "expense"}

\* mapCategoryToAccountCode, for some of its categories
ExpenseAccount(category) ==
  CASE category = "salary" -> "5001"
    [] category \in {"office", "office_supplies"} -> "5004"
    [] OTHER -> "5099"

Debit(a, n) == <<[account |-> a, debit |-> n, credit |-> 0]>>
Credit(a, n) == <<[account |-> a, debit |-> 0, credit |-> n]>>
\* Only lines that are not zero are pushed.
CreditIf(a, n) == IF n > 0 THEN Credit(a, n) ELSE <<>>
DebitIf(a, n) == IF n > 0 THEN Debit(a, n) ELSE <<>>

-----------------------------------------------------------------------------
(* createJournalEntry *)

\* What the lines on some accounts carry.
DebitsOn(accounts, lines) ==
  Total(Len(lines), [k \in DOMAIN lines |->
                       IF lines[k].account \in accounts THEN lines[k].debit ELSE 0])
CreditsOn(accounts, lines) ==
  Total(Len(lines), [k \in DOMAIN lines |->
                       IF lines[k].account \in accounts THEN lines[k].credit ELSE 0])

Debits(lines) == DebitsOn(Accounts, lines)
Credits(lines) == CreditsOn(Accounts, lines)

Acceptable(lines) ==
  /\ \A i \in DOMAIN lines :
       /\ lines[i].debit >= 0 /\ lines[i].credit >= 0
       /\ lines[i].debit > 0 <=> lines[i].credit = 0
  /\ Debits(lines) = Credits(lines)
  /\ Debits(lines) # 0

Money == {Cash, Bank}

\* maybeWriteCashTransaction: the net movement, or both sides of a transfer.
CashRows(date, lines) ==
  LET in == DebitsOn(Money, lines)
      out == CreditsOn(Money, lines)
      Moved(type, n) == <<[date |-> date, type |-> type, amount |-> n]>>
  IN  CASE in > out -> Moved("inflow", in - out)
        [] out > in -> Moved("outflow", out - in)
        [] in = out /\ in > 0 -> Moved("inflow", in) \o Moved("outflow", out)
        [] OTHER -> <<>>

\* The date column of a row of a business day.
Stored(day) == day - 1

Post(day, lines) ==
  /\ Len(journal) < MaxEntries
  /\ Acceptable(lines)
  /\ journal' = Append(journal, [date |-> Stored(day), lines |-> lines])
  /\ cash' = cash \o CashRows(Stored(day), lines)
  /\ UNCHANGED handing

-----------------------------------------------------------------------------
(* The vouchers *)

\* CashbookService.createExpense
CreateExpense(day, category, amount, from) ==
  Post(day, Debit(ExpenseAccount(category), amount) \o Credit(from, amount))

\* CollectionService.buildJournalLines
Collect(day, into, principal, interest, penalty) ==
  Post(day, Debit(into, principal + interest + penalty)
              \o CreditIf(Receivable, principal)
              \o CreditIf(Interest, interest)
              \o CreditIf(Penalties, penalty))

\* DisbursementService.executeDisbursement: a fee as large as the loan leaves a
\* line of zero, which is refused.
Disburse(day, from, gross, fee) ==
  Post(day, Debit(Receivable, gross) \o Credit(from, gross - fee) \o CreditIf(Fees, fee))

\* PenaltyService.executeCalculateAndPost
PostPenalty(day, amount) ==
  Post(day, Debit(Receivable, amount) \o Credit(Penalties, amount))

\* ForeclosureService.buildSettlementJournalLines: the rebate is a debit of its
\* own, so the settlement is what is owed less the rebate.
Foreclose(day, into, principal, interest, rebate) ==
  Post(day, Debit(into, principal + interest - rebate)
              \o DebitIf(Discount, rebate)
              \o CreditIf(Receivable, principal)
              \o CreditIf(Interest, interest))

\* ReversalService: the mirror of the entry, on the day of the reversal.
Mirror(lines) ==
  [i \in DOMAIN lines |-> [lines[i] EXCEPT !.debit = lines[i].credit, !.credit = lines[i].debit]]

ReverseEntry(day, i) == Post(day, Mirror(journal[i].lines))

-----------------------------------------------------------------------------
(* The statements *)

\* The turnover of some accounts on some dates.
Debited(accounts, dates) ==
  Total(Len(journal), [i \in DOMAIN journal |->
    IF journal[i].date \in dates THEN DebitsOn(accounts, journal[i].lines) ELSE 0])
Credited(accounts, dates) ==
  Total(Len(journal), [i \in DOMAIN journal |->
    IF journal[i].date \in dates THEN CreditsOn(accounts, journal[i].lines) ELSE 0])

\* The balance of an account on its normal side.
Balance(a, dates) ==
  IF DebitNormal(a) THEN Debited({a}, dates) - Credited({a}, dates)
  ELSE Credited({a}, dates) - Debited({a}, dates)

UpTo(date) == 0..date

OfCategory(c) == {a \in Accounts : Category(a) = c}
SumOver(c, dates) ==
  Total(Len(Chart), [i \in DOMAIN Chart |->
                       IF Category(Chart[i]) = c THEN Balance(Chart[i], dates) ELSE 0])

\* Slip: an account overdrawn stays in the column of its normal side.
OwnColumn(a, side, dates) ==
  IF (side = "debit") = DebitNormal(a) THEN Magnitude(Balance(a, dates)) ELSE 0

\* getTrialBalance: an account overdrawn changes its column.
Column(a, side, dates) ==
  LET b == Balance(a, dates)
  IN  IF (side = "debit") = (DebitNormal(a) = (b >= 0)) THEN Magnitude(b) ELSE 0

TrialBalance(date) ==
  LET Sum(side) ==
        Total(Len(Chart), [i \in DOMAIN Chart |-> Column(Chart[i], side, UpTo(date))])
  IN  [debit |-> Sum("debit"), credit |-> Sum("credit")]

\* getProfitAndLoss: first and last are read as UTC days.
NetProfit(first, last) == SumOver("income", first..last) - SumOver("expense", first..last)

\* getBalanceSheet
LiabilitiesAndEquity(date) ==
  LET Sum(c) == SumOver(c, UpTo(date))
  IN  Sum("liability") + Sum("equity") + Sum("income") - Sum("expense")

Assets(date) == SumOver("asset", UpTo(date))

\* getBalanceBeforeDate, getCashTransactionsForDate, computeDailySummary
Flow(type, dates) ==
  Total(Len(cash), [i \in DOMAIN cash |->
    IF cash[i].type = type /\ cash[i].date \in dates THEN cash[i].amount ELSE 0])

Opening(day) ==
  LET before == UpTo(Stored(day) - 1)
  IN  Flow("inflow", before) - Flow("outflow", before)

Closing(day) ==
  LET today == {Stored(day)}
  IN  Opening(day) + Flow("inflow", today) - Flow("outflow", today)

\* getIncomeBySourceForDate: the credits of the day, without the debits of
\* reversals.
IncomeOn(day) == Credited(OfCategory("income"), {Stored(day)})

-----------------------------------------------------------------------------
(* Handovers of cash *)

CreateHandover(officer, receiver) ==
  /\ receiver \in Receivers
  /\ Len(handovers) < MaxHandovers
  /\ handovers' = Append(handovers, [by |-> officer, to |-> receiver,
                                     status |-> "pending", short |-> None])
  /\ UNCHANGED <<ledger, audit, reading>>

\* The body of the request: a discrepancy names its amount, a verification none.
Verdicts ==
  {[status |-> "verified", short |-> None]} \union
  {[status |-> "discrepancy", short |-> n] : n \in Amounts}

\* verifyHandover reads the row and checks it, outside any transaction.
ReadHandover(v, actor, h, verdict) ==
  /\ reading[v] = None
  /\ h \in DOMAIN handovers
  /\ handovers[h].status = "pending"
  /\ handovers[h].by # actor
  /\ Len(audit) < MaxVerdicts
  /\ reading' = [reading EXCEPT ![v] = [actor |-> actor, handover |-> h, verdict |-> verdict]]
  /\ UNCHANGED <<ledger, handovers, audit>>

\* Slip: the fields of a discrepancy are left as they are when there is none.
OnlyGiven(row, verdict) ==
  [row EXCEPT !.status = verdict.status,
              !.short = IF verdict.short = None THEN @ ELSE verdict.short]

\* Every field is written, the absent ones as null.
Verified(row, verdict) == [row EXCEPT !.status = verdict.status, !.short = verdict.short]

\* The transaction updates by id, whatever the row is by now, and logs it.
WriteVerdict(v) ==
  LET r == reading[v]
  IN  /\ r # None
      /\ handovers' = [handovers EXCEPT ![r.handover] = Verified(@, r.verdict)]
      /\ audit' = Append(audit, r)
      /\ reading' = [reading EXCEPT ![v] = None]
      /\ UNCHANGED ledger

Voucher ==
  \/ \E day \in Days, amount \in Amounts :
       \/ \E from \in {Cash, Bank}, c \in {"salary", "office", "other"} :
            CreateExpense(day, c, amount, from)
       \/ PostPenalty(day, amount)
  \/ \E day \in Days, into \in {Cash, Bank}, a, b \in Amounts :
       \/ Collect(day, into, a, b, 0)
       \/ Collect(day, into, a, 0, b)
       \/ b <= a /\ Disburse(day, into, a, b)
       \/ b <= a /\ Foreclose(day, into, a, 0, b)
       \/ b <= a /\ Foreclose(day, into, a, b, b)
  \/ \E day \in Days, i \in DOMAIN journal : ReverseEntry(day, i)

Handing ==
  \/ \E officer, receiver \in Staff : CreateHandover(officer, receiver)
  \/ \E v \in Verifiers, actor \in Staff, h \in DOMAIN handovers, verdict \in Verdicts :
       ReadHandover(v, actor, h, verdict)
  \/ \E v \in Verifiers : WriteVerdict(v)

\* Bound: handovers and entries have no row in common, so no behaviour has both.
Next ==
  \/ handovers = <<>> /\ Voucher
  \/ journal = <<>> /\ Handing

Spec == Init /\ [][Next]_vars

-----------------------------------------------------------------------------
(* Properties *)

TypeOK ==
  /\ \A i \in DOMAIN journal :
       /\ journal[i].date \in {Stored(day) : day \in Days}
       /\ \A k \in DOMAIN journal[i].lines : journal[i].lines[k].account \in Accounts
  /\ \A i \in DOMAIN cash : cash[i].type \in {"inflow", "outflow"} /\ cash[i].amount > 0
  /\ \A h \in DOMAIN handovers :
       /\ handovers[h].by \in Staff /\ handovers[h].to \in Receivers
       /\ handovers[h].status \in {"pending", "verified", "discrepancy"}
       /\ handovers[h].short \in Amounts \union {None}
  /\ \A i \in DOMAIN audit : audit[i].handover \in DOMAIN handovers

Dates == {0} \union Days

TakenBackOn(day) == Debited(OfCategory("income"), {Stored(day)})

SpentOn(day) == SumOver("expense", {Stored(day)})

(* The statements agree with each other on every date: the trial balance
   balances, the assets are the liabilities, the equity and the profit so far,
   and that profit is the sum of the profits of the single days
   (AccountingService.getTrialBalance, getBalanceSheet, getProfitAndLoss). *)
StatementsAgree ==
  \A date \in Dates :
    /\ TrialBalance(date).debit = TrialBalance(date).credit
    /\ Assets(date) = LiabilitiesAndEquity(date)
    /\ LiabilitiesAndEquity(date) =
         Total(date + 1, [d \in 1..date + 1 |-> NetProfit(d - 1, d - 1)])

(* The cash book, which is written beside the journal and never read from it,
   agrees with it on every business day: the closing balance is what the cash
   and bank accounts hold, and the next day opens with it.  What the day
   earned is the profit that getProfitAndLoss shows for the day before
   (CashbookService.getDailySummary, AccountingService.createJournalEntry). *)
CashBookFollowsLedger ==
  \A day \in Days :
    /\ Closing(day) = Balance(Cash, UpTo(Stored(day))) + Balance(Bank, UpTo(Stored(day)))
    /\ day + 1 \in Days => Opening(day + 1) = Closing(day)
    /\ IncomeOn(day) - TakenBackOn(day) - SpentOn(day) = NetProfit(day - 1, day - 1)

(* The books hold together, however the vouchers came about (AccountingService,
   CashbookService).  While there is no entry every figure is zero. *)
BooksAgree == journal # <<>> => StatementsAgree /\ CashBookFollowsLedger

LastVerdict(h) ==
  LET mine == {i \in DOMAIN audit : audit[i].handover = h}
  IN  IF mine = {} THEN None ELSE audit[CHOOSE i \in mine : \A j \in mine : j <= i]

(* However verifications overlap, a handover shows the verdict that was logged
   last, with the amount of a discrepancy exactly when there is one, and no
   verdict came from the officer who handed the cash over
   (CashbookService.verifyHandover). *)
HandoverShowsLastVerdict ==
  \A h \in DOMAIN handovers :
    LET row == handovers[h]
        last == LastVerdict(h)
    IN  /\ row.status = "pending" <=> last = None
        /\ last # None =>
             /\ last.verdict = [status |-> row.status, short |-> row.short]
             /\ last.actor # row.by
=============================================================================
