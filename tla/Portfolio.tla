------------------------------ MODULE Portfolio ------------------------------
(***************************************************************************)
(* The tables the reports and the dashboard read, with the transactions    *)
(* that write them reduced to what those readers can tell apart: a loan    *)
(* has one installment, repaid in Parts payments of one unit of principal  *)
(* and one of interest.  LoanAccount and Books model the writers in full.  *)
(*                                                                         *)
(* A date column keeps the day in UTC of the instant it is given.  Midnight *)
(* in India is still the day before in UTC, and between midnight and half  *)
(* past five ("night") so is the present instant.                          *)
(***************************************************************************)
EXTENDS Paise, Sequences, FiniteSets, SequencesExt, FiniteSetsExt

CONSTANTS
  Loans,       \* loans, each of a customer of its own
  Officers,    \* field officers a customer may be assigned to
  Parts,       \* payments a loan is repaid in
  DueIn,       \* days from the disbursement to the due date
  MaxDay, MaxEntries

PortfolioAssumption ==
  /\ Loans # {} /\ IsFiniteSet(Loans)
  /\ Parts \in Nat \ {0} /\ DueIn \in Nat
  /\ MaxDay \in Nat \ {0} /\ MaxEntries \in Nat

VARIABLES
  day, night,    \* the calendar day in India, and whether it is early
  loans,         \* loans with their customer's officer and their installment
  collections,   \* collections, those that reverse one included
  journal        \* journal_entries with their lines

tables == <<day, night, loans, collections, journal>>

Statuses == {"approved", "active", "overdue", "closed"}
Live == {"active", "overdue"}

\* parseDateIST, todayISTDate: midnight in India, in a date column
Midnight(d) == d - 1
\* new Date() in a date column
UtcDay == IF night THEN day - 1 ELSE day

\* _sum of a query: f over the rows of a finite set
SumOf(f, rows) ==
  LET list == SetToSeq(rows)
  IN  Total(Cardinality(rows), [i \in 1 .. Cardinality(rows) |-> f[list[i]]])

-----------------------------------------------------------------------------
(* The journal *)

Accounts == {"cash", "receivable", "interest", "rent"}

Category(account) ==
  CASE account \in {"cash", "receivable"} -> "asset"
    [] account = "interest" -> "income"
    [] OTHER -> "expense"

Debit(account, n) == [account |-> account, debit |-> n, credit |-> 0]
Credit(account, n) == [account |-> account, debit |-> 0, credit |-> n]
Mirror(lines) ==
  [i \in DOMAIN lines |-> [lines[i] EXCEPT !.debit = lines[i].credit, !.credit = lines[i].debit]]


\* createJournalEntry takes the day and stores its midnight.
Post(date, source, lines) ==
  /\ Len(journal) < MaxEntries
  /\ journal' = Append(journal, [date |-> Midnight(date), source |-> source, lines |-> lines])

-----------------------------------------------------------------------------
(* The writers *)

Payable == 2 * Parts

Init ==
  /\ day = 1 /\ night = FALSE
  /\ loans \in [Loans -> [status : {"approved"}, officer : Officers, dpd : {0},
                          cached : {0}, paid : {0}, due : {0}, disbursed : {0}]]
  /\ collections = <<>>
  /\ journal = <<>>

\* The due date counts from the day, the schedule being made of calendar dates.
Disburse(l) ==
  /\ loans[l].status = "approved"
  /\ Post(day, l, <<Debit("receivable", Parts), Credit("cash", Parts)>>)
  /\ loans' = [loans EXCEPT ![l] = [@ EXCEPT !.status = "active", !.cached = Payable,
                                              !.due = day + DueIn, !.disbursed = day]]
  /\ UNCHANGED <<day, night, collections>>

PastDue(l) == loans[l].due < day
\* computeDpdAndBucket; nothing but a payment, a reversal or a penalty runs it
Dpd(l, paid) == IF paid = Parts \/ ~PastDue(l) THEN 0 ELSE day - loans[l].due

StatusAfterPayment(l, paid) ==
  CASE paid = Parts -> "closed"
    [] loans[l].due <= day -> "overdue"
    [] OTHER -> "active"

\* a payment of today: its date is parsed as a date only
Collect(l) ==
  LET paid == loans[l].paid + 1
  IN  /\ loans[l].status \in Live
      /\ paid <= Parts
      /\ Post(day, l, <<Debit("cash", 2), Credit("receivable", 1), Credit("interest", 1)>>)
      /\ collections' = Append(collections,
           [loan |-> l, amount |-> 2, date |-> day, posted |-> TRUE, reversal |-> FALSE,
            entry |-> Len(journal) + 1])
      /\ loans' = [loans EXCEPT ![l] = [@ EXCEPT !.status = StatusAfterPayment(l, paid),
                                                  !.cached = loans[l].cached - 2,
                                                  !.paid = paid,
                                                  !.dpd = Dpd(l, paid)]]
      /\ UNCHANGED <<day, night>>

\* The row and the entry of a reversal have the date of the instant, and the
\* entry names the collection, not the loan.
ReverseCollection(c) ==
  LET l == collections[c].loan
  IN  /\ collections[c].posted /\ ~collections[c].reversal
      /\ Post(UtcDay, c, Mirror(journal[collections[c].entry].lines))
      /\ collections' = Append([collections EXCEPT ![c].posted = FALSE],
           [loan |-> l, amount |-> -2, date |-> UtcDay, posted |-> TRUE, reversal |-> TRUE,
            entry |-> Len(journal) + 1])
      /\ loans' = [loans EXCEPT ![l] = [@ EXCEPT !.cached = loans[l].cached + 2,
                                                  !.paid = loans[l].paid - 1,
                                                  !.dpd = Dpd(l, loans[l].paid - 1)]]
      /\ UNCHANGED <<day, night>>

\* CashbookService.createExpense; its source is a row no report joins
Spend ==
  /\ Post(day, 0, <<Debit("rent", 1), Credit("cash", 1)>>)
  /\ UNCHANGED <<day, night, loans, collections>>

\* an edit of the customer
Reassign(l, officer) ==
  /\ loans[l].officer # officer
  /\ loans' = [loans EXCEPT ![l].officer = officer]
  /\ UNCHANGED <<day, night, collections, journal>>

\* Nothing recalculates anything when a day begins.
Tick ==
  /\ \/ night /\ night' = FALSE /\ day' = day
     \/ ~night /\ day < MaxDay /\ night' = TRUE /\ day' = day + 1
  /\ UNCHANGED <<loans, collections, journal>>

Write ==
  \/ \E l \in Loans : Disburse(l) \/ Collect(l) \/ \E o \in Officers : Reassign(l, o)
  \/ \E c \in DOMAIN collections : ReverseCollection(c)
  \/ Spend
=============================================================================
