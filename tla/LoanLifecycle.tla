--------------------------- MODULE LoanLifecycle ---------------------------
(***************************************************************************)
(* Loans from the application to the disbursement, the schedule a loan     *)
(* carries, and the product versions its terms come from, with the         *)
(* requests of several members of staff overlapping.                       *)
(*                                                                         *)
(* Every handler reads before it opens its transaction.  It is an action   *)
(* that reads and checks, leaving in "requests" what the rest of the       *)
(* handler still uses, and an action that writes.  In between the request  *)
(* may die (Abandon), which is also what a write that is refused comes to. *)
(*                                                                         *)
(* What happens to a disbursed loan is seen from here only as far as these *)
(* handlers look at it: whether money was collected, and the status.  The  *)
(* module LoanAccount has the rest.                                        *)
(***************************************************************************)
EXTENDS Schedule

CONSTANTS
  MaxLoans,      \* bound: loans ever created
  Customers,
  Staff,
  Unrestricted,  \* staff whose role is not held to its own customers
  Bypass,        \* staff exempt from maker-checker (super_admin)
  Officer,       \* assigned_officer_id of each customer, or Nobody
  Documented,    \* customers with an active verified document
  FirstTerms,    \* terms of version 1 of the product
  Rates,         \* bound: the annual rates an edit of the product may set
  Caps,          \* bound: the max_concurrent_loans an edit may set
  Principals,    \* bound: principals an application may name
  Tenures,       \* bound: tenures an application may name
  FirstDates,    \* bound: firstEmiDate values a request may carry
  Days,          \* bound: the days on which somebody acts
  MaxVersion,    \* bound: versions of a loan row
  MaxEdits,      \* bound: version numbers of the product
  AuditPrincipals, AuditRates, AuditTenures, AuditDays,
                 \* bounds: the inputs SchedulesAddUp tries
  Nobody, NoDay

\* The columns of a product version.
Terms == [interestType : {"flat", "reducing_balance"}, rate : Nat,
          frequency : Frequencies, minPrincipal : Nat, maxPrincipal : Nat,
          minTenure : Nat, maxTenure : Nat, maxConcurrent : Nat]

ASSUME StaffAssumption ==
  /\ Unrestricted \subseteq Staff /\ Bypass \subseteq Staff
  /\ Officer \in [Customers -> Staff \union {Nobody}]
  /\ Documented \subseteq Customers
  /\ Nobody \notin Staff /\ NoDay \notin Int

ASSUME LifecycleBoundAssumption ==
  /\ MaxLoans \in Nat /\ MaxVersion \in Nat \ {0} /\ MaxEdits \in Nat \ {0}
  /\ Days \subseteq Nat /\ IsFiniteSet(Days) /\ Days # {}
  /\ Principals \subseteq Nat \ {0} /\ Tenures \subseteq Nat \ {0}
  /\ Rates \subseteq Nat /\ Caps \subseteq Nat /\ FirstDates \subseteq Int
  /\ FirstTerms \in Terms

\* Bound: the calendar reaches over every schedule that can be asked for.
ASSUME CalendarReaches ==
  \A tenure \in Tenures :
    /\ \A d \in Days : InCalendar(d, 0, tenure)
    /\ \A d \in FirstDates : InCalendar(d, 1, tenure - 1)

ASSUME AuditAssumption ==
  /\ AuditPrincipals \subseteq Nat /\ AuditRates \subseteq Nat
  /\ AuditTenures \subseteq Nat \ {0} /\ AuditDays \subseteq Int
  /\ \A tenure \in AuditTenures, d \in AuditDays : InCalendar(d, 1, tenure - 1)

Loans == 1..MaxLoans

VARIABLES
  loans,        \* the loan rows, in the order of loan_number_seq
  history,      \* loan_status_history of each loan: stage and who moved it
  blacklisted,  \* customers whose status is "blacklisted"
  product,      \* the product: is_active, its version rows, the current one
  requests,     \* what each member of staff has under way
  day           \* the calendar day (IST)

vars == <<loans, history, blacklisted, product, requests, day>>

Idle == [op |-> "none"]
Absent == [status |-> "none"]

Open == {"draft", "submitted", "under_review", "approved", "active", "overdue"}
Live == {"active", "overdue"}

Exists(l) == loans[l] # Absent

OpenLoans(c) == {l \in Loans : Exists(l) /\ loans[l].customer = c
                                /\ loans[l].status \in Open}

\* ALLOWED_TRANSITIONS, as far as the disbursement.
Allowed(from) ==
  CASE from = "draft" -> {"submitted"}
    [] from = "submitted" -> {"under_review"}
    [] from = "under_review" -> {"approved", "rejected"}
    [] from = "approved" -> {"disbursed"}
    [] OTHER -> {}

InScope(a, c) == a \in Unrestricted \/ Officer[c] \in {Nobody, a}

InRange(principal, tenure, terms) ==
  /\ terms.minPrincipal <= principal /\ principal <= terms.maxPrincipal
  /\ terms.minTenure <= tenure /\ tenure <= terms.maxTenure

Free(a) == requests[a] = Idle
Ask(a, r) == requests' = [requests EXCEPT ![a] = r]
Done(a) == requests' = [requests EXCEPT ![a] = Idle]

Rows(loan, start) ==
  GenerateSchedule(loan.principal, loan.tenure, loan.terms, start)

FirstDue(rows) == rows[1].due
LastDue(rows) == rows[Len(rows)].due

Init ==
  /\ loans = [l \in Loans |-> Absent]
  /\ history = [l \in Loans |-> <<>>]
  /\ blacklisted = {}
  /\ product = [active |-> TRUE, current |-> 1,
                versions |-> {[number |-> 1, terms |-> FirstTerms]}]
  /\ requests = [a \in Staff |-> Idle]
  /\ day \in Days /\ \A d \in Days : day <= d

-----------------------------------------------------------------------------
(* An application: the checks, the row, then its history row and audit log, *)
(* without a transaction.                                                   *)

ReadCreate(a, c, principal, tenure) ==
  /\ Free(a)
  /\ InScope(a, c)
  /\ c \notin blacklisted
  /\ product.active
  /\ \E v \in product.versions :
       /\ InRange(principal, tenure, v.terms)
       /\ Cardinality(OpenLoans(c)) < v.terms.maxConcurrent
       /\ Ask(a, [op |-> "create", customer |-> c, terms |-> v.terms,
                  principal |-> principal, tenure |-> tenure])
  /\ UNCHANGED <<loans, history, blacklisted, product, day>>

InsertLoan(a, l) ==
  LET r == requests[a]
  IN  /\ r.op = "create"
      /\ ~ Exists(l) /\ \A k \in 1..l - 1 : Exists(k)
      /\ loans' = [loans EXCEPT ![l] =
           [status |-> "draft", version |-> 1, customer |-> r.customer,
            terms |-> r.terms, principal |-> r.principal, tenure |-> r.tenure,
            maker |-> a, approver |-> Nobody, rows |-> <<>>, totalInterest |-> 0,
            firstDue |-> NoDay, lastDue |-> NoDay, disbursedOn |-> NoDay,
            collected |-> FALSE]]
      /\ Ask(a, [op |-> "created", loan |-> l])
      /\ UNCHANGED <<history, blacklisted, product, day>>

RecordCreation(a) ==
  LET r == requests[a]
  IN  /\ r.op = "created"
      /\ history' = [history EXCEPT ![r.loan] =
                       Append(@, [to |-> "draft", by |-> a])]
      /\ Done(a)
      /\ UNCHANGED <<loans, blacklisted, product, day>>

-----------------------------------------------------------------------------
(* Submit, review, approve and reject: the row is read and checked, and the *)
(* transaction writes it only if its version is still the one read.         *)

MaySubmit(l) ==
  /\ loans[l].customer \notin blacklisted
  /\ InRange(loans[l].principal, loans[l].tenure, loans[l].terms)

\* A maker-checker rule, and a first EMI date that is in the future.
MayApprove(a, l, first) ==
  /\ loans[l].maker # a \/ a \in Bypass
  /\ first # NoDay => first > day

ReadDecision(a, l, to, first) ==
  /\ Free(a)
  /\ Exists(l)
  /\ InScope(a, loans[l].customer)
  /\ to \in Allowed(loans[l].status) \ {"disbursed"}
  /\ to = "submitted" => MaySubmit(l)
  /\ to = "approved" => MayApprove(a, l, first)
  /\ to # "approved" => first = NoDay
  /\ Ask(a, [op |-> to, loan |-> l, version |-> loans[l].version,
             start |-> IF first = NoDay THEN day
                       ELSE StartFor(first, loans[l].terms.frequency)])
  /\ UNCHANGED <<loans, history, blacklisted, product, day>>

\* Slip: the write does not ask for the version that was read.
Unversioned(r) == loans[r.loan].version < MaxVersion

\* updateMany(where: id, version), which refuses when it updates no row.
StillAt(r) ==
  /\ loans[r.loan].version = r.version
  /\ loans[r.loan].version < MaxVersion

Moved(l, to, a) ==
  history' = [history EXCEPT ![l] = Append(@, [to |-> to, by |-> a])]

Decide(a) ==
  LET r == requests[a]
      l == r.loan
  IN  /\ r.op \in {"submitted", "under_review", "rejected"}
      /\ StillAt(r)
      /\ loans' = [loans EXCEPT ![l].status = r.op, ![l].version = @ + 1]
      /\ Moved(l, r.op, a)
      /\ Done(a)
      /\ UNCHANGED <<blacklisted, product, day>>

Approve(a) ==
  LET r == requests[a]
      l == r.loan
      rows == Rows(loans[l], r.start)
  IN  /\ r.op = "approved"
      /\ StillAt(r)
      /\ loans' = [loans EXCEPT ![l].status = "approved", ![l].version = @ + 1,
                                ![l].approver = a, ![l].rows = rows,
                                ![l].totalInterest = TotalInterest(rows)]
      /\ Moved(l, "approved", a)
      /\ Done(a)
      /\ UNCHANGED <<blacklisted, product, day>>

-----------------------------------------------------------------------------
(* Disbursement: the prerequisites are checked before the transaction,      *)
(* which locks the loan and reads it afresh.                                *)

ReadDisburse(a, l, first) ==
  /\ Free(a)
  /\ Exists(l)
  /\ loans[l].status = "approved"
  /\ loans[l].rows # <<>>
  /\ loans[l].customer \in Documented
  /\ loans[l].disbursedOn = NoDay
  /\ Ask(a, [op |-> "disburse", loan |-> l, first |-> first])
  /\ UNCHANGED <<loans, history, blacklisted, product, day>>

\* Slip: the approver pays the loan out.
AnyoneMayDisburse(a, l) == TRUE

MayDisburse(a, l) == loans[l].approver # a \/ a \in Bypass

\* A date carried by the request replaces the schedule; without one the rows
\* of the approval stay.
Disburse(a) ==
  LET r == requests[a]
      l == r.loan
      rows == IF r.first = NoDay THEN loans[l].rows
              ELSE Rows(loans[l], StartFor(r.first, loans[l].terms.frequency))
  IN  /\ r.op = "disburse"
      /\ loans[l].disbursedOn = NoDay
      /\ "disbursed" \in Allowed(loans[l].status)
      /\ MayDisburse(a, l)
      /\ r.first # NoDay => r.first > day
      /\ loans[l].version < MaxVersion
      /\ loans' = [loans EXCEPT ![l].status = "active", ![l].version = @ + 1,
                                ![l].rows = rows,
                                ![l].totalInterest = TotalInterest(rows),
                                ![l].firstDue = FirstDue(rows),
                                ![l].lastDue = LastDue(rows),
                                ![l].disbursedOn = day]
      /\ history' = [history EXCEPT ![l] =
           @ \o <<[to |-> "disbursed", by |-> a], [to |-> "active", by |-> a]>>]
      /\ Done(a)
      /\ UNCHANGED <<blacklisted, product, day>>

-----------------------------------------------------------------------------
(* A new schedule for an approved or an active loan that nobody has paid.   *)

Regenerable(l) == loans[l].status \in {"approved", "active"} /\ ~ loans[l].collected

AfterDisbursement(first, l) ==
  loans[l].disbursedOn # NoDay => first > loans[l].disbursedOn

ReadRegenerate(a, l, first) ==
  /\ Free(a)
  /\ Exists(l)
  /\ InScope(a, loans[l].customer)
  /\ Regenerable(l)
  /\ first > day
  /\ AfterDisbursement(first, l)
  /\ Ask(a, [op |-> "regenerate", loan |-> l, version |-> loans[l].version,
             first |-> first])
  /\ UNCHANGED <<loans, history, blacklisted, product, day>>

\* Slip: the transaction trusts what was read about collections before it.
LockedRegenerable(l) == loans[l].status \in {"approved", "active"}

\* The locked row is checked again, and so are the collections and their
\* allocations.
StillRegenerable(l) == Regenerable(l)

\* Slip: the columns keep the dates of the old schedule.
ColumnsKept(loan, rows) ==
  [loan EXCEPT !.rows = rows, !.totalInterest = TotalInterest(rows), !.version = @ + 1]

Rescheduled(loan, rows) ==
  [loan EXCEPT !.rows = rows, !.totalInterest = TotalInterest(rows),
               !.firstDue = FirstDue(rows), !.lastDue = LastDue(rows),
               !.version = @ + 1]

Regenerate(a) ==
  LET r == requests[a]
      l == r.loan
      rows == Rows(loans[l], StartFor(r.first, loans[l].terms.frequency))
  IN  /\ r.op = "regenerate"
      /\ StillRegenerable(l)
      /\ StillAt(r)
      /\ AfterDisbursement(r.first, l)
      /\ loans' = [loans EXCEPT ![l] = Rescheduled(@, rows)]
      /\ Done(a)
      /\ UNCHANGED <<history, blacklisted, product, day>>

-----------------------------------------------------------------------------
(* What LoanAccount does to a disbursed loan, as these handlers see it.     *)

\* A collection: its row and its allocations stay, reversed or not.  Only a
\* collection that moves the status moves the version.
Collect(l) ==
  /\ Exists(l)
  /\ loans[l].status \in Live
  /\ \/ loans' = [loans EXCEPT ![l].collected = TRUE]
     \/ /\ loans[l].status = "overdue" /\ loans[l].version < MaxVersion
        /\ loans' = [loans EXCEPT ![l].collected = TRUE, ![l].status = "active",
                                  ![l].version = @ + 1]
  /\ UNCHANGED <<history, blacklisted, product, requests, day>>

\* A penalty posted after the due day; it does not move the version.
FallOverdue(l) ==
  /\ Exists(l)
  /\ loans[l].status = "active"
  /\ loans[l].firstDue < day
  /\ loans' = [loans EXCEPT ![l].status = "overdue"]
  /\ UNCHANGED <<history, blacklisted, product, requests, day>>

\* Closed by its last payment, or foreclosed by a settlement.
Settle(l) ==
  /\ Exists(l)
  /\ loans[l].status \in Live
  /\ \E s \in {"closed", "foreclosed"} :
       loans' = [loans EXCEPT ![l].collected = TRUE, ![l].status = s]
  /\ UNCHANGED <<history, blacklisted, product, requests, day>>

-----------------------------------------------------------------------------
(* The product and the customer.                                            *)

CurrentTerms ==
  (CHOOSE v \in product.versions : v.number = product.current).terms

\* An edit names some of the terms; the others are those of the current
\* version, as it was read.
ReadProduct(a, rate, cap) ==
  /\ Free(a)
  /\ product.active
  /\ Ask(a, [op |-> "edit",
             terms |-> [CurrentTerms EXCEPT !.rate = rate, !.maxConcurrent = cap]])
  /\ UNCHANGED <<loans, history, blacklisted, product, day>>

Numbers == {v.number : v \in product.versions}

LatestNumber == CHOOSE n \in Numbers : \A m \in Numbers : m <= n

NumberVersion(a) ==
  LET r == requests[a]
  IN  /\ r.op = "edit"
      /\ Ask(a, [op |-> "numbered", terms |-> r.terms, number |-> LatestNumber + 1])
      /\ UNCHANGED <<loans, history, blacklisted, product, day>>

\* Slip: without the unique index, two edits get one number.
NoIndex(n) == TRUE

\* The unique index on (product_id, version_number).
NumberFree(n) == n \notin Numbers

CreateNewVersion(a) ==
  LET r == requests[a]
  IN  /\ r.op = "numbered"
      /\ r.number <= MaxEdits
      /\ NumberFree(r.number)
      /\ product' = [product EXCEPT !.current = r.number,
                        !.versions = @ \union {[number |-> r.number, terms |-> r.terms]}]
      /\ Done(a)
      /\ UNCHANGED <<loans, history, blacklisted, day>>

\* Counts the loans without a lock, and counts only those already paid out.
ReadDeactivate(a) ==
  /\ Free(a)
  /\ product.active
  /\ \A l \in Loans : loans[l].status \notin Live
  /\ Ask(a, [op |-> "deactivate"])
  /\ UNCHANGED <<loans, history, blacklisted, product, day>>

Deactivate(a) ==
  /\ requests[a].op = "deactivate"
  /\ product' = [product EXCEPT !.active = FALSE]
  /\ Done(a)
  /\ UNCHANGED <<loans, history, blacklisted, day>>

\* The status that is read only decides whether the request is refused.
Blacklist(c) ==
  /\ c \notin blacklisted
  /\ blacklisted' = blacklisted \union {c}
  /\ UNCHANGED <<loans, history, product, requests, day>>

Reinstate(c) ==
  /\ c \in blacklisted
  /\ blacklisted' = blacklisted \ {c}
  /\ UNCHANGED <<loans, history, product, requests, day>>

\* The request is refused by its write, or its process dies.
Abandon(a) ==
  /\ ~ Free(a)
  /\ Done(a)
  /\ UNCHANGED <<loans, history, blacklisted, product, day>>

Tick ==
  /\ \E d \in Days : d > day /\ day' = d
  /\ UNCHANGED <<loans, history, blacklisted, product, requests>>

AnyDate == FirstDates \union {NoDay}

Request(a) ==
  \/ \E c \in Customers, p \in Principals, t \in Tenures : ReadCreate(a, c, p, t)
  \/ \E l \in Loans, to \in {"submitted", "under_review", "approved", "rejected"},
        first \in AnyDate : ReadDecision(a, l, to, first)
  \/ \E l \in Loans, first \in AnyDate : ReadDisburse(a, l, first)
  \/ \E l \in Loans, first \in FirstDates : ReadRegenerate(a, l, first)
  \/ \E rate \in Rates, cap \in Caps : ReadProduct(a, rate, cap)
  \/ ReadDeactivate(a)

Write(a) ==
  \/ \E l \in Loans : InsertLoan(a, l)
  \/ RecordCreation(a)
  \/ Decide(a)
  \/ Approve(a)
  \/ Disburse(a)
  \/ Regenerate(a)
  \/ NumberVersion(a)
  \/ CreateNewVersion(a)
  \/ Deactivate(a)
  \/ Abandon(a)

Next ==
  \/ \E a \in Staff : Request(a) \/ Write(a)
  \/ \E l \in Loans : Collect(l) \/ FallOverdue(l) \/ Settle(l)
  \/ \E c \in Customers : Blacklist(c) \/ Reinstate(c)
  \/ Tick

Spec == Init /\ [][Next]_vars

-----------------------------------------------------------------------------
(* Properties. *)

LoanRows == [status : Open \union {"rejected", "closed", "foreclosed"},
             version : 1..MaxVersion, customer : Customers, terms : Terms,
             principal : Principals, tenure : Tenures, maker : Staff,
             approver : Staff \union {Nobody},
             rows : Seq([due : Int, principal : Nat, interest : Nat]),
             totalInterest : Nat, firstDue : Int \union {NoDay},
             lastDue : Int \union {NoDay}, disbursedOn : Days \union {NoDay},
             collected : BOOLEAN]

HistoryRows == [to : {"draft", "submitted", "under_review", "approved", "rejected",
                      "disbursed", "active"}, by : Staff]

Asked ==
  {Idle}
  \union [op : {"create"}, customer : Customers, terms : Terms,
          principal : Principals, tenure : Tenures]
  \union [op : {"created"}, loan : Loans]
  \union [op : {"submitted", "under_review", "approved", "rejected"}, loan : Loans,
          version : 1..MaxVersion, start : Int]
  \union [op : {"disburse"}, loan : Loans, first : AnyDate]
  \union [op : {"regenerate"}, loan : Loans, version : 1..MaxVersion,
          first : FirstDates]
  \union [op : {"edit"}, terms : Terms]
  \union [op : {"numbered"}, terms : Terms, number : Nat]
  \union [op : {"deactivate"}]

\* The rows of the tables and what the requests hold have their types, and a
\* loan has an approver and a schedule exactly from its approval on.
TypeOK ==
  /\ loans \in [Loans -> LoanRows \union {Absent}]
  /\ history \in [Loans -> Seq(HistoryRows)]
  /\ blacklisted \subseteq Customers
  /\ product.active \in BOOLEAN /\ product.current \in 1..MaxEdits
  /\ product.versions \subseteq [number : 1..MaxEdits, terms : Terms]
  /\ requests \in [Staff -> Asked]
  /\ day \in Days
  /\ \A l \in Loans :
       Exists(l) =>
         LET decided == loans[l].status \notin {"draft", "submitted", "under_review",
                                                "rejected"}
         IN  (loans[l].approver # Nobody <=> decided) /\ (loans[l].rows # <<>> <=> decided)

\* The stage of a loan for the workflow: every status after the disbursement
\* is "disbursed".
StageOf(l) ==
  IF loans[l].status \in Live \union {"closed", "foreclosed"}
  THEN "disbursed" ELSE loans[l].status

\* The decisions among the rows of a history, in their order.
Trail(rows) ==
  LET trail[i \in 0..Len(rows)] ==
        IF i = 0 THEN <<>>
        ELSE IF rows[i].to \in {"draft", "active"} THEN trail[i - 1]
        ELSE Append(trail[i - 1], rows[i].to)
  IN  trail[Len(rows)]

TrailOf(l) == Trail(history[l])

Workflow == INSTANCE Origination WITH
  stage <- [l \in Loans |-> StageOf(l)],
  trail <- [l \in Loans |-> TrailOf(l)]

\* Overlapping requests leave the workflow as if each decision had been taken
\* alone: no stage is skipped, no loan is both approved and rejected, and each
\* change comes with its one row of history (submit, review, approve, reject
\* and disburse, against their stale reads).
ImplementsWorkflow == Workflow!AbstractSpec

\* Who signed for a loan is who the history says, and unless a super_admin
\* did it nobody signed twice in a row: the approver did not make the loan, and
\* who paid it out did not approve it (MAKER_CHECKER_VIOLATION).
FourEyes ==
  \A l \in Loans :
    \A i \in DOMAIN history[l] :
      LET h == history[l][i]
      IN  /\ h.to = "approved" =>
               loans[l].approver = h.by /\ (h.by = loans[l].maker => h.by \in Bypass)
          /\ h.to = "disbursed" => (h.by = loans[l].approver => h.by \in Bypass)

StrictlyLater(rows) ==
  \A i \in 1..Len(rows) - 1 : rows[i].due < rows[i + 1].due

\* The schedule in force is one whole schedule, whichever of approve,
\* disburse and regenerate wrote it last: it repays the principal, its
\* interest is the total of the loan row, its due dates ascend, and the
\* due-date columns of a disbursed loan are its first and last day.
ScheduleInForce ==
  \A l \in Loans :
    StageOf(l) \in {"approved", "disbursed"} =>
      LET loan == loans[l]
      IN  /\ TotalPrincipal(loan.rows) = loan.principal
          /\ TotalInterest(loan.rows) = loan.totalInterest
          /\ StrictlyLater(loan.rows)
          /\ loan.disbursedOn # NoDay =>
               loan.firstDue = FirstDue(loan.rows) /\ loan.lastDue = LastDue(loan.rows)

\* A schedule somebody has paid against is never replaced, however old the
\* look at the collections was that let the request through.
ScheduleKeptOncePaid ==
  [][\A l \in Loans :
       Exists(l) /\ loans[l].collected => loans'[l].rows = loans[l].rows]_vars

\* Overlapping edits of the product give every version its own number, and
\* the version offered is the one with the highest number.
CurrentVersionIsLatest ==
  /\ product.current = LatestNumber
  /\ \A v, w \in product.versions : v.number = w.number => v = w

\* Bound: SchedulesAddUp is evaluated where nothing is under way; the
\* schedule depends on nothing but its arguments.
Quiet == /\ \A a \in Staff : Free(a)
         /\ \A l \in Loans : ~ Exists(l)
         /\ blacklisted = {} /\ product.current = 1

\* For every term the run tries: the installments repay exactly the
\* principal, none is negative, a flat loan earns exactly its interest, the due
\* dates ascend and avoid the days the generator takes for holidays, and the
\* first one falls on the day asked for unless that is such a day or a day the
\* month before lacks.
SchedulesAddUp ==
  Quiet =>
  \A principal \in AuditPrincipals, rate \in AuditRates, tenure \in AuditTenures,
     type \in {"flat", "reducing_balance"}, frequency \in Frequencies,
     first \in AuditDays :
    type = "flat" \/ frequency = "monthly" =>
      LET terms == [interestType |-> type, rate |-> rate, frequency |-> frequency]
          start == StartFor(first, frequency)
          rows == GenerateSchedule(principal, tenure, terms, start)
      IN  /\ TotalPrincipal(rows) = principal
          /\ \A i \in DOMAIN rows :
               rows[i].principal >= 0 /\ rows[i].interest >= 0
               /\ rows[i].due \notin Holidays
          /\ type = "flat" => TotalInterest(rows) = FlatInterest(principal, rate, tenure)
          /\ StrictlyLater(rows)
          /\ (frequency = "monthly" => DueDate(start, 1, frequency) = first)
             => FirstDue(rows) = NextWorkingDay(first)
=============================================================================
