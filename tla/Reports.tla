------------------------------- MODULE Reports -------------------------------
(***************************************************************************)
(* The report page and its exports (reports/[type]/page.tsx, useReports,   *)
(* report.service, report.repository, report-export.service).              *)
(*                                                                         *)
(* A report is generated by up to three statements outside a transaction:  *)
(* the scope of the user, the rows, and for two types the journal lines    *)
(* behind them.  The writers of Portfolio go on in between.  Pressing an   *)
(* export button generates the report again and turns it into a file.      *)
(*                                                                         *)
(* A report is [type, rows, count, total, other]; a row is [id, amount],   *)
(* the amount being the one the type is about.  `reassigned' and `changed' *)
(* are history: what the writers did since the page was opened.            *)
(***************************************************************************)
EXTENDS Portfolio

CONSTANTS Manager, Collector,  \* users with the full scope and with that of an area
          AreaOfficers,        \* officers assigned to an area of Collector
          Types, Viewers       \* report types looked at, and by whom

VARIABLES desk, reassigned, changed

vars == <<tables, desk, reassigned, changed>>

ReportsAssumption ==
  /\ Viewers \subseteq Officers \cup {Manager, Collector}
  /\ Manager \notin Officers /\ Collector \notin Officers \cup {Manager}

EmiFilters == {"all", "paid", "unpaid", "overdue"}

\* the two inputs of the page, both today at first, or a caller without them
Default == [given |-> FALSE, start |-> 0, end |-> 0]
Dates == {Default} \cup [given : {TRUE}, start : 1 .. day, end : 1 .. day]

NoReport == [rows |-> {}, count |-> 0, total |-> 0, other |-> 0]
Closed == [phase |-> "closed"]

-----------------------------------------------------------------------------
(* The window *)

\* parseDateRange against a date column: the first day is its midnight in
\* India, the last is the last millisecond of the day.
From(dates) == IF dates.given THEN Midnight(dates.start) ELSE Midnight(day)
To(dates) == IF dates.given THEN dates.end ELSE UtcDay

\* Slip: the last day ends as it begins.
InWindowToMidnight(dates, d) ==
  From(dates) <= d /\ d <= (IF dates.given THEN Midnight(dates.end) ELSE UtcDay)

InWindow(dates, d) == From(dates) <= d /\ d <= To(dates)

\* the same against a timestamp
OnDays(dates, d) ==
  IF dates.given THEN dates.start <= d /\ d <= dates.end ELSE d = day

-----------------------------------------------------------------------------
(* The scope *)

\* scopeToLoanFilter: the two conditions a query may be given
Scope(user) ==
  CASE user = Manager -> [byLoan |-> Loans, byCustomer |-> Loans]
    [] user \in Officers ->
         [byLoan |-> Loans, byCustomer |-> {l \in Loans : loans[l].officer = user}]
    [] user = Collector ->
         [byLoan |-> {l \in Loans : loans[l].officer \in AreaOfficers}, byCustomer |-> Loans]

Within(scope) == scope.byLoan \cap scope.byCustomer

-----------------------------------------------------------------------------
(* The queries *)

Row(id, amount) == [id |-> id, amount |-> amount]
LoanRows(ls) == {Row(l, loans[l].cached) : l \in ls}

DailyCollections(scope, dates) ==
  {Row(i, collections[i].amount) :
     i \in {i \in DOMAIN collections : /\ collections[i].posted
                                       /\ InWindow(dates, collections[i].date)
                                       /\ collections[i].loan \in Within(scope)}}

OverdueLoans(scope) ==
  {l \in Within(scope) : loans[l].status \in Live /\ loans[l].dpd > 0}

Disbursements(scope, dates) ==
  {Row(l, Parts) : l \in {l \in scope.byLoan : /\ loans[l].disbursed # 0
                                               /\ OnDays(dates, loans[l].disbursed)}}

DpdAging(scope) == {l \in scope.byLoan : loans[l].status \in Live}

\* No statement of the program makes an installment overdue.
InstallmentStatus(l) ==
  CASE loans[l].paid = Parts -> "paid" [] loans[l].paid = 0 -> "pending" [] OTHER -> "partial"

Asked(filter) ==
  CASE filter = "all" -> {"pending", "partial", "paid", "overdue"}
    [] filter = "unpaid" -> {"pending", "partial", "overdue"}
    [] OTHER -> {filter}

EmiSchedule(scope, dates, filter) ==
  {Row(l, Payable - 2 * loans[l].paid) :
     l \in {l \in Within(scope) : /\ loans[l].status \in Live
                                  /\ InWindow(dates, loans[l].due)
                                  /\ InstallmentStatus(l) \in Asked(filter)}}

\* what the lines of some entries debit and credit to some accounts
Debited(accounts, lines) ==
  Total(Len(lines), [i \in DOMAIN lines |->
                       IF lines[i].account \in accounts THEN lines[i].debit ELSE 0])
Credited(accounts, lines) ==
  Total(Len(lines), [i \in DOMAIN lines |->
                       IF lines[i].account \in accounts THEN lines[i].credit ELSE 0])
Debits(accounts, entries) ==
  Total(Len(journal), [e \in DOMAIN journal |->
                         IF e \in entries THEN Debited(accounts, journal[e].lines) ELSE 0])
Credits(accounts, entries) ==
  Total(Len(journal), [e \in DOMAIN journal |->
                         IF e \in entries THEN Credited(accounts, journal[e].lines) ELSE 0])
Net(accounts, entries) == Debits(accounts, entries) - Credits(accounts, entries)
OfCategory(category) == {a \in Accounts : Category(a) = category}

UntilNow == {e \in DOMAIN journal : journal[e].date <= UtcDay}
During(dates) == {e \in DOMAIN journal : InWindow(dates, journal[e].date)}
AccountsOf(entries) ==
  {a \in Accounts : \E e \in entries : \E i \in DOMAIN journal[e].lines :
                     journal[e].lines[i].account = a}
Balances(accounts, entries) ==
  {Row(a, Net({a}, entries)) : a \in AccountsOf(entries) \cap accounts}

-----------------------------------------------------------------------------
(* The reports *)

TotalOf(rows) == SumOf([row \in rows |-> row.amount], rows)
Report(rows, total, other) ==
  [rows |-> rows, count |-> Cardinality(rows), total |-> total, other |-> other]

\* The total is what the entries of the rows debit, whichever way they point.
DailyCollectionReport(rows) ==
  LET entries == {collections[row.id].entry : row \in rows}
  IN  Report(rows, Debits(Accounts, entries), Credits(Accounts, entries))

\* journalLineTotals: the receivable in the entries that name one of the loans
DpdAgingReport(rows) ==
  LET ids == {row.id : row \in rows}
  IN  Report(rows, TotalOf(rows),
             Net({"receivable"}, {e \in DOMAIN journal : journal[e].source \in ids}))

\* what each account of income earned and each account of expense cost
ProfitLossReport(dates) ==
  LET income == OfCategory("income")
      expense == OfCategory("expense")
      written == During(dates)
  IN  Report({Row(row.id, 0 - row.amount) : row \in Balances(income, written)}
               \cup Balances(expense, written),
             0 - Net(income, written), Net(expense, written))

TrialBalanceReport ==
  Report(Balances(Accounts, UntilNow), Debits(Accounts, UntilNow), Credits(Accounts, UntilNow))

\* assets, and equity with the retained earnings; no account is a liability
BalanceSheetReport ==
  Report({}, Net(OfCategory("asset"), UntilNow),
         0 - Net(OfCategory("income"), UntilNow) - Net(OfCategory("expense"), UntilNow))

\* generateReport after its first statement, for the types that need no other
Generated(d) ==
  LET owing == LoanRows(OverdueLoans(d.scope))
      book == LoanRows(Within(d.scope))
      paidOut == Disbursements(d.scope, d.dates)
      emis == EmiSchedule(d.scope, d.dates, d.filter)
  IN  CASE d.type = "overdue" -> Report(owing, 0, 0)
        [] d.type = "loan-portfolio" -> Report(book, TotalOf(book), Parts * Cardinality(book))
        [] d.type = "disbursement" -> Report(paidOut, TotalOf(paidOut), 0)
        [] d.type = "trial-balance" -> TrialBalanceReport
        [] d.type = "profit-loss" -> ProfitLossReport(d.dates)
        [] d.type = "balance-sheet" -> BalanceSheetReport
        [] d.type = "emi-schedule" ->
             Report(emis, Payable * Cardinality(emis), Payable * Cardinality(emis) - TotalOf(emis))
        [] OTHER -> NoReport    \* stubbedReport

TwoStatements == {"daily-collection", "dpd-aging"}

\* what `data' is in the answer
Shape(type) ==
  CASE type \in {"overdue", "profit-loss"} -> "object"
    [] type = "balance-sheet" -> "none"
    [] OTHER -> "array"

-----------------------------------------------------------------------------
(* The page and the service *)

InitReports ==
  /\ Init
  /\ desk = Closed /\ reassigned = {} /\ changed = FALSE

At(phase) == desk.phase = phase
Keep == UNCHANGED <<tables, reassigned, changed>>

Dated == {"daily-collection", "disbursement", "profit-loss", "emi-schedule"}
Scoped == Types \ {"trial-balance", "profit-loss", "balance-sheet", "customer"}

\* Opening the page of a type, or another range on it: another query.  What a
\* report makes no use of is left at one value.
Open(user, type, dates, filter) ==
  /\ At("closed")
  /\ type \in Dated \/ dates = [given |-> TRUE, start |-> day, end |-> day]
  /\ type \in Scoped \/ user = Manager
  /\ type = "emi-schedule" \/ filter = "all"
  /\ desk' = [phase |-> "scope", user |-> user, type |-> type, dates |-> dates,
              filter |-> filter, format |-> "page", scope |-> Scope(Manager), rows |-> {},
              shown |-> NoReport, file |-> NoReport]
  /\ Keep

\* resolveScope
ReadScope ==
  /\ At("scope")
  /\ desk' = [desk EXCEPT !.phase = "rows", !.scope = Scope(desk.user)]
  /\ Keep

\* transformToExportData: the rows of an array and nothing else
FileOf(report) == [report EXCEPT !.rows = IF Shape(desk.type) = "array" THEN @ ELSE {}]

\* columns of its own, or those of the first row
HasColumns(report) == desk.type = "emi-schedule" \/ FileOf(report).rows # {}

\* The page flattens an object into rows.  A workbook needs a column.
Delivered(report) ==
  CASE desk.format = "page" -> [desk EXCEPT !.phase = "shown", !.shown = report]
    [] desk.format = "xlsx" /\ ~HasColumns(report) -> [desk EXCEPT !.phase = "refused"]
    [] OTHER -> [desk EXCEPT !.phase = "saved", !.file = FileOf(report)]

ReadRows ==
  /\ At("rows")
  /\ desk' = CASE desk.type = "daily-collection" ->
                    [desk EXCEPT !.phase = "lines",
                                 !.rows = DailyCollections(desk.scope, desk.dates)]
               [] desk.type = "dpd-aging" ->
                    [desk EXCEPT !.phase = "lines", !.rows = LoanRows(DpdAging(desk.scope))]
               [] OTHER -> Delivered(Generated(desk))
  /\ Keep

ReadLines ==
  /\ At("lines")
  /\ desk' = Delivered(IF desk.type = "daily-collection" THEN DailyCollectionReport(desk.rows)
                                                         ELSE DpdAgingReport(desk.rows))
  /\ Keep

\* handleExport, with report.export and a range that is not inverted
PressExport(format) ==
  /\ At("shown")
  /\ desk.user = Manager
  /\ desk.dates.given /\ desk.dates.start <= desk.dates.end
  /\ desk' = [desk EXCEPT !.phase = "scope", !.format = format]
  /\ Keep

Leave ==
  /\ desk.phase \in {"shown", "saved", "refused"}
  /\ desk' = Closed /\ reassigned' = {} /\ changed' = FALSE
  /\ UNCHANGED tables

\* The transactions of the others, seen by the history while a page is open.
Beside ==
  /\ Write \/ Tick
  /\ reassigned' = IF At("closed") THEN {}
                   ELSE reassigned \cup {l \in Loans : loans'[l].officer # loans[l].officer}
  /\ changed' = ~At("closed")
  /\ UNCHANGED desk

Next ==
  \/ Beside
  \/ \E u \in Viewers, t \in Types, d \in Dates, f \in EmiFilters : Open(u, t, d, f)
  \/ ReadScope \/ ReadRows \/ ReadLines
  \/ \E format \in {"pdf", "xlsx"} : PressExport(format)
  \/ Leave

Spec == InitReports /\ [][Next]_vars

-----------------------------------------------------------------------------
(* Properties *)

\* Every report has its rows and sums, whatever was asked for.
IsReport(r) ==
  /\ DOMAIN r = {"rows", "count", "total", "other"}
  /\ r.count \in Nat /\ r.total \in Int /\ r.other \in Int
  /\ \A row \in r.rows : row.amount \in Int

TypeOK ==
  /\ day \in 1 .. MaxDay /\ night \in BOOLEAN
  /\ \A l \in Loans : loans[l].status \in Statuses /\ loans[l].paid \in 0 .. Parts
                     /\ loans[l].cached = (IF loans[l].status = "approved" THEN 0
                                            ELSE Payable - 2 * loans[l].paid)
  /\ \A c \in DOMAIN collections : collections[c].entry \in DOMAIN journal
  /\ desk # Closed => IsReport(desk.shown) /\ IsReport(desk.file)

Showing(type) == At("shown") /\ desk.type = type

\* The rows and the journal lines of the daily report are read apart, and
\* still its total is that of its rows, as long as none is a reversal.
DailyTotalMatchesItsRows ==
  Showing("daily-collection") /\ (\A row \in desk.shown.rows : row.amount > 0)
    => desk.shown.total = TotalOf(desk.shown.rows)

\* The trial balance and the balance sheet balance at every moment.
StatementsBalance ==
  At("shown") /\ desk.type \in {"trial-balance", "balance-sheet"}
    => desk.shown.total = desk.shown.other

LoanOf(type, id) == IF type = "daily-collection" THEN collections[id].loan ELSE id

\* A field officer finds loans of the own customers in reports of these types, or
\* of customers reassigned while the report was generated.
OnlyOwnRowsIn(types) ==
  At("shown") /\ desk.user \in Officers /\ desk.type \in types
    => \A row \in desk.shown.rows :
         LET l == LoanOf(desk.type, row.id)
         IN  loans[l].officer = desk.user \/ l \in reassigned

\* That is so in the four reports that filter by customer.  The two others about
\* loans drop that half of the scope, and show a field officer the whole book
\* (disbursementReport, dpdAgingReport).
FilteredByCustomer == {"daily-collection", "overdue", "loan-portfolio", "emi-schedule"}
AboutLoans == FilteredByCustomer \cup {"disbursement", "dpd-aging"}
OfficersSeeTheirCustomers == OnlyOwnRowsIn(FilteredByCustomer)

\* Nothing paid on a day of the window is missing from the daily report.
DailyReportMissesNothing ==
  Showing("daily-collection") /\ desk.user = Manager /\ desk.dates.given /\ ~changed
    => \A i \in DOMAIN collections :
         collections[i].posted /\ collections[i].date \in desk.dates.start .. desk.dates.end
           => \E row \in desk.shown.rows : row.id = i

\* A file of a report whose data is a list has what the page shows, unless
\* something was written in between.
FileHasWhatThePageShows ==
  At("saved") /\ Shape(desk.type) = "array" /\ ~changed => desk.file = desk.shown
=============================================================================
