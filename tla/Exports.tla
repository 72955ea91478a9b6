------------------------------- MODULE Exports -------------------------------
(***************************************************************************)
(* The list pages of collections, loans and customers and their Excel      *)
(* button (collections/page.tsx, loans/page.tsx, export-button.tsx), the   *)
(* queries behind the lists and the exports of ExportsService over the     *)
(* tables of Portfolio, written by the operators of Workbook.              *)
(*                                                                         *)
(* One page is open at a time, and it is left when no export is under way. *)
(* The record `button' holds, beside the state of the button, what the     *)
(* page was looking at when it was pressed and what that list was when the *)
(* server read the rows (`seen', `listed').                                *)
(***************************************************************************)
EXTENDS Portfolio, Workbook

CONSTANTS FileCap,    \* `take' of every export
          PageSize,   \* rows of a page of a list
          Inputs,     \* the filters that are typed on the collections page
          CanUnmask   \* whether the user has export.unmask_pii

ExportsAssumption ==
  /\ \A f \in Inputs : /\ f.from \in 0 .. MaxDay /\ f.to \in 0 .. MaxDay
                        /\ f.loan \in {"any"} \cup Loans
  /\ FileCap \in Nat \ {0} /\ PageSize \in Nat \ {0}
  /\ CanUnmask \in BOOLEAN

VARIABLES
  page,     \* the page that is open, with its inputs and its query
  button    \* its export button

vars == <<tables, page, button>>

Unset == 0
AnyLoan == "any"
NoFilter == [from |-> Unset, to |-> Unset, loan |-> AnyLoan]
Today == [NoFilter EXCEPT !.from = day, !.to = day]

Loading == [rows |-> <<>>, total |-> 0, loaded |-> FALSE]

-----------------------------------------------------------------------------
(* The lists *)

\* the part of a list between `skip' and `skip' + `take', newest first
Paged(ids, number) ==
  LET count == Cardinality(ids)
      skip == (number - 1) * PageSize
      shown == IF count <= skip THEN 0 ELSE Lesser(PageSize, count - skip)
  IN  [rows |-> [k \in 1 .. shown |-> Kth(ids, count + 1 - skip - k)],
       total |-> count, loaded |-> TRUE]

\* the dates as whole days, the loan by its number
Listed(filter) ==
  {i \in DOMAIN collections :
     /\ filter.from # Unset => filter.from <= collections[i].date
     /\ filter.to # Unset => collections[i].date <= filter.to
     /\ filter.loan # AnyLoan => collections[i].loan = filter.loan}

LoansOf(status) == {l \in Loans : status = "any" \/ loans[l].status = status}
NumberOf ==
  [l \in Loans |-> CHOOSE n \in 1 .. Cardinality(Loans) : SetToSeq(Loans)[n] = l]

TotalPages(list) == (list.total + PageSize - 1) \div PageSize

-----------------------------------------------------------------------------
(* The exports *)

Column(key, type) == [key |-> key, label |-> key, type |-> type, mask |-> FALSE]
Value(type, of) == [type |-> type, of |-> of]

\* The first rows of a query in descending order; what has the same key comes
\* in any order.
Takes(ids, key) ==
  LET n == Min({FileCap, Cardinality(ids)})
  IN  {s \in [1 .. n -> ids] :
         /\ IsInjective(s)
         /\ \A i, j \in 1 .. n : i < j => key[s[i]] >= key[s[j]]
         /\ \A id \in ids \ Range(s), i \in 1 .. n : key[s[i]] >= key[id]}

\* exportCollections knows the dates only.
Matched(query) ==
  {i \in DOMAIN collections :
     /\ query.from # Unset => query.from <= collections[i].date
     /\ query.to # Unset => collections[i].date <= query.to}

Sheet(columns, rows, filtered, unmask) ==
  ExportToBuffer(columns, rows, filtered, TRUE, unmask)

\* every workbook exportCollections may give
ExportCollections(query) ==
  {[ids |-> s,
    sheet |-> Sheet(<<Column("payment_date", "date"), Column("loan_number", "string"),
                      Column("amount_paise", "currency"), Column("status", "string")>>,
                    [r \in DOMAIN s |->
                       [payment_date |-> Value("date", collections[s[r]].date),
                        loan_number |-> Value("string", collections[s[r]].loan),
                        amount_paise |-> Value("bigint", collections[s[r]].amount),
                        status |-> Value("string", IF collections[s[r]].posted
                                                   THEN "posted" ELSE "reversed")]],
                    query.from # Unset \/ query.to # Unset, FALSE)] :
     s \in Takes(Matched(query), [i \in DOMAIN collections |-> collections[i].date])}

ExportLoans(status) ==
  {[ids |-> s,
    sheet |-> Sheet(<<Column("loan_number", "string"),
                      Column("cached_outstanding_paise", "currency"),
                      Column("dpd", "number"), Column("status", "string")>>,
                    [r \in DOMAIN s |->
                       [loan_number |-> Value("string", s[r]),
                        cached_outstanding_paise |-> Value("bigint", loans[s[r]].cached),
                        dpd |-> Value("number", loans[s[r]].dpd),
                        status |-> Value("string", loans[s[r]].status)]],
                    status # "any", FALSE)] :
     s \in Takes(LoansOf(status), NumberOf)}

\* The customers, one to a loan; the search finds the one it names.
ExportCustomers(search, unmask) ==
  {[ids |-> s,
    sheet |-> Sheet(<<Column("full_name", "string"),
                      [Column("mobile", "string") EXCEPT !.mask = TRUE]>>,
                    [r \in DOMAIN s |-> [full_name |-> Value("string", s[r]),
                                         mobile |-> Value("string", s[r])]],
                    search # AnyLoan, unmask)] :
     s \in Takes({l \in Loans : search \in {AnyLoan, l}}, NumberOf)}

-----------------------------------------------------------------------------
(* The pages *)

Idle == [phase |-> "idle"]

CollectionsPage ==
  [at |-> "collections", typed |-> Today, applied |-> Today, number |-> 1, list |-> Loading]
LoansPage == [at |-> "loans", status |-> "any", number |-> 1, list |-> Loading]
CustomersPage == [at |-> "customers", search |-> AnyLoan]

InitExports ==
  /\ Init
  /\ page = CollectionsPage /\ button = Idle

Stay == UNCHANGED tables
\* A button that is done is an idle one; what it gave is kept for one step.
Settle == button' = IF button.phase \in {"saved", "failed"} THEN Idle ELSE button
OnList == page.at \in {"collections", "loans"}

Open(p) ==
  /\ button.phase \notin {"asking", "sent"}
  /\ page' = p /\ button' = Idle
  /\ Stay

\* the inputs of the collections page
Type(filter) ==
  /\ page.at = "collections" /\ page.typed # filter
  /\ page' = [page EXCEPT !.typed = filter]
  /\ Settle /\ Stay

\* applyFilters, not for a range that is inverted
Apply ==
  /\ page.at = "collections"
  /\ page.typed.from = Unset \/ page.typed.to = Unset \/ page.typed.from <= page.typed.to
  /\ page' = [page EXCEPT !.applied = page.typed, !.number = 1, !.list = Loading]
  /\ Settle /\ Stay

ClearFilters ==
  /\ page.at = "collections"
  /\ page' = [CollectionsPage EXCEPT !.typed = NoFilter, !.applied = NoFilter]
  /\ Settle /\ Stay

StatusChange(status) ==
  /\ page.at = "loans" /\ page.status # status
  /\ page' = [LoansPage EXCEPT !.status = status]
  /\ Settle /\ Stay

Search(customer) ==
  /\ page.at = "customers" /\ page.search # customer
  /\ page' = [page EXCEPT !.search = customer]
  /\ Settle /\ Stay

\* PaginationControls, there when the list has more than one page
Turn(number) ==
  /\ OnList /\ page.list.loaded
  /\ TotalPages(page.list) > 1
  /\ \/ number = page.number + 1 /\ page.number < TotalPages(page.list)
     \/ number = page.number - 1 /\ page.number > 1
  /\ page' = [page EXCEPT !.number = number, !.list = Loading]
  /\ Settle /\ Stay

\* The query of the page answers, the first time or after an invalidation.
Load ==
  /\ OnList
  /\ page' = [page EXCEPT !.list =
       Paged(IF page.at = "collections" THEN Listed(page.applied)
             ELSE {NumberOf[l] : l \in LoansOf(page.status)}, page.number)]
  /\ Settle /\ Stay

-----------------------------------------------------------------------------
(* The button *)

\* what the page hands to the button
Query ==
  CASE page.at = "collections" -> [from |-> page.applied.from, to |-> page.applied.to]
    [] page.at = "loans" -> [status |-> page.status]
    [] page.at = "customers" -> [search |-> page.search]

Sent(unmask) ==
  [phase |-> "sent", domain |-> page.at, query |-> Query, unmask |-> unmask,
   seen |-> IF page.at = "collections" THEN page.applied ELSE NoFilter]

Ready == button.phase \in {"idle", "saved", "failed"}

\* handleClick: a choice to make first, on the customers page
Press ==
  /\ Ready
  /\ button' = IF page.at = "customers" /\ CanUnmask THEN [phase |-> "asking"] ELSE Sent(FALSE)
  /\ UNCHANGED page /\ Stay

Choose(unmask) ==
  /\ button.phase = "asking"
  /\ button' = Sent(unmask)
  /\ UNCHANGED page /\ Stay

Dismiss ==
  /\ button.phase = "asking"
  /\ button' = Idle
  /\ UNCHANGED page /\ Stay

FilesServed ==
  CASE button.domain = "collections" -> ExportCollections(button.query)
    [] button.domain = "loans" -> ExportLoans(button.query.status)
    [] button.domain = "customers" -> ExportCustomers(button.query.search, button.unmask)

\* The rows are read and written to a workbook, then the audit row is written;
\* an audit row that fails is logged and passed over.
Serve ==
  /\ button.phase = "sent"
  /\ \E file \in FilesServed, audited \in BOOLEAN :
       button' = [phase |-> "saved", domain |-> button.domain, query |-> button.query,
                     unmask |-> button.unmask, file |-> file, listed |-> Listed(button.seen),
                     audit |-> [written |-> audited, count |-> Len(file.ids),
                                piiUnmasked |-> button.unmask]]
  /\ UNCHANGED <<tables, page>>

\* a lost request, or the limit of exports a minute
Fail ==
  /\ button.phase = "sent"
  /\ button' = [phase |-> "failed"]
  /\ UNCHANGED page /\ Stay

Beside == (Write \/ Tick) /\ Settle /\ UNCHANGED page

Next ==
  \/ Beside
  \/ \E p \in {CollectionsPage, LoansPage, CustomersPage} : Open(p)
  \/ \E f \in Inputs : Type(f)
  \/ \E s \in {"any"} \cup Statuses : StatusChange(s)
  \/ \E l \in {AnyLoan} \cup Loans : Search(l)
  \/ \E n \in 1 .. MaxEntries + 1 : Turn(n)
  \/ Apply \/ ClearFilters \/ Load
  \/ Press \/ Dismiss \/ (\E b \in BOOLEAN : Choose(b))
  \/ Serve \/ Fail

Spec == InitExports /\ [][Next]_vars

-----------------------------------------------------------------------------
(* Properties *)

Saved == button.phase = "saved"
\* the rows under the header, which end the sheet
DataRowsOf(file) ==
  SubSeq(file.sheet, Len(file.sheet) - Len(file.ids) + 1, Len(file.sheet))

\* The tables, the page and the button are what they may be, and a workbook
\* has a row for every row that was read.
TypeOK ==
  /\ \A l \in Loans : loans[l].status \in Statuses /\ loans[l].paid \in 0 .. Parts
  /\ OnList => /\ page.number \in Nat \ {0}
               /\ Len(page.list.rows) <= PageSize /\ Len(page.list.rows) <= page.list.total
  /\ Saved => /\ Len(button.file.ids) <= FileCap
              /\ button.audit.count = Len(DataRowsOf(button.file))

\* Whatever the collections page lists when it is exported is in the file,
\* unless the file is full of rows that are not older: the file is made of the
\* filters that were applied, not of those that are being typed.
ListedRowsAreExported ==
  Saved /\ button.domain = "collections"
    => \A i \in button.listed :
         \/ i \in Range(button.file.ids)
         \/ /\ Len(button.file.ids) = FileCap
            /\ \A j \in Range(button.file.ids) : collections[j].date >= collections[i].date

\* Both ends of the range bind the rows of the file.
FileIsWithinTheDates ==
  Saved /\ button.domain = "collections"
    => \A i \in Range(button.file.ids) :
         /\ button.query.from # Unset => collections[i].date >= button.query.from
         /\ button.query.to # Unset => collections[i].date <= button.query.to

\* A file has full numbers if and only if that was chosen, and then a choice
\* that was logged is logged as such.
FullNumbersWereChosen ==
  Saved /\ button.domain = "customers" /\ button.file.ids # <<>>
    => LET full == \E r \in DOMAIN DataRowsOf(button.file) :
                     DataRowsOf(button.file)[r][2].form = "string"
       IN  /\ full <=> button.unmask
           /\ full /\ button.audit.written => button.audit.piiUnmasked
=============================================================================
