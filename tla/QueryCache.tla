----------------------------- MODULE QueryCache -----------------------------
(***************************************************************************)
(* What the pages of the web client show: the answers to their queries,    *)
(* kept by the query client of one browser tab, and the mutations that are *)
(* supposed to refresh them.                                               *)
(*                                                                         *)
(* Queries do not touch one another, so a behaviour follows one of them,   *)
(* whichever: "entry" is its cached answer, "flight" its fetch under way.  *)
(* The rows of the server are not modelled, only which of the mutations of *)
(* this tab an answer does not reflect yet ("missing").                    *)
(*                                                                         *)
(* Names that a list joins from another table are left out, and so is what *)
(* other users write: no page asks again while it stays open, but for the  *)
(* notifications.                                                          *)
(***************************************************************************)
EXTENDS Naturals, SequencesExt

CONSTANT MaxSubmits  \* bound: mutations submitted

QueryCacheAssumption == MaxSubmits \in Nat

-----------------------------------------------------------------------------
(* The queries: their key, and the tables their answer is computed from.   *)
(* The plural is the set of rows of a table, the singular the rows that are *)
(* there already.                                                          *)

Query(key, reads) == [key |-> key, reads |-> reads]

LoanList == Query(<<"loans", "page">>, {"loans", "loan"})
LoanDetail == Query(<<"loans", "id">>, {"loan", "history"})
StatusHistory == Query(<<"loans", "id", "status-history">>, {"history"})
LoansOfCustomer == Query(<<"loans", "customer", "id">>, {"loans", "loan"})
CollectionList == Query(<<"collections", "page">>, {"collections"})
ReceiptList == Query(<<"receipts", "list", "page">>, {"receipts", "receipt"})
ReceiptDetail == Query(<<"receipts", "id">>, {"receipt"})
PenaltiesOfLoan == Query(<<"penalties", "loan">>, {"penalty"})
PendingQuote == Query(<<"foreclosures", "pending", "loan">>, {"quote"})
CustomerList == Query(<<"customers", "page">>, {"customers", "customer"})
CustomerDetail == Query(<<"customers", "id">>, {"customer"})
Documents == Query(<<"customers", "id", "documents">>, {"document"})
GroupList == Query(<<"groups", "page">>, {"groups", "group"})
GroupPicker == Query(<<"groups", "list">>, {"groups", "group"})
GroupDetail == Query(<<"groups", "id">>, {"group", "loans", "loan"})
ProductList == Query(<<"loan-products", "page">>, {"products", "product"})
ProductPicker == Query(<<"loan-products", "list">>, {"products", "product"})
ProductDetail == Query(<<"loan-product", "id">>, {"product"})
UserList == Query(<<"users", "page">>, {"user"})
Approvers == Query(<<"users", "all">>, {"user"})
UserDetail == Query(<<"users", "id">>, {"user"})
SettingList == Query(<<"settings">>, {"setting"})
Holidays == Query(<<"settings", "holidays">>, {"setting"})
Daybook == Query(<<"accounting", "daybook">>, {"journal"})
TrialBalance == Query(<<"accounting", "trial-balance">>, {"journal"})
ProfitLoss == Query(<<"accounting", "profit-loss">>, {"journal"})
BalanceSheet == Query(<<"accounting", "balance-sheet">>, {"journal"})
DailySummary == Query(<<"cashbook", "daily-summary">>, {"cash"})
Handovers == Query(<<"cashbook", "handovers">>, {"handover"})
Notifications == Query(<<"notifications", "page">>, {"message"})
Dashboard == Query(<<"dashboard">>, {"customers", "customer", "loans", "loan", "collections"})
Report == Query(<<"reports", "type">>,
                {"customers", "customer", "loans", "loan", "collections", "receipts",
                 "penalty", "quote", "groups", "group", "journal", "cash", "handover"})

Queries ==
  {LoanList, LoanDetail, StatusHistory, LoansOfCustomer, CollectionList,
   ReceiptList, ReceiptDetail, PenaltiesOfLoan, PendingQuote, CustomerList,
   CustomerDetail, Documents, GroupList, GroupPicker, GroupDetail, ProductList,
   ProductPicker, ProductDetail, UserList, Approvers, UserDetail, SettingList,
   Holidays, Daybook, TrialBalance, ProfitLoss, BalanceSheet, DailySummary,
   Handovers, Notifications, Dashboard, Report}

-----------------------------------------------------------------------------
(* The mutations: the tables the server writes for them, and the prefixes  *)
(* of the keys they invalidate when they succeed.                          *)

Mutation(name, writes, invalidates) ==
  [name |-> name, writes |-> writes, invalidates |-> invalidates]

\* What a payment writes, however it is made.
PaymentTables ==
  {"collections", "receipts", "penalty", "loan", "history", "journal", "cash"}

CreateLoan == Mutation("createLoan", {"loans"}, {<<"loans">>, <<"dashboard">>})

LoanActionKeys ==
  {<<"loans">>, <<"receipts">>, <<"penalties">>, <<"foreclosures">>,
   <<"accounting">>, <<"dashboard">>}

\* submit, review, approve, reject, regenerate-schedule, close; and disburse.
DecideLoan == Mutation("decideLoan", {"loan", "history"}, LoanActionKeys)
DisburseLoan ==
  Mutation("disburseLoan", {"loan", "history", "journal", "cash"}, LoanActionKeys)

PostCollection ==
  Mutation("postCollection", PaymentTables,
           {<<"collections">>, <<"loans">>, <<"receipts">>, <<"penalties">>,
            <<"accounting">>, <<"dashboard">>})

ReverseCollection ==
  Mutation("reverseCollection", PaymentTables \union {"receipt"},
           {<<"collections">>, <<"loans">>, <<"loan">>, <<"receipts">>, <<"penalties">>,
            <<"status-history">>, <<"audit-logs">>, <<"accounting">>, <<"dashboard">>})

WaivePenalty ==
  Mutation("waivePenalty", {"penalty", "loan", "history"},
           {<<"penalties">>, <<"loans">>, <<"accounting">>, <<"dashboard">>})

GenerateQuote == Mutation("generateQuote", {"quote"}, {})

ExecuteForeclosure ==
  Mutation("executeForeclosure", PaymentTables \union {"quote"},
           {<<"loans">>, <<"loan">>, <<"collections">>, <<"foreclosures">>, <<"penalties">>,
            <<"receipts">>, <<"status-history">>, <<"accounting">>})

CreateGroup == Mutation("createGroup", {"groups"}, {<<"groups">>})
AddMember == Mutation("addMember", {"group"}, {<<"groups">>})

\* From the dialog on the page of the group, and from the page for it.
GroupCollection ==
  Mutation("groupCollection", PaymentTables \union {"group"},
           {<<"groups">>, <<"collections">>, <<"loans">>, <<"accounting">>})
GroupCollectionPage ==
  Mutation("groupCollectionPage", PaymentTables \union {"group"},
           {<<"groups">>, <<"collections">>, <<"loans">>})

CreateCustomer ==
  Mutation("createCustomer", {"customers"}, {<<"customers">>, <<"dashboard">>})
UpdateCustomer ==
  Mutation("updateCustomer", {"customer"},
           {<<"customers", "id">>, <<"customers">>, <<"dashboard">>})
AddRelative == Mutation("addRelative", {"customer"}, {<<"customers", "id">>})
Blacklist == Mutation("blacklist", {"customer"}, {<<"customers", "id">>, <<"customers">>})
ChangeDocuments ==
  Mutation("changeDocuments", {"document"}, {<<"customers", "id", "documents">>})

CreateProduct == Mutation("createProduct", {"products"}, {<<"loan-products">>})
ChangeProduct ==
  Mutation("changeProduct", {"product"}, {<<"loan-products">>, <<"loan-product", "id">>})
ChangeUser == Mutation("changeUser", {"user"}, {<<"users">>})
ChangeSetting == Mutation("changeSetting", {"setting"}, {<<"settings">>})

CreateExpense ==
  Mutation("createExpense", {"journal", "cash"}, {<<"cashbook">>, <<"accounting">>})
ChangeHandover ==
  Mutation("changeHandover", {"handover"}, {<<"cashbook">>, <<"accounting">>})
RetryNotification ==
  Mutation("retryNotification", {"message"}, {<<"notifications">>})

Mutations ==
  {CreateLoan, DecideLoan, DisburseLoan, PostCollection, ReverseCollection,
   WaivePenalty, GenerateQuote, ExecuteForeclosure, CreateGroup, AddMember,
   GroupCollection, GroupCollectionPage, CreateCustomer, UpdateCustomer, AddRelative,
   Blacklist, ChangeDocuments, CreateProduct, ChangeProduct, ChangeUser,
   ChangeSetting, CreateExpense, ChangeHandover, RetryNotification}

Touches(m, q) == m.writes \intersect q.reads # {}

Invalidates(m, q) == \E prefix \in m.invalidates : IsPrefix(prefix, q.key)

-----------------------------------------------------------------------------
NoCall == [mutation |-> Mutation("none", {}, {}), phase |-> "none"]
Grounded == [phase |-> "idle", missing |-> {}, retried |-> FALSE]
Asking == [phase |-> "asked", missing |-> {}, retried |-> FALSE]
NoEntry ==
  [has |-> FALSE, invalid |-> FALSE, old |-> FALSE, failed |-> FALSE, missing |-> {}]

\* The figures of the dashboard as a server process computed them last.
NoFigures == [kept |-> FALSE, missing |-> {}]

VARIABLES
  followed,  \* the query this behaviour follows
  entry,     \* its cached answer
  flight,    \* its fetch
  open,      \* whether a page that uses it is on screen
  call,      \* the mutation under way
  told,      \* mutations reported as successful
  figures,   \* the kpiCache of the server, for this user
  outrun,    \* an invalidation came while an answer already read was not cancelled
  submits    \* mutations submitted so far

vars == <<followed, entry, flight, open, call, told, figures, outrun, submits>>

Init ==
  /\ followed \in Queries
  /\ entry = NoEntry /\ flight = Grounded /\ open = FALSE
  /\ call = NoCall /\ told = {} /\ submits = 0
  /\ figures = NoFigures /\ outrun = FALSE

-----------------------------------------------------------------------------
(* The page and its query. *)

\* A page is opened.  The query asks unless it has an answer that is neither
\* invalidated nor older than staleTime; a fetch still under way is joined.
Open ==
  /\ ~ open
  /\ open' = TRUE
  /\ flight' = IF flight.phase = "idle" /\ (~ entry.has \/ entry.invalid \/ entry.old)
               THEN Asking ELSE flight
  /\ UNCHANGED <<followed, entry, call, told, figures, outrun, submits>>

Leave ==
  /\ open
  /\ open' = FALSE
  /\ UNCHANGED <<followed, entry, flight, call, told, figures, outrun, submits>>

\* staleTime passes.
GrowOld ==
  /\ entry.has /\ ~ entry.old
  /\ entry' = [entry EXCEPT !.old = TRUE]
  /\ UNCHANGED <<followed, flight, open, call, told, figures, outrun, submits>>

\* An answer no page uses is dropped after a while.
Collect ==
  /\ ~ open /\ entry.has /\ flight.phase = "idle"
  /\ entry' = NoEntry
  /\ outrun' = FALSE
  /\ UNCHANGED <<followed, flight, open, call, told, figures, submits>>

\* The notifications ask every ten seconds while they are on screen.
Poll ==
  /\ followed = Notifications
  /\ open /\ entry.has /\ flight.phase = "idle"
  /\ flight' = Asking
  /\ UNCHANGED <<followed, entry, open, call, told, figures, outrun, submits>>

\* The server reads its tables, or the figures it computed at most ten seconds
\* ago.
ServerReads ==
  /\ flight.phase = "asked"
  /\ IF followed = Dashboard
     THEN /\ flight' = [flight EXCEPT !.phase = "answered", !.missing = figures.missing]
          /\ figures' = [figures EXCEPT !.kept = TRUE]
     ELSE /\ flight' = [flight EXCEPT !.phase = "answered"]
          /\ UNCHANGED figures
  /\ UNCHANGED <<followed, entry, open, call, told, outrun, submits>>

FiguresExpire ==
  /\ figures.kept
  /\ figures' = NoFigures
  /\ UNCHANGED <<followed, entry, flight, open, call, told, outrun, submits>>

Arrive ==
  /\ flight.phase = "answered"
  /\ entry' = [has |-> TRUE, invalid |-> FALSE, old |-> FALSE, failed |-> FALSE,
               missing |-> flight.missing]
  /\ flight' = Grounded
  /\ UNCHANGED <<followed, open, call, told, figures, outrun, submits>>

\* The request or its answer is lost; a query is tried once more (retry: 1).
FetchFails ==
  /\ flight.phase # "idle"
  /\ IF flight.retried
     THEN /\ flight' = Grounded
          /\ entry' = [entry EXCEPT !.failed = TRUE, !.invalid = entry.has]
     ELSE /\ flight' = [Asking EXCEPT !.retried = TRUE]
          /\ UNCHANGED entry
  /\ UNCHANGED <<followed, open, call, told, figures, outrun, submits>>

-----------------------------------------------------------------------------
(* A mutation. *)

Submit(m) ==
  /\ call = NoCall
  /\ submits < MaxSubmits
  /\ call' = [mutation |-> m, phase |-> "sent"]
  /\ told' = told \ {m}
  /\ submits' = submits + 1
  /\ UNCHANGED <<followed, entry, flight, open, figures, outrun>>

\* Every answer that was read before does not show it.
Commit ==
  /\ call.phase = "sent"
  /\ call' = [call EXCEPT !.phase = "done"]
  /\ IF Touches(call.mutation, followed)
     THEN /\ entry' = [entry EXCEPT !.missing = IF entry.has THEN @ \union {call.mutation} ELSE @]
          /\ flight' = [flight EXCEPT !.missing = IF flight.phase = "answered"
                                                   THEN @ \union {call.mutation} ELSE @]
          /\ figures' = [figures EXCEPT !.missing = IF figures.kept
                                                     THEN @ \union {call.mutation} ELSE @]
     ELSE UNCHANGED <<entry, flight, figures>>
  /\ UNCHANGED <<followed, open, told, outrun, submits>>

\* Slip: the answer is marked, but nothing asks again.
RestartsNever == FALSE

\* An invalidated query asks again at once if a page uses it, and drops the
\* fetch under way; but not its first one, and not one no page waits for.
Restarts == open /\ entry.has

\* The mutation is answered, and onSuccess invalidates.
Succeed ==
  /\ call.phase = "done"
  /\ call' = NoCall
  /\ told' = told \union {call.mutation}
  /\ IF Invalidates(call.mutation, followed)
     THEN /\ entry' = [entry EXCEPT !.invalid = entry.has]
          /\ flight' = IF Restarts THEN Asking ELSE flight
          /\ outrun' = (outrun \/ (flight.phase = "answered" /\ ~ (open /\ entry.has)))
     ELSE UNCHANGED <<entry, flight, outrun>>
  /\ UNCHANGED <<followed, open, figures, submits>>

\* The server refuses, or a request or an answer is lost: nothing is
\* invalidated, whether or not the server has committed.
Fail ==
  /\ call # NoCall
  /\ call' = NoCall
  /\ UNCHANGED <<followed, entry, flight, open, told, figures, outrun, submits>>

Fetch == ServerReads \/ Arrive \/ FetchFails

Next ==
  \/ Open \/ Leave \/ GrowOld \/ Collect \/ Poll
  \/ Fetch \/ FiguresExpire
  \/ \E m \in Mutations : Submit(m)
  \/ Commit \/ Succeed \/ Fail

Spec == Init /\ [][Next]_vars

-----------------------------------------------------------------------------
(* Properties. *)

\* Mutations of this tab that were reported as successful and are not on its
\* screen.
Unseen == entry.missing \intersect told

\* The queries that a mutation leaves as they were until they grow old, though
\* it changes what they show.
LeftStale(q) ==
  CASE q = Report -> Mutations
    [] q = DailySummary ->
         {DisburseLoan, PostCollection, ReverseCollection, ExecuteForeclosure,
          GroupCollection, GroupCollectionPage}
    [] q = GroupDetail ->
         {CreateLoan, DecideLoan, DisburseLoan, PostCollection, ReverseCollection,
          WaivePenalty, ExecuteForeclosure}
    [] q \in {ReceiptList, PenaltiesOfLoan} ->
         {GroupCollection, GroupCollectionPage}
    [] q \in {Daybook, TrialBalance, ProfitLoss, BalanceSheet} -> {GroupCollectionPage}
    [] q = PendingQuote -> {GenerateQuote}
    [] q = CustomerList -> {AddRelative}
    [] OTHER -> {}

\* And it gets there: a page that stays open comes to show what was posted, or
\* its query fails.
OwnWritesReachTheScreen ==
  (open /\ ~ (Unseen \subseteq LeftStale(followed)) /\ followed # Dashboard)
    ~> (~ open \/ Unseen \subseteq LeftStale(followed) \/ entry.failed \/ outrun)
=============================================================================
