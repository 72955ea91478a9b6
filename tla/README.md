# Verification of the AS Finance loan system

AS Finance is a microfinance loan-management system: a NestJS API
(`apps/api`) over PostgreSQL through Prisma, a Next.js client (`apps/web`) and
shared packages. This directory holds TLA+ modules that model the parts of it
where money, concurrency and failure meet, TLC configurations that check them
on small instances, and TLAPS proofs of what matters most for every value of
the constants. Paths below are relative to `src/`, or to
`src/apps/api/src/modules/` when they start with the name of a module.

## 1. The system

### Components, their state and operations

| Component | State | Operations that change it | Interacts with | Module |
|---|---|---|---|---|
| loan | `loans` (status, cached outstanding, version), `loan_status_history` | create, submit, review, approve, reject, regenerateSchedule, closeLoan | schedule, loan-product; every finance module locks or updates its row | `Origination`, `LoanLifecycle`, `LoanAccount` |
| disbursement | `disbursements` | disburse | accounting, idempotency, outbox, loan | `LoanLifecycle`, `LoanAccount`, `Books` |
| schedule | none (pure) | generateSchedule | loan, disbursement | `Schedule` |
| loan-product | products and versions | update (a new version), deactivate | loan | `LoanLifecycle` (partly) |
| customer | `customers`, family members, guarantors | create, update, blacklist, reinstate, addFamilyMember, addGuarantor | loan, group, the register's two pages | `Customers`, `LoanLifecycle` |
| collection | `collections`, `allocations`, `loan_schedules` paid amounts | postCollection / executeCollection with the allocation engine | penalties, accounting, receipt, idempotency, outbox, loan status | `LoanAccount` |
| reversal | compensating `collections`, `reversals` | reverseCollection | undoes collection, penalty, receipt and ledger effects | `LoanAccount` |
| penalty | `penalties` | calculateAndPost, waivePenalty | accounting, loan status | `LoanAccount` |
| foreclosure | `foreclosures` (quotes) | createQuote, executeForeclosure | collection, accounting, penalties, loan status | `LoanAccount` |
| receipt | `receipts` | issue, mark reversed | collection, reversal, foreclosure | `LoanAccount` (flag only) |
| accounting | `journal_entries`, `journal_lines`, `cash_transactions` | createJournalEntry; trial balance, profit and loss, balance sheet read it | called in the transaction of every finance handler | `LoanAccount`, `Books` |
| cashbook | expenses, `cash_handover_records` | createExpense, createHandover, verifyHandover, daily summary | accounting, idempotency | `Books`, `Idempotency` |
| idempotency | `idempotency_keys` | find, store, hourly cleanup | controllers and finance services | `OnceOnly`, `Idempotency` |
| notification | `outbox_messages`, templates | enqueue, processNextBatch, retry | enqueued in business transactions, sends to the SMS provider | `Outbox` |
| group | groups, members, `group_collections` | createGroup, addMember, removeMember, postGroupCollection | one executeCollection per member in one transaction | `Groups`, `Branch` |
| migration | drafts in memory, `migration_state`, rows of five tables | dryRun, commit, eviction, restart | writes customers, groups, members, loans, collections | `Migration`, `Branch` |
| import | drafts in memory | dryRun, commit row by row | settings, loan-product, audit log, the import modal | `Administration`, `Imports` |
| settings | `settings` | update of a key, holiday calendar as a whole | schedule, import, the settings page | `Administration`, `SettingsPage` (partly) |
| user | `users` | create, update (role, active) | auth | `Administration` (partly) |
| auth | `refresh_tokens`, versions, 5 s cache of users rows | login, refresh, logout, changePassword, the guard | every request | `Sessions` (partly) |
| web client | state of the pages, cache of queries | AuthProvider, API client, forms that move money, invalidations, the page of a loan | the API | `Sessions`, `Client`, `QueryCache`, `LoanDesk` (partly) |
| document | `file_metadata`, `customer_documents`, objects in S3 | upload with replacement, delete | disbursement looks for KYC documents | `Documents` |
| report | none | ten reports, their export | read the tables of loans, collections and journal | `Reports` over `Portfolio` |
| dashboard | a cache of ten seconds | figures | reads the same tables | `Dashboard` over `Portfolio` |
| exports, excel | none | lists to workbooks, workbooks to rows | started from the list pages; read by import | `Exports`, `Workbook` |
| help, health | none | static texts, a ping | | not modelled |
| audit, crypto | append-only log; none | createAuditLog; encrypt | every handler | not modelled |

### What is hard here

* **Two records of one fact.** A payment is recorded as allocation rows, as paid
  amounts on installments and penalties, as a journal entry, as a cash
  transaction and as a cached balance, by separate loops. Partial payments,
  reversals and waivers in any order must keep them in agreement.
* **Reads before the transaction.** The finance handlers lock the loan row
  first; `closeLoan`, `createQuote`, the decisions on an application,
  `regenerateSchedule`, product edits, `verifyHandover`, `updateUser`, the
  imports and the migration all decide on something they read earlier.
* **Retries.** A key of a transactional operation commits with its effect; the
  cashbook stores the key afterwards; keys expire after a day, the unique column
  of an effect never does. The pages of the client make their keys at different
  moments, so what a user may safely press again differs from page to page.
* **Several locks.** A group collection locks one loan after another, in the
  order the caller lists them.
* **Replicas, leases and caches.** Outbox processors claim messages in a short
  transaction, send outside any and write outcomes unconditionally; each API
  process keeps users rows for five seconds.
* **Overlapping refreshes.** Two tabs, the timer and the shared refresh of
  unauthorized requests may all use the same refresh token.
* **Answers that are old when they arrive.** Pages act on what their last query
  returned; reports and dashboard put their figures together from statements that
  run one after another; a modal can be closed before its answer comes.
* **Two stores.** A document is an object in S3 and rows in PostgreSQL, and only
  the rows are part of a transaction.
* **Dates.** Business days are Indian, the servers' calendar is UTC; date columns
  keep the UTC day.

What makes each component correct: an account never owes less than nothing and
never takes more than is due; schedule, allocations and ledger tell one story;
a status means what it says and is reached by one decision at a time; a key is
one effect; a message is sent, or known to be undeliverable, and not sent by two
replicas at once; a group collection is there as a whole or not at all; a
session's tokens form a line; the cash book agrees with the journal; a user is
told what happened. `PROJECT.json` lists the hazards with their lines and the
properties that cover them.

## 2. The modules

| Module | What it is |
|---|---|
| `Paise` | arithmetic on paise and the allocation loop, as recursive functions |
| `LoanAccount` | one loan's money state and every handler that changes it after approval |
| `OnceOnly` | the abstract promise of an idempotency key |
| `Idempotency` | requests with keys, both calling patterns, crashes, expiry, cleanup; implements `OnceOnly` |
| `Outbox` | messages, replicas, leases, outcomes, manual retry |
| `Schedule` | due dates, holidays, flat and reducing-balance amounts, as functions |
| `Origination` | the abstract promise of the approval workflow |
| `LoanLifecycle` | applications, decisions, disbursement, regeneration, product versions, with requests that overlap; extends `Schedule`, implements `Origination` |
| `Sessions` | refresh tokens, the guard with its cache, and the tabs of one browser |
| `Groups` | one group, its members and group collections, statement by statement with the locks of PostgreSQL |
| `Migration` | the one-shot migration of the legacy books |
| `Branch` | composes `Groups` and `Migration` |
| `Books` | journal, cash transactions, statements, cash handovers |
| `Administration` | user accounts, holiday calendar, bulk import |
| `Office` | composes `Books` and `Administration` |
| `Client` | the forms of the web client over a connection that loses requests and answers |
| `QueryCache` | the queries of one tab, their cache, and the mutations that should refresh them |
| `LoanDesk` | the page of a loan and the services behind its buttons |
| `Customers` | the customer register with its form and its page |
| `Documents` | the documents of one customer: S3, two tables, overlapping uploads |
| `Portfolio` | the tables that are only read below, with their writers reduced to what the readers tell apart |
| `Reports`, `Dashboard`, `Exports` | the readers, each extending `Portfolio` |
| `Workbook` | ExcelService: sheets written and read; extended by `Exports` and `Imports` |
| `Imports` | the import of settings from the modal to the audit log |
| `SettingsPage` | the settings page in two tabs |
| `BackOffice` | composes `Office` with `Reports`, `Dashboard` and `Exports` |
| `Pages` | composes `LoanDesk`, `Documents`, `Imports` and `SettingsPage` |
| `Paise_proofs`, `LoanAccount_proofs`, `Idempotency_proofs` (with `Outbox`), `LoanLifecycle_proofs`, `Sessions_proofs`, `Office_proofs` (with `BackOffice`), `Customers_proofs` (with `Client`), `Branch_proofs` (with `Documents` and `Pages`) | theorems and their proofs |
| `MC*` | constants of the small instances; `MCClient` and `MCServices` (`Idempotency`, `Sessions`) also compose modules that share no row (below) |

Definitions named as slips in a comment (`TakeEverything`, `NoRowWithKey`, ...)
are not part of any specification: each is a plausible mistake in the code, and
replacing the definition below it by the slip must make TLC find the named
property violated (`mutants` in `PROJECT.json`). `map` in `PROJECT.json` names
the lines every other definition that stands for code models; the rest places a
request at its next statement, composes modules or bounds an instance.

### LoanAccount

| Model | Code |
|---|---|
| `loan`, `history` | `loans.status`, `cached_outstanding_paise`, `dpd`; newest `loan_status_history` row |
| `installments` | `loan_schedules` paid amounts and status; principal, interest and due day are constants |
| `penalties`, `collections`, `quotes` | their tables, in the order of `created_at`; a collection carries its allocations, its journal entry and its receipt's flag |
| `ledger` | net debit of accounts 1001/1002, 1100, 4001, 4002, 4003, 5007 |
| `reads` | what `closeLoan` and `createQuote` hold between their read and their write |
| `Disburse` | disbursement.service `executeDisbursement` |
| `PostCollection` with `Allocate`, `InstallmentsAfter`, `PenaltiesAfter`, `StatusAfterCollection` | collection.service `executeCollection`, allocation-engine |
| `ReverseCollection` with `Restored`, `PenaltiesRestored` | reversal.service `executeReversal` |
| `PostPenalty`, `WaivePenalty` | penalty.service |
| `ReadForQuote`, `CreateQuote`, `AbandonQuote`, `ExecuteForeclosure` | foreclosure.service |
| `ReadForClose`, `CloseLoan`, `RefuseClose` | loan.service `closeLoan` |

A handler that holds the row lock of the loan from its first read to its commit
is one action. The clock counts days and is read at midday, so that on its due
day an installment is past its due instant while its days past due are zero, as
in the code. `QuoteDrift` stands for the tolerance of 100 paise and `QuoteDays`
for the validity of a quote, both scaled to instances of a few paise. Left out:
who acts, text of receipts, audit rows. The constants are the schedule in force
after disbursement; how it got there is `LoanLifecycle`.

### Idempotency

`pc` follows a request from `find` to its answer. `LockLoan`, `Commit`,
`Conflict` and `Refuse` are the transactional pattern (collection, reversal,
disbursement, foreclosure); `PostCashbook`, `StoreKey`, `StoreConflict` and the
two actions after the delay are the cashbook controller's. `NoEffectWithKey` is
the unique column of the effect's table, `NoKeyRow` the one of
`idempotency_keys`. A key belongs to one loan; the group collection, which
inserts before it locks and locks several loans, is in `Groups`.

### Outbox

`next_retry_at` is modelled by the time left until it, so that time needs no
bound. `Claim`, `Send` and `Record` are the three phases of
`processNextBatch`; the batch keeps the `retry_count` read in phase 1, which
phase 3 writes back. `overran` is a history variable: the messages some replica
still held when its lease ended. Templates and the text of messages are left
out; every message has the same `max_retries`.

### Schedule and LoanLifecycle

`Schedule` has no state: `GenerateSchedule` computes the rows of
schedule.service (`generateDueDates`, `adjustForHolidays`, `calculateFlatEMI`,
`calculateReducingBalanceEMI`) and `StartFor` the date loan.service hands to it.
The service computes in Decimal.js; here rates are exact fractions and only the
roundings the code names round. `Holidays` is the set of
days the generator avoids, which on a UTC host are the days before the holidays
(`getHolidaysForSchedule`).

| Model | Code |
|---|---|
| `loans`, `history` | loan rows with their schedule rows, and `loan_status_history` with who acted |
| `product`, `blacklisted` | product versions and the current one; blacklisted customers |
| `requests` | what each member of staff has read and not yet written |
| `ReadCreate`, `InsertLoan`, `RecordCreation` | `create`: checks, row, history |
| `ReadDecision`, `Decide`, `Approve` | `submit`, `review`, `reject`, `approve`: checks, then `updateStatus` with the version, and the schedule |
| `ReadDisburse`, `Disburse` | `disburse`, `executeDisbursement`: maker-checker, schedule of a `firstEmiDate` |
| `ReadRegenerate`, `Regenerate` | `regenerateSchedule`: checks, then checks again under the lock |
| `ReadProduct`, `NumberVersion`, ... | product `update`: merge with the current version, next number, unique index |
| `Collect`, `FallOverdue`, `Settle` | what `LoanAccount` does, as far as these handlers look at it |

`Origination` is the table `ALLOWED_TRANSITIONS` as a specification of stages
and of the trail of decisions; `LoanLifecycle` implements it with
`stage` <- the status (one stage for all after the disbursement) and `trail` <-
the decisions in the history (`ImplementsWorkflow`).

### Sessions

Both sides of one user's session. The server goes through a request one
database statement at a time (`FindToken`, `RevokeFamily`, `BumpVersion`,
`Rotate`, `IssueSession` for auth.service; `GuardHit`, `GuardRead`, `GuardStore`
for `jwt-auth.guard`'s cache). The browser has a cookie jar and, per tab, three
requests: its own, the timer's silent refresh, and the refresh its unauthorized
requests share (`Open` and `TriesAgain` are `restore()` with its back-off,
`JoinFlight` the 401 of the API client). `Lose` takes a request or its answer at
any point; `Reload` forgets the page. The clock runs whenever it likes, also while
the guard waits for its query (`GuardRead` to `GuardStore`); `took` is how long a
cached row was on its way. Left out: the counter of failed logins and
the lock of an account, password history, the contents of tokens.

### Groups, Migration, Branch

`Groups` runs a request of a clerk as the statements of its transaction under
READ COMMITTED: `lock` holds row locks and unique keys being inserted, `Wants`
the lock the next statement needs. `postGroupCollection` is `AskCollect`,
`OpenBook` (its own row first), then `LockLoan`, `PostPart` or `RefusePart` per
member, `CommitCollect`; `DeadlockDetected` is PostgreSQL breaking a cycle and
`TxTimeout` the end of an interactive transaction; both roll everything back.
`PostSingle`, `Disburse` and `Close` are the other handlers that change these
loans.

`Migration` has `DryRun` with its errors, drafts in the memory of the process,
and `commit` as `BeginCommit` (which reads the state before the transaction),
`FlipToInProgress`, one `WriteDomain` per writer, `CommitTx`, `DropDraft`, and
its failures: serialization failure, unique violation, lost transaction, restart.
Sheets are records; texts and dates are left out. `Branch` composes the two: the
migration's rows become the followed group, its members and its loans when its
transaction commits (`BringIn`).

### Books, Administration, Office

`Books` posts every kind of voucher through `createJournalEntry` with its
validation and its cash transactions (`CashRows`), stores it under the day
`parseDateIST` gives a date column (`Stored`: the day before), and computes the
trial balance, profit and loss, balance sheet and daily summary from the rows as
the services do: what some accounts were debited and credited on some dates
(`Debited`, `Credited`) is all that they read of the journal. `ReadHandover` and
`WriteVerdict` are the two halves of `verifyHandover`.

`Administration` has `updateUser` as read, count and write, and the imports:
draft in memory, `BeginCommit`, row by row through the services of the domain
(`ReadCalendar` / `WriteCalendar`, `CreateProduct`), which do not take part in
the transaction commit opens; `CommitTimesOut` is that transaction ending early.
`Office` composes both; they share no row.

### Client

One user, one page at a time. `Submit` sends what the form holds with the key
its page makes (`KeyOf`: kept from mounting or opening, fresh per submission, or
none); `Serve` is the server as `OnceOnly` promises it: a stored key is answered
with its stored result; `Forgotten` and `Disconnect` lose a request or an
answer. `told` and `lost` record what the user was told.

### QueryCache, LoanDesk, Customers

`QueryCache` follows one query of a tab, whichever: `entry` is what is cached,
`flight` the fetch under way, and `missing` in both the mutations of this tab the
answer does not reflect. `Invalidated` lists, mutation by mutation, what the
hooks invalidate; `Fetch`, `GrowOld`, `Collect` and `Restarts` are the query
client's staleTime, gcTime and cancellation. `LeftStale` names the pairs of query
and mutation that no hook connects.

`LoanDesk` has the guards of the buttons (`can*` of `loans/[id]/page.tsx`) and,
written apart, the refusals of the services; `Accepted` and `Refused` answer the
request under way, `Others*` is everybody else. Amounts are paise, so that the
tolerances of a paisa, on the page and in the services, are what they are; dues
are what the installments ask for and the pending penalty, as in
`cached_outstanding_paise`. What the handlers write to schedule and ledger is in
`LoanAccount`.

`Customers` runs each handler of the register one statement per action
(`MatchAadhaar`, `MatchMobile`, `Insert`, `ReadRow`, `MatchEdit`, `WriteEdit`,
...), for pages and for callers of the API, who alone send a version.

### Documents

`PutObject`, `Retire`, `LockRetired`, `Commit`, `RollBack`, `CleanUp` are an
upload; `ReadMetadata`, `Deactivate` a deletion; `Die` ends either anywhere. The
store has the `objects`, PostgreSQL the `files` and the KYC `links`. Either may do
what it was asked and its answer be lost: `PutUnheard` leaves an object the catch
does not know of, `CommitUnheard` is taken for a rollback and cleaned up. `beside`
remembers uploads whose transactions overlapped, `abandoned` keys whose upload
died, heard nothing, or failed to remove its object.

### Portfolio, Reports, Dashboard, Exports, Workbook

`Portfolio` writes loans, collections and journal entries by disbursement,
payment, reversal and expense, on days whose night still has the date of the day
before in UTC. A report is generated by `ReadScope`, `ReadRows` and `ReadLines`,
with writers in between, for each of the ten types (`DailyCollectionReport`, ...,
`CustomerReport`), and exported by generating it again. `Dashboard` reads its
figures one by one in any order and caches them per viewer (`Key`), for `Ttl`
from when the request began (`Expires`).
`Exports` has three list pages with typed and applied filters, and the button
that sends a query of its own (`Query`). `Workbook!ExportToBuffer` and
`ParseToRows` are the two directions of ExcelService; of a cell only the form
counts (a label, digits, a word, brackets, nothing).

### Imports, SettingsPage

`Imports` follows a sheet: `Download`, edits, `Upload` (which parses it and keeps
a draft), the preview, `PressCommit`, `ApplyRow` by `ApplyRow`, `EndCommit`;
answers are late (`late`, after the modal was closed) or lost (`CommitLost`). The
look-up of an earlier import of the file takes the newest `LookBack` imports (100
in the code) and may fail, which leaves a draft without a warning (`looked`).
`SettingsPage` saves its changed keys one after another (`SaveNext`,
`SaveFails`), and replaces the holiday calendar by the list it shows.

### The compositions

`MCClient` (Client, QueryCache, Customers), `MCServices` (Idempotency, Sessions),
`BackOffice` (Office, Reports, Dashboard, Exports) and `Pages` (LoanDesk,
Documents, Imports, SettingsPage) each put parts side by side that write no row of
each other's. A behaviour is about one of them, which the variable `screen` (in
`MCServices`, `exercised`) names; the others stay as they begin. The state space is the sum of those of the parts, and no interaction is
lost: what one part needs to know of another's writes is in the part itself
(`Portfolio` for the readers, `Others*` in `LoanDesk`).

## 3. What the runs check

| Run | Result | Question |
|---|---|---|
| `loan_account` | pass | Do payments, reversals, penalties, waivers, closure and quotes that go stale, in every order, keep the records of one loan in agreement, and settle it once and for what is owed? |
| `services` | pass | Do overlapping, crashed and late retries perform a transactional operation once, is nobody told of what was rolled back, and do overlapping refreshes, lost answers, logouts and changes of password keep the tokens in line and the guard's cache bounded? |
| `outbox` | pass | Do replicas, crashes, lost writes and leases leave one dispatch at a time, and every message settled? |
| `lifecycle` | pass | Do overlapping decisions, disbursements, regenerations and product edits keep the workflow, the schedule in force and the versions? |
| `branch` | pass | Are group collections and migrations whole, memberships within their limits, and do clerks' requests end in spite of deadlocks? |
| `office` | pass | Do statements and cash book agree, do handovers show the last verdict, and do reports, figures and files tell what their rows say although they are read piece by piece? |
| `client` | pass | Is what the user is told what was posted, does a visit have one effect, does a page come to show it, and what may overlapping writes of the register overwrite? |
| `pages` | pass | Does a service accept what its page offers, are documents kept, imports announced, and settings saved as typed? |
| `outstanding_accuracy` | violation | Is the cached balance what is owed? |
| `accrual_checkpoint` | violation | Does a payment move the day from which the interest of a settlement accrues? |
| `duplicate_expense` | violation | Does one key mean one effect in the cashbook too? |
| `officers_see_theirs` | violation | Does a field officer see only the own customers' loans in every report? |

Properties of the passing runs:

* `NeverOverpaid`: nothing is paid beyond its due or below zero.
* `PaidIsNetAllocated`: the paid amounts of installments and penalties are the
  sums of the allocation rows, reversals included.
* `LedgerTiesToAccounts`: each ledger balance can be derived from the schedule
  and the penalties. It also records that 1100 is debited for a penalty and never
  credited for its payment, and that 4003 is credited twice.
* `CachedBracketsOutstanding`: the cached balance of a live loan is never below
  what is owed, and above it by partly paid penalties at most. The equality the
  docs ask for does not hold: `outstanding_accuracy`.
* `ReversalsPairUp`: one compensating collection per reversed one, cancelling it
  in cash, allocation and ledger.
* `ClosesOnlySettled`: a live loan closes only when all installments are paid and
  at most a paisa is owed.
* `SettledOnce`, `PaidFlagsFollowPayments`, `SettlementCoversDues`: one
  settlement, penalty flags that mean what they say, and cash that covers what is
  owed when the quote is executed, although it was priced earlier: short by the
  tolerance at most, over by the tolerance, by penalty payments the quote counts as
  owed, and with a reducing balance by the interest already paid
  (`accrual_checkpoint`). What is owed is counted from the payments there, not by
  the code's own formula.
* `ImplementsOnceOnly`, `RepliesAreCommitted` of `Idempotency`.
* `SingleDispatch`: without an overrun lease, no two replicas hold a message and
  the holder's row is still in processing under its lease. `SentWasDelivered`,
  `SentUndoneOnlyByOverrun`, `EveryMessageSettles`.
* `ImplementsWorkflow`: whatever overlaps, a loan goes through the stages one
  decision at a time, each with its row of history. `FourEyes`: the approver did
  not make the loan and the disburser did not approve it.
* `ScheduleInForce`: the schedule is one whole schedule, whichever of approve,
  disburse and regenerate wrote it last, and the totals and due-date columns are
  its own. `ScheduleKeptOncePaid`: it is never replaced once somebody paid.
  `CurrentVersionIsLatest`: product versions stay numbered and the current one is
  the newest. `SchedulesAddUp`: for all terms tried, installments repay exactly
  the principal, a flat loan earns exactly its interest, due dates ascend and
  avoid the days taken for holidays.
* `RotationIsALine`: a token has one successor at most, and a family one live
  token at most. `CacheTtlBoundsStaleness`: no cached row outlives its change by
  more than the TTL and the time its own query took.
* `GroupsStayWhole`: a key's member collections are those of one committed
  breakdown, and every loan owes what it began with less what it paid
  (`GroupCollectionsWhole`); overlapping additions and removals keep the limits
  (`MembershipKept`). `RequestsEnd`: a clerk's request is answered. `MigrationWhole`: rows, references and shares of a
  migration are there as a whole, with the state that says so.
* `BooksAgree`: the statements agree with each other on every date, and the cash
  book with the journal on every business day (read only while there is an entry,
  to save time; `StatementsAgreeAlways` proves it without that condition). `HandoverShowsLastVerdict`;
  `LastSuperAdminLostOnlyToOverlap`.
* `ReadersTellTheirRows`: a report has the rows it is about and sums that are
  theirs, unless a write fell between its statements, which each conjunct says; a
  field officer's rows are of the own customers in the four reports that filter by
  customer (not in the other two: `officers_see_theirs`); its file is what was
  shown; a file of the exports is the list that was filtered. `FiguresCountOnce`: a
  figure is the viewer's own, a loan is counted once unless it was written while
  the figures were read, even if another one was, and nothing comes from the cache
  later than `Ttl` after it began to be read.
* `ToldIsPosted`, `OneEffectPerVisit`: what the user is told was posted was
  posted as entered, and a visit has one effect, with the exceptions each names.
  `OwnWritesReachTheScreen`: a page that stays open comes to show what its tab
  posted, but for the pairs in `LeftStale`, a failed query, or an answer that
  outran its invalidation. `LookAlikesAreNoticed`: two customers who share an
  identity were shown to somebody unless the requests overlapped or an answer was
  lost. `WritesMeetWhatWasRead`: an edit with a version replaces only what its
  author saw; a second verdict or a write out of scope needs an overlap.
* `DeskAgreesWithServer`: what a current page offers is accepted but for what the
  page is not told, and for Close while an installment still owes a paisa; a loan is
  settled by one quote, a rebate needs an expired quote. `DocumentsAreKept`: what is
  listed opens unless the answer to its COMMIT was lost, two files of a type need
  overlapping uploads, an object without a row was left by a death, a lost answer or
  a failed removal. `ImportsAreAnnounced`: every
  row of a file is imported or named, an export read back has the same values,
  two commits of a draft overlap only after a lost or late answer, a file imported
  again within a day is announced if the look-up worked and reached back to the
  first import. `FormsFollowTheTable`: what counts as changed
  was typed, a setting changes only to what was typed for it, and the table of
  holidays is the calendar.

Type invariants are proved where a module has theorems that need them
(`LoanAccount`, `Idempotency`, `Outbox`, `Sessions`), and checked as a conjunct of
the properties of `office`, `client` and `pages` for the modules composed there.

### Bounds

`loan_account`: two installments of 2 + 1 paise, a reducing balance, a fee of one
paisa, one penalty period, payments of 1 and 2 paise, four collection rows (payments, reversals,
settlement), two quotes, three days. A few paise suffice because every branch
compares two sums: payments can be partial, exact or span components, penalties can
be paid in part, reversed and paid again; the drift of a quote and its expiry both
happen. The two violation runs of the account need less. `services`: one
collection and one expense, each sent twice, a TTL of one tick and four instants,
enough for a retry after expiry and cleanup; one tab with
its three requests (a second tab adds only requests of the same kinds to the same
jar), three tokens, a cache of two ticks on a clock of three instants, so that a
query may take as long as an entry lives, one change of the users row, two attempts
of restore. `outbox`: two messages claimed together by two replicas, two
attempts each, one crash or lost write, one manual retry, a lease longer than the
first backoff, so that a stale failure reopens a row while another replica holds
it.

`lifecycle`: one loan of one customer, two members of staff (one held to her own
customers, nobody exempt from maker-checker), months of three and four days with
two holidays in a row, two days of action, one explicit first date, two product numbers
and six versions of the loan row: two decisions, a regeneration and a payment
overlap in every order, and a product edit races another.
`SchedulesAddUp` is tried in the states where nothing is under way, for principals
1, 2, 7 and 50, rates of 0, 1 and 6, tenures of 1 to 3, six first days and all
frequencies; the fraction of a weekly or daily reducing rate has too large a
denominator for TLC's integers, so these are tried flat. `branch`: three customers, two loans, two clerks with two keys and
three requests, groups of exactly two (the code has 5 and 15), two
administrators and four files, of which some are refused by the dry run and
some collide; the migration commits only while no clerk's request is under way,
and clerks work only while no commit is (`Untouched`, `Quiet`): they lock
different rows. `office`: three days, amounts 0 to 2, two entries; one handover
and three verdicts; three accounts with two super_admins, two requests at once,
two files, and three uploads, commits and calendar changes in all; for the readers
loans repaid in two parts, two officers, three days and three journal entries,
enough for a payment, its reversal and a reassignment between two statements. On
the dashboard there are two loans, of which one is paid out and then left alone
while the other is written (`SecondLoanStays`), and the cache lives for one instant
of two; there the outstanding is read after the two counts. A third
entry in the reports is one of a loan (`ThreeOfALoan`).
`client`: all nine forms, two inputs, two visits, three submissions: a lost answer,
a changed form and a second submission fit; every query with one mutation; two
customers, a manager, a field officer and a caller, two requests, which overlap.
`pages`: a loan of two paise, a penalty of two, quotes that may be one paisa off,
two of them, so that one expires or goes stale beside the other (where there are two,
no payment landed but the settlement, and no penalty is left by it:
`TwoQuotesOnePosting`), seen by a manager or by a
field officer who is not told one thing; one KYC type and one other, three keys, one
death or lost answer; a setting of one kind, one edit of
the sheet, two uploads, one change elsewhere (none where a look-up fails,
`OneThingWrong`), a look-up that takes one import, two days more than 24 hours
apart; two tabs, two writes. Deadlock is not
checked: every run ends when its bounds are used up.

### Fairness

`FairSpec` of `Outbox` (`OutboxFairness`): weak fairness of each replica's claim (`@Interval(10_000)`),
of a send settling and of recording it, and of the clock; crashes, lost writes
and manual retries are bounded and never required. `Branch`: weak fairness of a
clerk's next statement and of PostgreSQL's deadlock detection
(`deadlock_timeout`); the number of requests is bounded. `MCClient!WebSpec`: weak
fairness of a fetch that was begun: the browser ends it with an answer or an
error. The other specifications have no liveness property: nothing obliges a
customer to pay or an administrator to act.

### The four disagreements

1. `executeCollection` counts a partly paid penalty in full when it computes what
   is owed (collection.service.ts:148), so the payment after a partial penalty
   payment caches too high a balance (docs/finance-invariants.md:8). A loan
   repaid in full may then stay open: neither the payment nor `closeLoan` finds
   its balance at zero.
2. The cashbook controllers commit the effect before the key
   (cashbook.controller.ts:63-70, 100-106): two overlapping requests, or a crash
   and a retry, record it twice (docs/finance-invariants.md:15).
3. The interest of a reducing-balance settlement accrues from
   `last_interest_accrued_to` or the disbursement, without the interest already
   paid, because "prior payments already moved the accrual checkpoint forward"
   (foreclosure.service.ts:792-794, also 119-121). No payment does: the column is
   written by the settlement itself (581) and by the migration
   (migration.service.ts:795), so interest that was paid is settled again.
4. "field_officer: sees only own assigned data" (report.service.ts:58), and the
   disbursement and the aging report pass on the half of the scope that a field
   officer does not have and drop the one she has (380-384, 456-458): she is shown
   the whole book.

### Observed while modelling

Not stated as runs of their own; where a passing property allows for one, it says
exactly when.

*Accounts.* `closeLoan` checks the status before the lock only
(loan.service.ts:657): a foreclosure in between ends as foreclosed -> closed,
although loan.service.ts:27 calls both terminal. A reversal on a closed or foreclosed loan leaves dues behind a
terminal status; waiver and reversal do not look at the loan's status. The clamp
of the live settlement at zero hides drift when the rebate exceeds it. A request
that loses the race for its key inside its transaction fails with P2002, although
the comment at idempotency.service.ts:107 says the controller falls back to the
stored result.

*Outbox.* `markSent` and `markFailed` write by id unconditionally
(notification.repository.ts:196, against the comment at 211-215): a replica that
outlived its lease can turn a sent message into a failed one that is sent again.
`SentUndoneOnlyByOverrun` says that nothing else can.

*Schedules and loans.* A first date at the end of a month starts the schedule in
a shorter one and may pull the first due day before the disbursement day although
the check says "First EMI date must be after disbursement date". Approval without
a first date counts from the day of approval, so a late disbursement may find its
first installment due. Flat remainders are spread over the first installments,
not "absorbed by last installment only" (docs/finance-invariants.md). On a UTC
host the generator avoids the day before a holiday and not the holiday itself
(`getHolidaysForSchedule`, disbursement.service.ts:348, against the comment at
loan.service.ts:441). A product edit merges with the version it read, so the
second of two overlapping edits undoes the first; old versions are never marked
inactive. Approval and disbursement do not look at the blacklist again; the limit
of concurrent loans is counted without a lock; `regenerateSchedule` is refused
after a reversed payment too; `create` does not compare `groupId` with
membership; `transitionStatus` has no caller.

*Sessions.* "Ensures only one refresh request is in-flight at a time"
(api-client.ts) holds for unauthorized requests; the timer and `restore()` send
their own. The rotation makes that harmless for the tokens, at the price of a
sign-out. The guard promises that terminated users lose access "within 1 minute"
by a "60s TTL" (jwt-auth.guard.ts:48-49); the TTL is five seconds and starts when
the query has been answered, so the bound is five seconds and the duration of the
query, however long that is.

*Group and migration.* Two group collections in opposite orders end by
PostgreSQL's deadlock detection only. A member whose group loan is approved and
not yet disbursed can be removed. The state of the migration is read before the
transaction, so a second file may be committed after the first completed,
although "module is permanently locked"; legacy ids have no unique column and
duplicates of groups and loans pass the dry run; migrated groups obey neither
limit; the migrated balance is what the file says.

*Books.* `date.util.ts:78-83` calls `parseDateIST` unsafe for date-only columns,
and `createJournalEntry`, `maybeWriteCashTransaction` and `createExpense` use it
for them: vouchers are stored under the day before. The cash book reads with the
same shift and agrees; the statements of accounting read plain dates, so what
they show for a day is the business of the day after, and a period ends a day
late. Penalties and reversals pass the UTC day. Nothing closes an accounting
period.

*Administration.* The importers write outside the transaction of commit, so
rolling back everything when "one bad row" fails (import.service.ts:130-131) does
not happen: rows before the bad one stay, without an audit row. Commit does not
claim its draft. Two overlapping holiday imports lose one's days. Two
super_admins who deactivate each other at once both succeed.

*Register and documents.* The page of a customer sends no version, so the last of
two edits wins (against customer.service.ts:263), and it compares the dialog with
the row the query holds when Save is pressed, so after a refetch it sends fields
nobody touched. A field officer who registers a customer is not assigned to them
and is refused the page. Two overlapping uploads of one type both stay active
(against document.service.ts:167). "So we never leave an orphaned upload behind"
(150-151) holds for errors of the transaction: a put that took effect but whose
answer was lost (142-148) throws before the catch and leaves an object without a
row; and a COMMIT whose answer was lost is cleaned up like a rollback (190-201),
which removes the object of an active document. No code sets `is_verified`, which
`hasKycDocuments` counts.

*Reports and figures.* The total of a daily report adds the entry of a reversal
to what was collected. Windows that begin at midnight in India begin a day early
in a date column, for reports and dashboard alike. Reports whose data is not a
list are exported without rows. The aging report leaves out the entries of
reversals. `dpd` is written by payments, reversals and penalties only, so a loan
nobody pays is not in the overdue report. The dashboard answers an invalidation
from figures up to ten seconds old.

*Exports and imports.* The loan number typed on the collections page does not
reach the export; BigInt amounts come out blank; the audit row of an export may
fail unnoticed. A filled-in template is refused, its title being taken for the
header. Blank rows and blank header cells shift the numbers of rows and columns.

*Pages.* Close is offered within a paisa of zero "to match the backend tolerance"
(page.tsx:402-403), whose tolerance is of the cached balance alone: `closeLoan`
refuses a loan with an unpaid installment, so one that owes its last paisa is
offered Close and refused. A stale quote is pending until it expires, so the page shows it again
instead of a new one; a rebate typed for execution is refused whatever its amount
(page.tsx:306 says it is re-validated). The look-up of earlier imports swallows its
own failure and takes 100 rows (import.service.ts:252, 265-268): in both cases a
file is imported again unannounced. A PUT of the settings page that took effect but
whose answer was lost leaves the page behind the table until its next query; the
model's failures have no effect. Foreclosures and group collections do not
invalidate the dashboard. Adding a holiday on a page that is behind removes what
another tab added; imported holidays are not shown until the page is entered
again.

*Client.* The collection page keeps its key while amount and loan are edited: after
a lost answer the changed payment is answered with the first one's result and
reported as posted. `useCashbook.ts:66` says that retries reuse the key, and each
submission makes one. A loan application carries none.

## 4. What is proved

| Theorem | Statement |
|---|---|
| `LoanAccount_proofs!AccountInvariant` | `Spec => []AccountInv` |
| `LoanAccount_proofs!TypeCorrect` | `Spec => []TypeOK` |
| `LoanAccount_proofs!NeverOverpaidAlways` | `Spec => []NeverOverpaid` |
| `LoanAccount_proofs!SettledOnceAlways` | `Spec => []SettledOnce` |
| `LoanAccount_proofs!ReversalsPairUpAlways` | `Spec => []ReversalsPairUp` |
| `LoanAccount_proofs!PaidFlagsFollowPaymentsAlways` | `Spec => []PaidFlagsFollowPayments` |
| `LoanAccount_proofs!PaidIsNetAllocatedAlways` | `Spec => []PaidIsNetAllocated` |
| `LoanAccount_proofs!LedgerTiesToAccountsAlways` | `Spec => []LedgerTiesToAccounts` |
| `LoanAccount_proofs!CachedBracketsOutstandingAlways` | `Spec => []CachedBracketsOutstanding` |
| `LoanAccount_proofs!ClosesOnlySettledAlways` | `Spec => ClosesOnlySettled` |
| `LoanAccount_proofs!SettlementCoversDuesAlways` | `Spec => SettlementCoversDues` |
| `Idempotency_proofs!IdempotencyTypeCorrect` | `Spec => []TypeOK` |
| `Idempotency_proofs!RepliesAreCommittedAlways` | `Spec => []RepliesAreCommitted` |
| `Idempotency_proofs!OnceOnlyImplemented` | `Spec => ImplementsOnceOnly` |
| `Idempotency_proofs!SingleDispatchAlways` | `OutboxSpec => []SingleDispatch` |
| `Idempotency_proofs!SentWasDeliveredAlways` | `OutboxSpec => []SentWasDelivered` |
| `Idempotency_proofs!SentUndoneOnlyByOverrunAlways` | `OutboxSpec => SentUndoneOnlyByOverrun` |
| `LoanLifecycle_proofs!WorkflowImplemented` | `Spec => ImplementsWorkflow` |
| `LoanLifecycle_proofs!ScheduleInForceAlways` | `Spec => []ScheduleInForce` |
| `LoanLifecycle_proofs!SchedulesAddUpAlways` | `Spec => []SchedulesAddUp` |
| `LoanLifecycle_proofs!LifecycleTypeCorrect` | `Spec => []TypeOK` |
| `LoanLifecycle_proofs!FourEyesAlways` | `Spec => []FourEyes` |
| `LoanLifecycle_proofs!ScheduleKeptOncePaidAlways` | `Spec => ScheduleKeptOncePaid` |
| `LoanLifecycle_proofs!CurrentVersionIsLatestAlways` | `Spec => []CurrentVersionIsLatest` |
| `Sessions_proofs!SessionsTypeCorrect` | `SessionsSpec => []SessionsTypeOK` |
| `Sessions_proofs!RotationIsALineAlways` | `SessionsSpec => []RotationIsALine` |
| `Sessions_proofs!CacheTtlBoundsStalenessAlways` | `SessionsSpec => []CacheTtlBoundsStaleness` |
| `Office_proofs!HandoverShowsLastVerdictAlways` | `OfficeSpec => []HandoverShowsLastVerdict` |
| `Office_proofs!LastSuperAdminLostOnlyToOverlapAlways` | `OfficeSpec => LastSuperAdminLostOnlyToOverlap` |
| `Office_proofs!ImportsTellWhatTheyDidAlways` | `OfficeSpec => []ImportsTellWhatTheyDid` |
| `Office_proofs!StatementsAgreeAlways` | `OfficeSpec => [](StatementsAgree /\ CashBookFollowsLedger)` |
| `Office_proofs!BooksAgreeAlways` | `OfficeSpec => []BooksAgree` |
| `Office_proofs!BackOfficeIsAnOffice` | `BackOfficeSpec => OfficeSpec` |
| `Office_proofs!ReadersTellTheirRowsAlways` | `BackOfficeSpec => []ReadersTellTheirRows` |
| `Office_proofs!CachedFiguresAreRecentAlways` | `BackOfficeSpec => Board!CachedFiguresAreRecent` |
| `Office_proofs!FiguresCountOnceAlways` | `BackOfficeSpec => FiguresCountOnce` |
| `Customers_proofs!ToldIsPostedAlways` | `Spec => []ToldIsPosted` |
| `Customers_proofs!OneEffectPerVisitAlways` | `Spec => []OneEffectPerVisit` |
| `Customers_proofs!LookAlikesAreNoticedAlways` | `RegisterSpec => []LookAlikesAreNoticed` |
| `Customers_proofs!WritesMeetWhatWasReadAlways` | `RegisterSpec => WritesMeetWhatWasRead` |
| `Branch_proofs!MigrationWholeAlways` | `BranchSpec => []MigrationWhole` |
| `Branch_proofs!GroupsStayWholeAlways` | `BranchSpec => GroupsStayWhole` |
| `Branch_proofs!DocumentsAreKeptAlways` | `Spec => []DocumentsAreKept` |
| `Branch_proofs!PagesAreApart` | `PagesSpec => Desk!Spec /\ Spec /\ Import!Spec /\ Form!Spec` |
| `Branch_proofs!DeskAgreesWithServerAlways` | `PagesSpec => []DeskAgreesWithServer` |
| `Branch_proofs!ImportsAreAnnouncedAlways` | `PagesSpec => []ImportsAreAnnounced` |
| `Branch_proofs!FormsFollowTheTableAlways` | `PagesSpec => FormsFollowTheTable` |

The only assumptions are the named ones on the constants of each module, which
TLC evaluates on every run. The bounds are constants too, so the theorems hold
for every bound. Two of them deserve a word: `CalendarReaches` says that the
calendar covers every schedule that can be asked for (the real one has no end),
and `AuditAssumption` that the inputs `SchedulesAddUp` tries are inputs of the
generator.

**Paise: induction over data.** The library's induction theorems cannot be
instantiated by the provers, so a statement about all naturals below n is proved
as one about a set: the least element of the set of counterexamples, which exists
because `<` is well-founded on the naturals, is refuted. `RecursionExists` does
this once for every recursive function over `0..n`; sums (`Total...`), passes of
the allocation loop, powers, balances, calendars and trails of histories are
instances. Sums of sums, sums of changed rows and the passes of the allocation
follow from the recursions.

**LoanAccount.** `NeverOverpaid` alone is not inductive: a reversal subtracts
the allocations of a stored collection, so a collection that can still be
reversed has to carry non-negative ones. `AccountInv` adds
`AllocationsNonNegative` for that, and rests on the lemmas of `Paise_proofs`: a
pass of the allocation loop takes between zero and each demand, and leaves
between zero and its budget. `SettledOnce` needs that a loan which may still be
foreclosed has no settlement (`SettledInv`): the status refuses the second of two
open quotes. `ReversalsPairUp` needs that a compensating row names a row that
exists (`PairsInv`). `PaidFlagsFollowPayments` is inductive with `AccountInv`: a
payment reaches pending penalties only, and a reversal leaves something to pay on
each penalty it reopens.

The books of a loan follow from the rows. `RowsInv` says what each stored
collection, settlement and reversal carries; `PaidInv` that the paid amount of an
installment or a penalty is the sum over the collections that stand, and that a
reversal cancels its original in that sum. `LedgerTiesToAccounts` needs, for each
kind of entry, what it posts to the receivable and to income (the lemmas on
`Books` say that a posting of an allocation moves the ledger by what it moves the
rows), that nothing is posted before the disbursement (`EarlyInv`) and that a
reversal takes back no more than its row. `CachedBracketsOutstanding` is
inductive with these and with `AllocationSpends`: an allocation takes exactly
what it was given, up to what is owed. From the bracket and `StatusInv` follow the two action
properties: a loan closes, or is foreclosed, only against what is owed at that
moment.

**Idempotency.** The refinement maps `performed` to the effect of each
transactional key and `answered` to the replies. It needs `KeyRowsAreEffects`
(a stored row names a committed effect of its key), `PastCommit`,
`OneEffectPerKey` and `RepliesAreCommitted`; with them a commit is `Perform`, a
replay or a reply is `Answer`, and everything else stutters. The unique column is
what keeps `OneEffectPerKey` after expiry; the proof uses nothing of TTL or clock.

**Outbox.** `OutboxInv` is `TypeOK`, `SingleDispatch` and `SentWasDelivered`. A
message outside `overran` that a replica holds is in processing and not yet due:
it can be neither claimed nor reset, and only its holder records it, which is
why `SingleDispatch` is inductive with the types. The types say too that a row
that may still be tried has retries left, so that the backoff table is never
read out of its range. From `SingleDispatch` follows that a sent row changes
only when the lease was outlived.

**LoanLifecycle.** A decision writes on what it read. `DecisionsInv` says why the
version it asks for is enough: while the version is the one that was read, the
status still allows the decision, because the status of a loan that is not paid
out moves only together with its version. `HistoryInv` ties each signature in the
history to the loan row and `CollectedInv` says that only paid-out loans have
payments; with them the look at the collections under the lock is what keeps the
schedule. `VersionsInv`: version numbers have no gap up to the current one, and an
edit under way holds a number that was next when it asked; the unique index
refuses the other of two.

The refinement maps a loan to its stage and to the decisions of its history.
`Trail` is a recursive function, so a row appended to the history appends its
decision or nothing (`TrailGrows`); with `DecisionsInv` each write is one
`Decide` of `Origination` and every other step stutters.

`GeneratedSchedule` says what the generator computes for *every* principal, rate,
tenure and start inside the calendar: the months ascend (`MonthsAscend`), a
clamped date stays in its month, `AdjustForHolidays` ascends and avoids holidays,
the shares of a flat loan add up to principal and interest, and the balance of a
reducing loan falls to exactly zero, which the last installment takes. `TypeInv`
carries it into the state: a loan has a schedule exactly from its approval on,
whatever wrote it last. The start of an approval is read before the transaction;
`StartsInv` says that it still fits the tenure and the frequency of the row,
which no handler changes.

**Sessions.** The types need that what a request holds fits the place where its
handler is (`Kept`). `LineInv`: rotation revokes the token it replaces in the
statement that finds it live, so a second refresh finds it revoked. `StaleInv`:
a row on its way from the database into the cache that is no longer true has
changed since it was read, however long ago that is; the entry it becomes expires
a TTL after it arrives, that is `took` and a TTL after it was read at most.

**Office.** `BooksInv`: every entry is balanced and posts to the chart, and over
any dates the cash transactions bring in, net, what the cash and bank accounts
were debited, net. The first conjunct is what `createJournalEntry` validates, the
second follows case by case from `CashRows`. The rest is about sums: a turnover
adds up over disjoint accounts and over disjoint dates (`TurnoverAdds`), so a sum
over the chart is the movement of its accounts (`ChartAddsUp`), the movements of
all accounts cancel (`NetsCancel`), and the profit up to a date is the sum of the
profits of its days (`ProfitsAddUp`). Nothing depends on which vouchers there are.

The other properties speak of what a request read before it writes, so each
has an invariant on the requests: `HandingInv` (what is read names a handover of
someone else, what it shows was logged last), `UpdatesInv` (an update that takes
a super_admin away has counted another one), `ImportsInv` (what a commit accepted
is in the calendar it will write back, or the calendar was written meanwhile; a
product was taken by one commit; a draft has its own number).

**The readers.** All three rest on `TablesInv`: a receipt has an entry of its own,
worth its amount, a loan is paid what its standing receipts say, and every entry is
balanced. What a reader has read it compares with the tables of now, so each has an
invariant that says how far they may be apart. `BoardInv`: the figures read so far
are those of now, but for the loans that were written since (`Fresh`: a count is the
size of a set that differs from the loans to be counted in those alone), and an
entry of the cache expires `Ttl` after its reading began. `DeskInv` (`ScopeFits`,
`RowsFit`, `Tells`): scope and rows are of the user's customers, or of loans whose
customer was reassigned meanwhile; sums and lines agree with the rows whatever was
written; and for a manager for whom nothing was written, the report is what the
tables give now. `ListsInv`: the dates that were sent are those of the filters that
were applied, and a file has the rows of its query, as many as its audit row counts.
The sums and counts of rows are split over disjoint sets (`RowsAddUp` and the
lemmas on `SumOf`). The assumptions are that manager and collector are no officers,
and that the two counts are among the figures.

**Client.** `SharedInv` says what a form, a request and an effect that share a
visit or a key agree on; `WaitInv` that only the form on screen waits;
`EffectsInv` that a form with an effect is about to hear of it, or was not told.

**Customers.** A handler looks for look-alikes, reads the row, checks it and
writes, and others write in between; `missed` is what happened behind its back.
`RegisterInvariant` says what a request still knows, statement by statement:
whoever shares its Aadhaar or mobile is among what it matched or missed (`Found`),
the version its caller read stands for the values its caller read (`Seen`, which
needs that versions only grow), and the status or the officer it has checked still
holds unless the row is missed (`Checked`). The writes then follow from the guard
of each statement, and a pair of look-alikes is covered by the request that made
it until its answer is told or lost.

**Migration.** `MigrationInv` follows each `commit()` between its statements.
What it has written so far is what its draft says of the domains it is past, and
no loan or collection of it clashes with a committed one (`CommitHolds`); a commit
that has begun to write holds the row of the setting, so there is at most one
(`CommitsApart`); the committed rows come from settled drafts, each of them whole
(`RowsSettled`). A commit adds a whole draft, a rollback adds nothing.

**Groups.** `GroupInv` says what a request has worked out under the locks it
holds: each part of a collection it is past is owed by a loan that it has locked,
and what will be left is what the loan owes less that part (`CollectHolds`); who
adds or removes has the group locked, and its look at the members still stands
(`MemberHolds`). No customer is an active member twice (`ActiveOnce`), and nothing
is posted on a loan before it is lent (`NotYet`). A commit appends the rows of its
parts, so the sums over posted rows are split with `TotalConcat`: what was
collected under a key is the sum of its parts, what was collected from a loan is
what it no longer owes. The key's lock and its unique column leave one commit
per key.

**Documents.** `StoredApart`: what an upload has stored is a key of its own until
its transaction ends, so nobody else's cleanup removes it, and it has no row unless
its COMMIT was not heard, in which case its key is `abandoned`; with
`StoreAccounted` that is all an object without a row, or a row without an object,
can be. `ReplacesOrOverlaps`:
while an upload replaces, each active document of its type is among those it
takes back or overlapped with it, and so is every other upload that replaces; at
its commit this is `OneFilePerTypeUnlessOverlapped`.

**Pages.** `PagesAreApart`: what `Pages` composes is a behaviour of each part, so
each is proved by itself, over the variables it has there. `DeskInv` adds to the
types what the rows of a loan say by its status and why a reversal is offered
(`LoanHistory`), that one quote settles it, and where a rebate can have come from
(`RebateHistory`: a dialog over an expired quote); `LoanHistory` has, too, that what
a reversal gives back and what is still owed stay within the loan. That a current page offers only
what is accepted then follows button by button, from the condition that shows it
and the guards behind it. `FormInv` says of each tab that it has a text for every
key, that a save under way writes typed keys once each, and that what differs
from what the server said was typed (`FormOf`), also when a save fails half-way;
the table of holidays is inductive with it.

**Imports.** `ImportInv` has three parts. `ImportTyped` says what travels with a
sheet: an export that nobody edited is one of two sheets, with and without the
lines above its header; a draft holds what `ParseToRows` makes of its sheet and,
if its look-up worked, was warned of every import among the newest `LookBack` of
its moment (`Announced`); a commit that is past some
rows of an export has written just their values (`CommitOf`). The second is
`SecondImportIsAnnounced`, inductive with the log that `Announced` looks at. The
third, `Untroubled`, holds while no answer was lost or late: one upload is on its
way and its draft is not committed yet (`UploadsApart`), a draft has one commit
(`OneCommitEach`), and a modal that shows a draft has it, or is committing it
(`ModalKnows`); without this `CommitsOverlapOnlyAfterTrouble` would not be
inductive. The lemmas under it are about the workbook: the rows of any sheet are
counted once each, the complete ones in their order and the others by name
(`ParseIs`, from `RanksCount`: the k-th of a finite set of rows exists and is one),
an export with its heading is refused (`FullRefused`), and one without it parses
to the values it was made from (`BareParsed`). That there is a setting, and
finitely many, is assumed: the seed fills the table (`prisma/seed.ts`), and an
import changes only keys that are there.

**Only model-checked.** `EveryMessageSettles`, `RequestsEnd` and
`OwnWritesReachTheScreen` are liveness, out of the provers' reach, as is ENABLED.
`OutstandingAccuracy`, `PaymentsMoveTheCheckpoint`, `NoDuplicateEffects` and
`OfficersSeeOnlyTheirCustomers` are violated.

## 5. What is not modelled, and the plan

The map covers a little under a third of the implementation's lines. Most of what
is left is layout of pages and components, request validation and controllers.

* **audit, crypto**: append-only rows inside the transactions of the handlers;
  encryption of fields has no state.
* **help, health**: texts and a ping.
* **web client**: layout, and lists other than those of `Exports`.
* **auth**: the counter of failed logins, the lock of an account and password
  history; **user**: area assignments; **receipt**: contents and numbering (a
  sequence of the database); **loan-product**: its creation; **exports**: groups
  and the day book.

Done: all modules, runs and theorems above. Left, in this order:

1. The failed-login counter and its lock in `Sessions`, which read and increment
   apart.
2. A larger instance of `branch` with three clerks, for cycles of three locks.
