--------------------------- MODULE Administration ---------------------------
(***************************************************************************)
(* What the administrators do besides lending: user accounts, the holiday  *)
(* calendar, and the bulk import of holidays and loan products.            *)
(*                                                                         *)
(* updateUser reads the row, counts the super_admins when it is about to   *)
(* take one away, and writes; nothing holds the three together but an      *)
(* optional version of the row.                                            *)
(*                                                                         *)
(* An import is uploaded, validated and kept as a draft in memory, then    *)
(* committed row by row.  The rows are written by the services of their    *)
(* domain, which do not take part in the transaction that commit opens.    *)
(***************************************************************************)
EXTENDS Integers, Sequences, FiniteSets

CONSTANTS
  Users,         \* accounts
  InitialUsers,  \* their rows at the start
  Holidays,      \* days a calendar may hold
  Products,      \* names of loan products
  Files,         \* what is uploaded: [domain, rows, errors]
  Requests,      \* requests that may be under way at once
  MaxUpdates,    \* bound: user accounts created or updated
  MaxImports     \* bound: files uploaded, commits begun, calendars replaced

Roles == {"super_admin", "manager", "officer"}
Absent == [role |-> "none", status |-> "inactive", version |-> 0]

ASSUME AdministrationAssumption ==
  /\ InitialUsers \in [Users -> [role : Roles, status : {"active", "inactive"}, version : {1}] \union {Absent}]
  /\ \A f \in Files :
       \/ f.domain = "holidays" /\ f.rows \in Seq(Holidays) /\ f.errors \in Nat
       \/ f.domain = "loan-products" /\ f.rows \in Seq(Products) /\ f.errors \in Nat
  /\ IsFiniteSet(Users) /\ Holidays \intersect Products = {}
  /\ MaxUpdates \in Nat /\ MaxImports \in Nat

VARIABLES
  users,     \* users
  calendar,  \* settings: holiday_calendar, with the number of its writes
  products,  \* loan_products, by their unique name
  drafts,    \* ImportService.drafts
  imports,   \* data_imported rows of the audit log
  asked,     \* requests under way
  updates, uploads  \* bounds

adminVars == <<users, calendar, products, drafts, imports, asked, updates, uploads>>
accounts == <<users, updates>>
importing == <<calendar, products, drafts, imports, uploads>>

Nothing == [step |-> "idle"]

AdminInit ==
  /\ users = InitialUsers
  /\ calendar = [days |-> {}, writes |-> 0]
  /\ products = {}
  /\ drafts = {}
  /\ imports = {}
  /\ asked = [r \in Requests |-> Nothing]
  /\ updates = 0 /\ uploads = 0

At(r, step) == asked[r].step = step
Goto(r, request) == asked' = [asked EXCEPT ![r] = request]
End(r) == Goto(r, Nothing)

-----------------------------------------------------------------------------
(* User accounts *)

\* JwtAuthGuard and PermissionsGuard when the request arrives; the cache of the
\* guard is in Sessions.
Permitted(actor, roles) == users[actor].status = "active" /\ users[actor].role \in roles

MayAssign(actorRole, role) ==
  \/ actorRole = "super_admin"
  \/ actorRole = "manager" /\ role = "officer"

CreateUser(actor, u, role) ==
  /\ updates < MaxUpdates
  /\ Permitted(actor, {"super_admin", "manager"})
  /\ MayAssign(users[actor].role, role)
  /\ users[u] = Absent
  /\ users' = [users EXCEPT ![u] = [role |-> role, status |-> "active", version |-> 1]]
  /\ updates' = updates + 1
  /\ UNCHANGED <<asked, importing>>

\* A field that is not sent keeps its value.
Changes == [role : Roles \union {"same"}, status : {"active", "inactive", "same"}]

Changed(row, change) ==
  [role |-> IF change.role = "same" THEN row.role ELSE change.role,
   status |-> IF change.status = "same" THEN row.status ELSE change.status,
   version |-> row.version + 1]

IsSuperAdmin(row) == row.role = "super_admin" /\ row.status = "active"

TakesSuperAdmin(row, change) ==
  /\ IsSuperAdmin(row)
  /\ change.status = "inactive" \/ change.role \notin {"same", "super_admin"}

SuperAdmins == {u \in Users : IsSuperAdmin(users[u])}

MayChange(actor, u, change) ==
  /\ users[u].role = "super_admin" => users[actor].role = "super_admin"
  /\ change.role \notin {"same", users[u].role} =>
       u # actor /\ MayAssign(users[actor].role, change.role)
  /\ u = actor => change.status # "inactive"

\* The row is read and the rules are checked.  The form sends the version it
\* showed, or none (0).
ReadUser(r, actor, u, change, version) ==
  /\ updates < MaxUpdates
  /\ At(r, "idle")
  /\ Permitted(actor, {"super_admin", "manager"})
  /\ users[u] # Absent
  /\ MayChange(actor, u, change)
  /\ Goto(r, [step |-> IF TakesSuperAdmin(users[u], change) THEN "count" ELSE "update",
              user |-> u, row |-> users[u], change |-> change, version |-> version, counted |-> 0])
  /\ updates' = updates + 1
  /\ UNCHANGED <<users, importing>>

\* Slip: the count is compared with zero.
NoneLeft(count) == count < 1

LastOne(count) == count <= 1

CountSuperAdmins(r) ==
  /\ At(r, "count")
  /\ LET count == Cardinality(SuperAdmins)
     IN  IF LastOne(count)
         THEN End(r)
         ELSE Goto(r, [asked[r] EXCEPT !.step = "update", !.counted = count])
  /\ UNCHANGED <<users, updates, importing>>

WriteUser(r) ==
  /\ At(r, "update")
  /\ LET u == asked[r].user
     IN  IF asked[r].version \in {0, users[u].version}
         THEN users' = [users EXCEPT ![u] = Changed(@, asked[r].change)]
         ELSE UNCHANGED users
  /\ End(r)
  /\ UNCHANGED <<updates, importing>>

-----------------------------------------------------------------------------
(* The holiday calendar, replaced as a whole *)

Replaced(days) == calendar' = [days |-> days, writes |-> calendar.writes + 1]

SetHolidays(actor, days) ==
  /\ uploads < MaxImports
  /\ Permitted(actor, {"super_admin"})
  /\ Replaced(days)
  /\ uploads' = uploads + 1
  /\ UNCHANGED <<products, drafts, imports, asked, accounts>>

-----------------------------------------------------------------------------
(* Bulk import *)

DryRun(actor, file) ==
  /\ uploads < MaxImports
  /\ Permitted(actor, {"super_admin"})
  /\ drafts' = drafts \union {[id |-> uploads + 1, owner |-> actor, file |-> file]}
  /\ uploads' = uploads + 1
  /\ UNCHANGED <<calendar, products, imports, asked, accounts>>

\* evictExpired runs with the next request of any administrator.
EvictExpired(d) ==
  /\ d \in drafts
  /\ drafts' = drafts \ {d}
  /\ UNCHANGED <<calendar, products, imports, uploads, asked, accounts>>

BeginCommit(r, actor, d, strict) ==
  /\ uploads < MaxImports
  /\ At(r, "idle")
  /\ d \in drafts
  /\ Permitted(actor, {"super_admin"}) /\ d.owner = actor
  /\ strict => d.file.errors = 0
  /\ Goto(r, [step |-> "rows", draft |-> d, strict |-> strict, next |-> 1, accepted |-> {},
              read |-> {}, since |-> calendar.writes, wrote |-> 0])
  /\ uploads' = uploads + 1
  /\ UNCHANGED <<calendar, products, drafts, imports, accounts>>

Row(r) == asked[r].draft.file.rows[asked[r].next]
HasRow(r, domain) ==
  /\ asked[r].draft.file.domain = domain
  /\ asked[r].next \in DOMAIN asked[r].draft.file.rows

Accepted(r) ==
  [asked[r] EXCEPT !.step = "rows", !.next = @ + 1, !.accepted = @ \union {Row(r)}]

ReadCalendar(r) ==
  /\ At(r, "rows") /\ HasRow(r, "holidays")
  /\ IF Row(r) \in calendar.days
     THEN Goto(r, Accepted(r))
     ELSE Goto(r, [asked[r] EXCEPT !.step = "write", !.read = calendar.days])
  /\ UNCHANGED <<importing, accounts>>

Merged(read, row) == read \union {row}

WriteCalendar(r) ==
  /\ At(r, "write")
  /\ Replaced(Merged(asked[r].read, Row(r)))
  /\ Goto(r, [Accepted(r) EXCEPT !.wrote = @ + 1])
  /\ UNCHANGED <<products, drafts, imports, uploads, accounts>>

\* The row fails: on a database error, or on a product whose name is taken.
\* A strict commit ends, with what it has written; its draft stays.
RowFails(r) ==
  /\ \/ At(r, "rows") /\ (HasRow(r, "holidays") \/ HasRow(r, "loan-products"))
     \/ At(r, "write")
  /\ IF asked[r].strict
     THEN End(r)
     ELSE Goto(r, [asked[r] EXCEPT !.step = "rows", !.next = @ + 1])
  /\ UNCHANGED <<importing, accounts>>

\* The product is there before its audit row, which may fail.
CreateProduct(r) ==
  /\ At(r, "rows") /\ HasRow(r, "loan-products")
  /\ Row(r) \notin products
  /\ products' = products \union {Row(r)}
  /\ \/ Goto(r, Accepted(r))
     \/ IF asked[r].strict
        THEN End(r)
        ELSE Goto(r, [asked[r] EXCEPT !.next = @ + 1])
  /\ UNCHANGED <<calendar, drafts, imports, uploads, accounts>>

Finished(r) ==
  At(r, "rows") /\ asked[r].next > Len(asked[r].draft.file.rows)

EndCommit(r) ==
  /\ Finished(r)
  /\ drafts' = drafts \ {asked[r].draft}
  /\ imports' = imports \union
       {[draft |-> asked[r].draft, request |-> r, accepted |-> asked[r].accepted]}
  /\ End(r)
  /\ UNCHANGED <<calendar, products, uploads, accounts>>

\* The transaction that commit holds open timed out: an error, with the rows
\* written and the draft kept.
CommitTimesOut(r) ==
  /\ Finished(r)
  /\ End(r)
  /\ UNCHANGED <<importing, accounts>>

AdminRestart ==
  /\ drafts # {} \/ \E r \in Requests : ~ At(r, "idle")
  /\ drafts' = {}
  /\ asked' = [r \in Requests |-> Nothing]
  /\ UNCHANGED <<calendar, products, imports, uploads, accounts>>

-----------------------------------------------------------------------------
AccountRequests ==
  \/ \E actor, u \in Users, role \in Roles : CreateUser(actor, u, role)
  \/ \E r \in Requests, actor, u \in Users, change \in Changes :
       \E version \in {0, users[u].version} : ReadUser(r, actor, u, change, version)
  \/ \E r \in Requests : CountSuperAdmins(r) \/ WriteUser(r)

ImportRequests ==
  \/ \E actor \in Users, days \in SUBSET Holidays : SetHolidays(actor, days)
  \/ \E actor \in Users, file \in Files : DryRun(actor, file)
  \/ \E d \in drafts : EvictExpired(d)
  \/ \E r \in Requests, actor \in Users, d \in drafts, strict \in BOOLEAN :
       BeginCommit(r, actor, d, strict)
  \/ \E r \in Requests :
       ReadCalendar(r) \/ WriteCalendar(r) \/ RowFails(r) \/ CreateProduct(r)
       \/ EndCommit(r) \/ CommitTimesOut(r)

\* Bound: accounts and imports share no row but the roles of the
\* administrators, so no behaviour changes both.
AdminNext ==
  \/ uploads = 0 /\ AccountRequests
  \/ updates = 0 /\ ImportRequests
  \/ AdminRestart

-----------------------------------------------------------------------------
(* Properties *)

Draft == [id : 1..MaxImports, owner : Users, file : Files]
Items == Holidays \union Products

AdminTypeOK ==
  /\ users \in [Users -> [role : Roles, status : {"active", "inactive"}, version : 1..MaxUpdates + 1] \union {Absent}]
  /\ calendar \in [days : SUBSET Holidays, writes : 0..MaxImports * (1 + Cardinality(Holidays))]
  /\ products \subseteq Products
  /\ drafts \subseteq Draft
  /\ imports \subseteq [draft : Draft, request : Requests, accepted : SUBSET Items]
  /\ \A r \in Requests : asked[r].step \in {"idle", "count", "update", "rows", "write"}
  /\ updates \in 0..MaxUpdates /\ uploads \in 0..MaxImports

\* The last active super_admin is lost only to requests that overlap: the one
\* that takes it away acts on a row or on a count that is no longer true.  No
\* sequence of requests that do not overlap gets there (updateUser).
LastSuperAdminLostOnlyToOverlap ==
  [][SuperAdmins # {} /\ SuperAdmins' = {} =>
       \E r \in Requests :
         /\ At(r, "update") /\ asked'[r] = Nothing
         /\ \/ asked[r].row # users[asked[r].user]
            \/ asked[r].counted > Cardinality(SuperAdmins)]_adminVars

Committing == {r \in Requests : At(r, "rows") \/ At(r, "write")}

\* What a commit counts as accepted took effect: its holidays are in the
\* calendar unless someone else wrote the calendar since it began, its products
\* exist, and no product was accepted twice, however the commits of one draft or
\* of several overlap.  A draft that was reported is gone (ImportService.commit,
\* HolidayImporter, LoanProductImporter).
ImportsTellWhatTheyDid ==
  /\ \A r \in Committing :
       IF asked[r].draft.file.domain = "holidays"
       THEN asked[r].accepted \subseteq calendar.days \/ calendar.writes # asked[r].since + asked[r].wrote
       ELSE asked[r].accepted \subseteq products
  /\ \A p \in Products :
       Cardinality({r \in Committing : p \in asked[r].accepted})
         + Cardinality({e \in imports : p \in e.accepted}) <= 1
  /\ \A e \in imports : e.draft \notin drafts
=============================================================================
