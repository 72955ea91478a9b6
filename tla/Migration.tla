----------------------------- MODULE Migration -----------------------------
(***************************************************************************)
(* The one-shot migration of the legacy books: files are uploaded and      *)
(* checked (dryRun), kept as a draft in the memory of the process, and     *)
(* written by commit() in one serializable transaction that also moves the *)
(* setting migration_state.  The state and the draft are looked at before  *)
(* the transaction begins.                                                 *)
(*                                                                         *)
(* A file is what the five sheets say; texts and dates are left out.       *)
(***************************************************************************)
EXTENDS Paise, Sequences, FiniteSets, SequencesExt

CONSTANTS
  Admins,      \* requests of administrators that may be under way at once
  Files,       \* the uploads: records of five sequences of rows
  MaxDrafts,   \* bound: drafts ever stored
  NoDraft

ASSUME MigrationAssumption ==
  /\ MaxDrafts \in Nat
  /\ NoDraft \notin Nat /\ NoDraft \notin Admins
  /\ \A f \in Files :
       /\ \A sheet \in {f.customers, f.groups, f.members, f.loans, f.collections} :
            Len(sheet) \in Nat /\ DOMAIN sheet = 1..Len(sheet)
       /\ \A l \in ToSet(f.loans) :
            l.principal \in Int /\ l.interest \in Int /\ l.tenure \in Int /\ l.paid \in Int

VARIABLES
  drafts,     \* the Map of drafts: id -> its creator and its file
  uploads,    \* drafts stored so far: the next id
  setting,    \* migration_state, as committed
  settled,    \* the drafts whose transaction is committed
  rows,       \* the rows of migrated entities, as committed
  settingLock,\* the commit that holds the row of migration_state, or NoDraft
  commit      \* the commit() of each administrator

migrationVars == <<drafts, uploads, setting, settled, rows, settingLock, commit>>

NoCommit == [pc |-> "idle", draft |-> NoDraft, file |-> NoDraft,
             seen |-> {}, written |-> {}]
Domains == <<"customers", "groups", "members", "loans", "collections">>

MigrationInit ==
  /\ drafts = [d \in {} |-> NoDraft]
  /\ uploads = 0
  /\ setting = "available"
  /\ settled = {}
  /\ rows = {}
  /\ settingLock = NoDraft
  /\ commit = [a \in Admins |-> NoCommit]

-----------------------------------------------------------------------------
(* dryRun *)

Ids(seq) == {seq[i].id : i \in DOMAIN seq}
Again(seq) == {i \in DOMAIN seq : \E j \in 1..(i - 1) : seq[j].id = seq[i].id}

\* Rows the dry run reports.  A loan or a group that comes twice is not among
\* them.
Errors(f) ==
  [customers |-> Again(f.customers),
   groups |-> {i \in DOMAIN f.groups : f.groups[i].leader \notin Ids(f.customers)},
   members |-> {i \in DOMAIN f.members :
                  \/ f.members[i].group \notin Ids(f.groups)
                  \/ f.members[i].customer \notin Ids(f.customers)},
   loans |-> {i \in DOMAIN f.loans :
                LET l == f.loans[i]
                IN  \/ l.customer \notin Ids(f.customers)
                    \/ l.group # NoDraft /\ l.group \notin Ids(f.groups)
                    \/ l.principal < 0 \/ l.interest < 0
                    \/ l.tenure < 1 \/ l.paid > l.tenure},
   collections |-> {i \in DOMAIN f.collections :
                      f.collections[i].loan \notin Ids(f.loans)
                        \/ f.collections[i].amount < 0}
                     \union Again(f.collections)]

Clean(f) == \A d \in DOMAIN Errors(f) : Errors(f)[d] = {}

DryRun(a, f) ==
  /\ setting # "completed"
  /\ uploads < MaxDrafts
  /\ uploads' = uploads + 1
  /\ drafts' = [d \in DOMAIN drafts \union {uploads'} |->
                  IF d = uploads' THEN [by |-> a, file |-> f] ELSE drafts[d]]
  /\ UNCHANGED <<setting, settled, rows, settingLock, commit>>

Without(d) == [e \in DOMAIN drafts \ {d} |-> drafts[e]]

\* The TTL of a draft is over when the next call evicts.
EvictExpired(d) ==
  /\ d \in DOMAIN drafts
  /\ drafts' = Without(d)
  /\ UNCHANGED <<uploads, setting, settled, rows, settingLock, commit>>

-----------------------------------------------------------------------------
(* commit: what the five writers insert for a draft *)

\* Slip: the shares are rounded down and the remainder is dropped.
EvenShares(total, n) == [i \in 1..n |-> total \div n]

\* The remainder goes to the last installment.
Shares(total, n) ==
  [i \in 1..n |-> IF i = n THEN total \div n + (total % n) ELSE total \div n]

Materialised(l) ==
  [i \in 1..l.tenure |->
     [principal |-> Shares(l.principal, l.tenure)[i],
      interest |-> Shares(l.interest, l.tenure)[i],
      paid |-> i <= l.paid]]

CustomerRows(d, f) ==
  {[kind |-> "customer", draft |-> d, id |-> f.customers[i].id] : i \in DOMAIN f.customers}

GroupRows(d, f) ==
  {[kind |-> "group", draft |-> d, id |-> f.groups[i].id, leader |-> f.groups[i].leader] :
     i \in DOMAIN f.groups}

\* The leaders first; then each pair that was not there yet.
MemberRows(d, f) ==
  {[kind |-> "member", draft |-> d, group |-> m.group, customer |-> m.customer] :
     m \in {[group |-> f.groups[i].id, customer |-> f.groups[i].leader] : i \in DOMAIN f.groups}
             \union ToSet(f.members)}

LoanRows(d, f) ==
  {[kind |-> "loan", draft |-> d, id |-> l.id, customer |-> l.customer, group |-> l.group,
    owed |-> l.principal + l.interest, schedule |-> Materialised(l)] : l \in ToSet(f.loans)}

CollectionRows(d, f) ==
  {[kind |-> "collection", draft |-> d, id |-> c.id, loan |-> c.loan, amount |-> c.amount] :
     c \in ToSet(f.collections)}

RowsOf(domain, d, f) ==
  CASE domain = "customers" -> CustomerRows(d, f)
    [] domain = "groups" -> GroupRows(d, f)
    [] domain = "members" -> MemberRows(d, f)
    [] domain = "loans" -> LoanRows(d, f)
    [] domain = "collections" -> CollectionRows(d, f)

\* The unique columns a writer can run into: the new ids of the draft, and the
\* keys mig:disb:<loan> and mig:coll:<collection>.
Collides(domain, d, f) ==
  LET new == RowsOf(domain, d, f)
  IN  \/ new \cap rows # {}
      \/ domain = "loans" /\ Again(f.loans) # {}
      \/ /\ domain \in {"loans", "collections"}
         /\ \E r \in new, s \in rows : r.kind = s.kind /\ r.id = s.id

-----------------------------------------------------------------------------
(* commit: its steps *)

\* The draft, its creator, its errors and the committed state are looked at.
CommitChecks(a, d) ==
  /\ commit[a].pc = "idle"
  /\ d \in DOMAIN drafts
  /\ drafts[d].by = a
  /\ Clean(drafts[d].file)
  /\ setting = "available"
  /\ commit' = [commit EXCEPT ![a] = [NoCommit EXCEPT !.pc = "checked", !.draft = d,
                                                      !.file = drafts[d].file]]
  /\ UNCHANGED <<drafts, uploads, setting, settled, rows, settingLock>>

\* MIGRATION_STARTED is in the audit log; the transaction takes its snapshot.
BeginCommit(a) ==
  /\ commit[a].pc = "checked"
  /\ commit' = [commit EXCEPT ![a].pc = "begun", ![a].seen = settled]
  /\ UNCHANGED <<drafts, uploads, setting, settled, rows, settingLock>>

\* ROLLBACK, and the catch of commit(): MIGRATION_FAILED, and the draft is dropped.
FailCommit(a) ==
  /\ settingLock' = IF settingLock = a THEN NoDraft ELSE settingLock
  /\ drafts' = Without(commit[a].draft)
  /\ commit' = [commit EXCEPT ![a] = NoCommit]
  /\ UNCHANGED <<uploads, setting, settled, rows>>

\* The row of migration_state has not changed since the snapshot.
SnapshotHolds(a) == commit[a].seen = settled

\* The upsert of 'in-progress' waits for the row; then PostgreSQL refuses a
\* transaction whose snapshot is older than the row.
FlipToInProgress(a) ==
  /\ commit[a].pc = "begun"
  /\ settingLock = NoDraft
  /\ SnapshotHolds(a)
  /\ settingLock' = a
  /\ commit' = [commit EXCEPT ![a].pc = "customers"]
  /\ UNCHANGED <<drafts, uploads, setting, settled, rows>>

SerializationFailure(a) ==
  /\ commit[a].pc = "begun"
  /\ settingLock = NoDraft
  /\ ~ SnapshotHolds(a)
  /\ FailCommit(a)

After(domain) ==
  LET i == CHOOSE j \in DOMAIN Domains : Domains[j] = domain
  IN  IF i = Len(Domains) THEN "written" ELSE Domains[i + 1]

\* writeCustomers, writeGroups, writeGroupMembers, writeLoans, writeCollections.
WriteDomain(a) ==
  LET c == commit[a]
  IN  /\ c.pc \in ToSet(Domains)
      /\ ~ Collides(c.pc, c.draft, c.file)
      /\ commit' = [commit EXCEPT
                      ![a].pc = After(c.pc),
                      ![a].written = @ \union RowsOf(c.pc, c.draft, c.file)]
      /\ UNCHANGED <<drafts, uploads, setting, settled, rows, settingLock>>

UniqueViolation(a) ==
  LET c == commit[a]
  IN  /\ c.pc \in ToSet(Domains)
      /\ Collides(c.pc, c.draft, c.file)
      /\ FailCommit(a)

\* The transaction ends: its rows and the state 'completed' become visible.
CommitTx(a) ==
  /\ commit[a].pc = "written"
  /\ rows' = rows \union commit[a].written
  /\ setting' = "completed"
  /\ settled' = settled \union {commit[a].draft}
  /\ settingLock' = NoDraft
  /\ commit' = [commit EXCEPT ![a].pc = "committed"]
  /\ UNCHANGED <<drafts, uploads>>

DropDraft(a) ==
  /\ commit[a].pc = "committed"
  /\ drafts' = Without(commit[a].draft)
  /\ commit' = [commit EXCEPT ![a] = NoCommit]
  /\ UNCHANGED <<uploads, setting, settled, rows, settingLock>>

\* The ten minutes of the transaction are over, or its connection is lost.
TxLost(a) ==
  /\ commit[a].pc \notin {"idle", "checked", "committed"}
  /\ FailCommit(a)

\* The process dies: the drafts and the commits under way go with it, and the
\* database rolls back their transactions.
MigrationRestart ==
  /\ drafts' = [d \in {} |-> NoDraft]
  /\ settingLock' = NoDraft
  /\ commit' = [a \in Admins |-> NoCommit]
  /\ UNCHANGED <<uploads, setting, settled, rows>>

\* The steps of commit() that leave the settled migrations alone.
Prepare(a) ==
  \/ \E f \in Files : DryRun(a, f)
  \/ \E d \in DOMAIN drafts : CommitChecks(a, d)
  \/ BeginCommit(a)
  \/ FlipToInProgress(a)
  \/ SerializationFailure(a)
  \/ WriteDomain(a)
  \/ UniqueViolation(a)
  \/ DropDraft(a)
  \/ TxLost(a)

-----------------------------------------------------------------------------
(* Properties *)

MigrationTypeOK ==
  /\ \A d \in DOMAIN drafts : drafts[d].by \in Admins /\ drafts[d].file \in Files
  /\ DOMAIN drafts \subseteq 1..uploads
  /\ uploads \in 0..MaxDrafts
  /\ setting \in {"available", "completed"}
  /\ settled \subseteq 1..uploads
  /\ settingLock \in Admins \union {NoDraft}
  /\ \A a \in Admins :
       /\ commit[a].draft \in 1..uploads \union {NoDraft}
       /\ commit[a].pc \in {"idle", "checked", "begun", "written", "committed"}
                             \union ToSet(Domains)

OfDraft(d) == {r \in rows : r.draft = d}
FileOf(kind, d) == {r \in OfDraft(d) : r.kind = kind}

(* A migration is there as a whole or not at all, whatever fails or overlaps:
   there are rows only of settled drafts, the state is 'completed' exactly when
   one has settled, every row refers to rows of its own draft, no loan and no
   collection comes twice, and the installments of a loan add up to what it
   owes (MigrationService.commit and its writers). *)
MigrationWhole ==
  /\ setting = "completed" <=> settled # {}
  /\ {r.draft : r \in rows} \subseteq settled
  /\ \A d \in settled :
       LET customers == {r.id : r \in FileOf("customer", d)}
           groups == {r.id : r \in FileOf("group", d)}
       IN  /\ \A m \in FileOf("member", d) : m.group \in groups /\ m.customer \in customers
           /\ \A g \in FileOf("group", d) :
                \E m \in FileOf("member", d) : m.group = g.id /\ m.customer = g.leader
           /\ \A l \in FileOf("loan", d) :
                /\ l.customer \in customers
                /\ l.group \in groups \union {NoDraft}
                /\ Total(Len(l.schedule), [i \in DOMAIN l.schedule |->
                          l.schedule[i].principal + l.schedule[i].interest]) = l.owed
           /\ \A c \in FileOf("collection", d) : \E l \in FileOf("loan", d) : l.id = c.loan
  /\ \A kind \in {"loan", "collection"} :
       \A r, s \in rows : r.kind = kind /\ s.kind = kind /\ r.id = s.id => r = s
=============================================================================
