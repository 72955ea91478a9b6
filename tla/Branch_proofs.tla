---------------------------- MODULE Branch_proofs ----------------------------
(***************************************************************************)
(* The group and the migration of a branch, for any clerks, administrators *)
(* and files, and the documents of a customer, for any staff and deaths;   *)
(* then the page of a loan, the import and the settings of the web client. *)
(*                                                                         *)
(* Migration.  MigrationInv follows each commit() between its statements:  *)
(* what it has written is what its draft says of the domains it is past,   *)
(* and no two commits, nor a commit and what is settled, share a draft.    *)
(*                                                                         *)
(* Group.  What is posted is compared with what was asked by sums over the *)
(* payments, so GroupInv says what a request has worked out under the locks*)
(* it holds (CollectHolds, MemberHolds): nobody else can have changed it.  *)
(*                                                                         *)
(* Documents.  Two uploads of a type overlap when neither sees the document*)
(* of the other: while an upload replaces, each active document of its type*)
(* is either among those it takes back or noted as overlapping             *)
(* (ReplacesOrOverlaps), and this is what leaves one file of a type at its *)
(* commit.                                                                 *)
(*                                                                         *)
(* Pages.  DeskInv says what a dialog or a request on its way was offered  *)
(* for, and that this still is so whatever others did to the loan since;   *)
(* FormInv, that what is being saved was typed and is saved once; ImportInv,*)
(* that a draft and a commit hold what the parse made of their sheet, that *)
(* a draft was warned of the imports its look-up could see (Announced),    *)
(* and how the uploads, commits and the dialog keep apart while no answer  *)
(* was lost (Untroubled).                                                  *)
(***************************************************************************)
EXTENDS Branch, Pages, SequencesExt, Paise_proofs, FiniteSetTheorems, SequenceTheorems, TLAPS

(* The migration of the legacy books. *)

\* A file without errors.
LEMMA CleanFile ==
  ASSUME NEW f, Clean(f)
  PROVE  /\ Again(f.collections) = {}
         /\ \A i \in DOMAIN f.groups : f.groups[i].leader \in Ids(f.customers)
         /\ \A i \in DOMAIN f.members :
              f.members[i].group \in Ids(f.groups) /\ f.members[i].customer \in Ids(f.customers)
         /\ \A i \in DOMAIN f.loans :
              /\ f.loans[i].customer \in Ids(f.customers)
              /\ f.loans[i].group \in Ids(f.groups) \union {NoDraft}
              /\ ~ f.loans[i].principal < 0 /\ ~ f.loans[i].interest < 0 /\ ~ f.loans[i].tenure < 1
         /\ \A i \in DOMAIN f.collections : f.collections[i].loan \in Ids(f.loans)
<1>1. PICK e : e = Errors(f)
  OBVIOUS
<1>2. DOMAIN e = {"customers", "groups", "members", "loans", "collections"}
  BY <1>1 DEF Errors
<1>3. e.groups = {} /\ e.members = {} /\ e.loans = {} /\ e.collections = {}
  BY <1>1, <1>2 DEF Clean
<1>4. /\ {i \in DOMAIN f.groups : f.groups[i].leader \notin Ids(f.customers)} = {}
      /\ {i \in DOMAIN f.members :
            \/ f.members[i].group \notin Ids(f.groups)
            \/ f.members[i].customer \notin Ids(f.customers)} = {}
  BY <1>1, <1>3 DEF Errors
<1>5. /\ {i \in DOMAIN f.collections :
            f.collections[i].loan \notin Ids(f.loans) \/ f.collections[i].amount < 0} = {}
      /\ Again(f.collections) = {}
  BY <1>1, <1>3 DEF Errors
<1>6. {i \in DOMAIN f.loans :
         \/ f.loans[i].customer \notin Ids(f.customers)
         \/ f.loans[i].group # NoDraft /\ f.loans[i].group \notin Ids(f.groups)
         \/ f.loans[i].principal < 0 \/ f.loans[i].interest < 0
         \/ f.loans[i].tenure < 1 \/ f.loans[i].paid > f.loans[i].tenure} = {}
  BY <1>1, <1>3 DEF Errors
<1> QED
  BY <1>4, <1>5, <1>6

\* The files are five sheets of rows.
LEMMA FileSheets ==
  ASSUME NEW f \in Files
  PROVE  /\ Len(f.customers) \in Nat /\ DOMAIN f.customers = 1..Len(f.customers)
         /\ Len(f.groups) \in Nat /\ DOMAIN f.groups = 1..Len(f.groups)
         /\ Len(f.members) \in Nat /\ DOMAIN f.members = 1..Len(f.members)
         /\ Len(f.loans) \in Nat /\ DOMAIN f.loans = 1..Len(f.loans)
         /\ Len(f.collections) \in Nat /\ DOMAIN f.collections = 1..Len(f.collections)
         /\ \A i \in DOMAIN f.loans :
              /\ f.loans[i].principal \in Int /\ f.loans[i].interest \in Int
              /\ f.loans[i].tenure \in Int
BY MigrationAssumption DEF ToSet

\* Ids that do not come again tell rows apart.
LEMMA OnceEach ==
  ASSUME NEW seq, Len(seq) \in Nat, DOMAIN seq = 1..Len(seq), Again(seq) = {},
         NEW i \in DOMAIN seq, NEW j \in DOMAIN seq, seq[i].id = seq[j].id
  PROVE  i = j
<1>1. i \in Int /\ j \in Int /\ 1 <= i /\ 1 <= j
  OBVIOUS
<1>2. ~(j < i)
  <2>1. SUFFICES ASSUME j < i PROVE FALSE
    OBVIOUS
  <2>2. j \in 1..(i - 1)
    BY <1>1, <2>1
  <2>3. i \in Again(seq)
    BY <2>2 DEF Again
  <2> QED
    BY <2>3
<1>3. ~(i < j)
  <2>1. SUFFICES ASSUME i < j PROVE FALSE
    OBVIOUS
  <2>2. i \in 1..(j - 1)
    BY <1>1, <2>1
  <2>3. j \in Again(seq)
    BY <2>2 DEF Again
  <2> QED
    BY <2>3
<1> QED
  BY <1>1, <1>2, <1>3

\* The shares of an amount add up to it.
LEMMA SharesAddUp ==
  ASSUME NEW total \in Nat, NEW n \in Nat, n >= 1
  PROVE  Shares(total, n) \in [1..n -> Int] /\ Total(n, Shares(total, n)) = total
<1>1. PICK q \in Int, r \in Int : q = total \div n /\ r = total % n /\ total = n * q + r
  OBVIOUS
<1> DEFINE f == Shares(total, n)
           s == [k \in 0..n |-> IF k = n THEN total ELSE k * q]
<1>2. \A i \in 1..n : f[i] = IF i = n THEN q + r ELSE q
  BY <1>1 DEF Shares
<1>3. f \in [1..n -> Int]
  BY <1>1 DEF Shares
<1>4. s[0] = 0
  OBVIOUS
<1>5. ASSUME NEW k \in 1..n PROVE s[k] = s[k - 1] + f[k]
  <2>1. s[k - 1] = (k - 1) * q
    OBVIOUS
  <2>2. k * q = (k - 1) * q + q
    OBVIOUS
  <2>3. CASE k = n
    BY <1>1, <1>2, <2>1, <2>2, <2>3
  <2>4. CASE k # n
    BY <1>2, <2>1, <2>2, <2>4
  <2> QED
    BY <2>3, <2>4
<1>6. s[n] = total
  OBVIOUS
<1> HIDE DEF f, s
<1>7. Total(n, f) = s[n]
  BY <1>3, <1>4, <1>5, TotalIs
<1> QED
  BY <1>3, <1>6, <1>7 DEF f

\* The installments of a migrated loan add up to what it owes.
LEMMA SchedulesWhole ==
  ASSUME NEW l, l.principal \in Int, l.interest \in Int, l.tenure \in Int,
         ~ l.principal < 0, ~ l.interest < 0, ~ l.tenure < 1
  PROVE  Total(Len(Materialised(l)), [i \in DOMAIN Materialised(l) |->
               Materialised(l)[i].principal + Materialised(l)[i].interest])
           = l.principal + l.interest
<1>1. PICK n \in Nat, p \in Nat, x \in Nat :
        n = l.tenure /\ p = l.principal /\ x = l.interest /\ n >= 1
  OBVIOUS
<1>2. PICK m : m = Materialised(l)
  OBVIOUS
<1>3. /\ m = [i \in 1..n |-> [principal |-> Shares(p, n)[i], interest |-> Shares(x, n)[i],
                              paid |-> i <= l.paid]]
  BY <1>1, <1>2 DEF Materialised
<1>4. DOMAIN m = 1..n /\ Len(m) = n
  BY <1>3
<1>5. PICK a, b, c : a = Shares(p, n) /\ b = Shares(x, n) /\ c = [i \in 1..n |-> m[i].principal + m[i].interest]
  OBVIOUS
<1>6. \A i \in 1..n : c[i] = a[i] + b[i]
  BY <1>3, <1>5
<1>7. a \in [1..n -> Int] /\ b \in [1..n -> Int] /\ Total(n, a) = p /\ Total(n, b) = x
  BY <1>1, <1>5, SharesAddUp
<1>8. c \in [1..n -> Int]
  <2>1. \A i \in 1..n : a[i] + b[i] \in Int
    BY <1>7
  <2> QED
    BY <1>5, <1>6, <2>1
<1>9. Total(n, c) = p + x
  BY <1>6, <1>7, <1>8, TotalSum
<1> QED
  BY <1>1, <1>2, <1>4, <1>5, <1>9

-----------------------------------------------------------------------------
(* What a migration writes. *)

AllRows(d, f) ==
  CustomerRows(d, f) \union GroupRows(d, f) \union MemberRows(d, f)
    \union LoanRows(d, f) \union CollectionRows(d, f)

\* Every row came with all the rows of its file, which had no errors.
RowsWhole ==
  \A r \in rows : \E f \in Files :
    Clean(f) /\ r \in AllRows(r.draft, f) /\ AllRows(r.draft, f) \subseteq rows

\* Two rows of a kind have two ids.
Distinct(kind, set) ==
  \A r, s \in set : r.kind = kind /\ s.kind = kind /\ r.id = s.id => r = s

\* What each kind of row says of the file it was written from.
LEMMA RowsTell ==
  ASSUME NEW d, NEW f
  PROVE  /\ \A r \in CustomerRows(d, f) : r.kind = "customer" /\ r.draft = d /\ r.id \in Ids(f.customers)
         /\ \A r \in GroupRows(d, f) :
              /\ r.kind = "group" /\ r.draft = d /\ r.id \in Ids(f.groups)
              /\ \E i \in DOMAIN f.groups : r.id = f.groups[i].id /\ r.leader = f.groups[i].leader
         /\ \A r \in MemberRows(d, f) :
              /\ r.kind = "member" /\ r.draft = d
              /\ \/ \E i \in DOMAIN f.groups : r.group = f.groups[i].id /\ r.customer = f.groups[i].leader
                 \/ \E i \in DOMAIN f.members : r.group = f.members[i].group /\ r.customer = f.members[i].customer
         /\ \A r \in LoanRows(d, f) :
              /\ r.kind = "loan" /\ r.draft = d
              /\ \E i \in DOMAIN f.loans :
                   /\ r.id = f.loans[i].id /\ r.customer = f.loans[i].customer
                   /\ r.group = f.loans[i].group
                   /\ r.owed = f.loans[i].principal + f.loans[i].interest
                   /\ r.schedule = Materialised(f.loans[i])
         /\ \A r \in CollectionRows(d, f) :
              /\ r.kind = "collection" /\ r.draft = d
              /\ \E i \in DOMAIN f.collections :
                   r.id = f.collections[i].id /\ r.loan = f.collections[i].loan
<1>1. \A r \in CustomerRows(d, f) : r.kind = "customer" /\ r.draft = d /\ r.id \in Ids(f.customers)
  BY DEF CustomerRows, Ids
<1>2. \A r \in GroupRows(d, f) :
        /\ r.kind = "group" /\ r.draft = d /\ r.id \in Ids(f.groups)
        /\ \E i \in DOMAIN f.groups : r.id = f.groups[i].id /\ r.leader = f.groups[i].leader
  BY DEF GroupRows, Ids
<1>3. \A r \in MemberRows(d, f) :
        /\ r.kind = "member" /\ r.draft = d
        /\ \/ \E i \in DOMAIN f.groups : r.group = f.groups[i].id /\ r.customer = f.groups[i].leader
           \/ \E i \in DOMAIN f.members : r.group = f.members[i].group /\ r.customer = f.members[i].customer
  BY DEF MemberRows, ToSet
<1>4. \A r \in LoanRows(d, f) :
        /\ r.kind = "loan" /\ r.draft = d
        /\ \E i \in DOMAIN f.loans :
             /\ r.id = f.loans[i].id /\ r.customer = f.loans[i].customer
             /\ r.group = f.loans[i].group
             /\ r.owed = f.loans[i].principal + f.loans[i].interest
             /\ r.schedule = Materialised(f.loans[i])
  BY DEF LoanRows, ToSet
<1>5. \A r \in CollectionRows(d, f) :
        /\ r.kind = "collection" /\ r.draft = d
        /\ \E i \in DOMAIN f.collections :
             r.id = f.collections[i].id /\ r.loan = f.collections[i].loan
  BY DEF CollectionRows, ToSet
<1> QED
  BY <1>1, <1>2, <1>3, <1>4, <1>5

\* Every row that is asked for is written.
LEMMA RowsExist ==
  ASSUME NEW d, NEW f
  PROVE  /\ \A x \in Ids(f.customers) : \E r \in CustomerRows(d, f) : r.id = x
         /\ \A x \in Ids(f.groups) : \E r \in GroupRows(d, f) : r.id = x
         /\ \A i \in DOMAIN f.groups : \E r \in MemberRows(d, f) :
              r.group = f.groups[i].id /\ r.customer = f.groups[i].leader
         /\ \A x \in Ids(f.loans) : \E r \in LoanRows(d, f) : r.id = x
<1>1. ASSUME NEW x \in Ids(f.customers) PROVE \E r \in CustomerRows(d, f) : r.id = x
  <2>1. PICK i \in DOMAIN f.customers : x = f.customers[i].id
    BY DEF Ids
  <2>2. [kind |-> "customer", draft |-> d, id |-> f.customers[i].id] \in CustomerRows(d, f)
    BY DEF CustomerRows
  <2> QED
    BY <2>1, <2>2
<1>2. ASSUME NEW x \in Ids(f.groups) PROVE \E r \in GroupRows(d, f) : r.id = x
  <2>1. PICK i \in DOMAIN f.groups : x = f.groups[i].id
    BY DEF Ids
  <2>2. [kind |-> "group", draft |-> d, id |-> f.groups[i].id, leader |-> f.groups[i].leader]
          \in GroupRows(d, f)
    BY DEF GroupRows
  <2> QED
    BY <2>1, <2>2
<1>3. ASSUME NEW i \in DOMAIN f.groups
      PROVE  \E r \in MemberRows(d, f) : r.group = f.groups[i].id /\ r.customer = f.groups[i].leader
  <2>1. PICK m : m = [group |-> f.groups[i].id, customer |-> f.groups[i].leader]
    OBVIOUS
  <2>2. [kind |-> "member", draft |-> d, group |-> m.group, customer |-> m.customer] \in MemberRows(d, f)
    BY <2>1 DEF MemberRows
  <2> QED
    BY <2>1, <2>2
<1>4. ASSUME NEW i \in DOMAIN f.loans PROVE \E r \in LoanRows(d, f) : r.id = f.loans[i].id
  <2>1. PICK l : l = f.loans[i]
    OBVIOUS
  <2>2. l \in ToSet(f.loans)
    BY <2>1 DEF ToSet
  <2>3. [kind |-> "loan", draft |-> d, id |-> l.id, customer |-> l.customer, group |-> l.group,
         owed |-> l.principal + l.interest, schedule |-> Materialised(l)] \in LoanRows(d, f)
    BY <2>2 DEF LoanRows
  <2> QED
    BY <2>1, <2>3
<1>5. \A x \in Ids(f.loans) : \E r \in LoanRows(d, f) : r.id = x
  BY <1>4 DEF Ids
<1> QED
  BY <1>1, <1>2, <1>3, <1>5

\* Every row is of the draft it was written for.
LEMMA RowsOfDraft ==
  ASSUME NEW d, NEW f
  PROVE  \A r \in AllRows(d, f) : r.draft = d
BY RowsTell DEF AllRows

\* What RowsWhole says of a kind of rows.
LEMMA RowsByKind ==
  ASSUME NEW d, NEW f
  PROVE  \A r \in AllRows(d, f) :
           /\ r.kind = "group" => r \in GroupRows(d, f)
           /\ r.kind = "member" => r \in MemberRows(d, f)
           /\ r.kind = "loan" => r \in LoanRows(d, f)
           /\ r.kind = "collection" => r \in CollectionRows(d, f)
<1> SUFFICES ASSUME NEW r \in AllRows(d, f)
    PROVE  /\ r.kind = "group" => r \in GroupRows(d, f)
           /\ r.kind = "member" => r \in MemberRows(d, f)
           /\ r.kind = "loan" => r \in LoanRows(d, f)
           /\ r.kind = "collection" => r \in CollectionRows(d, f)
  OBVIOUS
<1>1. \/ r \in CustomerRows(d, f) \/ r \in GroupRows(d, f) \/ r \in MemberRows(d, f)
      \/ r \in LoanRows(d, f) \/ r \in CollectionRows(d, f)
  BY DEF AllRows
<1>2. /\ r \in CustomerRows(d, f) => r.kind = "customer"
      /\ r \in GroupRows(d, f) => r.kind = "group"
      /\ r \in MemberRows(d, f) => r.kind = "member"
      /\ r \in LoanRows(d, f) => r.kind = "loan"
      /\ r \in CollectionRows(d, f) => r.kind = "collection"
  BY RowsTell
<1> QED
  BY <1>1, <1>2

\* A draft whose rows are there has the rows that are asked for.
LEMMA DraftHasRows ==
  ASSUME NEW d, NEW f, \A s \in AllRows(d, f) : s \in OfDraft(d)
  PROVE  /\ \A x \in Ids(f.customers) : x \in {r.id : r \in FileOf("customer", d)}
         /\ \A x \in Ids(f.groups) : x \in {r.id : r \in FileOf("group", d)}
         /\ \A i \in DOMAIN f.groups : \E m \in FileOf("member", d) :
              m.group = f.groups[i].id /\ m.customer = f.groups[i].leader
         /\ \A x \in Ids(f.loans) : \E l \in FileOf("loan", d) : l.id = x
<1>1. /\ CustomerRows(d, f) \subseteq FileOf("customer", d)
      /\ GroupRows(d, f) \subseteq FileOf("group", d)
      /\ MemberRows(d, f) \subseteq FileOf("member", d)
      /\ LoanRows(d, f) \subseteq FileOf("loan", d)
  BY RowsTell DEF AllRows, FileOf
<1>2. /\ \A x \in Ids(f.customers) : \E r \in CustomerRows(d, f) : r.id = x
      /\ \A x \in Ids(f.groups) : \E r \in GroupRows(d, f) : r.id = x
      /\ \A i \in DOMAIN f.groups : \E r \in MemberRows(d, f) :
           r.group = f.groups[i].id /\ r.customer = f.groups[i].leader
      /\ \A x \in Ids(f.loans) : \E r \in LoanRows(d, f) : r.id = x
  BY RowsExist, ZenonT(60)
<1>3. ASSUME NEW x \in Ids(f.customers) PROVE x \in {r.id : r \in FileOf("customer", d)}
  <2>1. PICK s \in CustomerRows(d, f) : s.id = x
    BY <1>2
  <2> QED
    BY <1>1, <2>1
<1>4. ASSUME NEW x \in Ids(f.groups) PROVE x \in {r.id : r \in FileOf("group", d)}
  <2>1. PICK s \in GroupRows(d, f) : s.id = x
    BY <1>2
  <2> QED
    BY <1>1, <2>1
<1>5. ASSUME NEW i \in DOMAIN f.groups
      PROVE  \E m \in FileOf("member", d) : m.group = f.groups[i].id /\ m.customer = f.groups[i].leader
  <2>1. PICK m \in MemberRows(d, f) : m.group = f.groups[i].id /\ m.customer = f.groups[i].leader
    BY <1>2
  <2> QED
    BY <1>1, <2>1
<1>6. ASSUME NEW x \in Ids(f.loans) PROVE \E l \in FileOf("loan", d) : l.id = x
  <2>1. PICK l \in LoanRows(d, f) : l.id = x
    BY <1>2
  <2> QED
    BY <1>1, <2>1
<1> QED
  BY <1>3, <1>4, <1>5, <1>6

\* The whole of MigrationWhole from the setting, the rows and what is settled.
LEMMA MigrationIs ==
  ASSUME setting = "completed" <=> settled # {},
         {r.draft : r \in rows} \subseteq settled,
         RowsWhole, Distinct("loan", rows), Distinct("collection", rows)
  PROVE  MigrationWhole
<1>1. ASSUME NEW r \in rows
      PROVE  \E f \in Files : /\ Clean(f) /\ r \in AllRows(r.draft, f)
                              /\ AllRows(r.draft, f) \subseteq rows
                              /\ \A s \in AllRows(r.draft, f) : s \in OfDraft(r.draft)
  <2>1. PICK f \in Files : Clean(f) /\ r \in AllRows(r.draft, f) /\ AllRows(r.draft, f) \subseteq rows
    BY DEF RowsWhole
  <2>2. \A s \in AllRows(r.draft, f) : s.draft = r.draft
    BY RowsOfDraft
  <2> QED
    BY <2>1, <2>2 DEF OfDraft
<1>2. ASSUME NEW d \in settled
      PROVE  LET customers == {r.id : r \in FileOf("customer", d)}
                 groups == {r.id : r \in FileOf("group", d)}
             IN  /\ \A m \in FileOf("member", d) : m.group \in groups /\ m.customer \in customers
                 /\ \A g \in FileOf("group", d) :
                      \E m \in FileOf("member", d) : m.group = g.id /\ m.customer = g.leader
                 /\ \A l \in FileOf("loan", d) :
                      /\ l.customer \in customers
                      /\ l.group \in groups \union {NoDraft}
                      /\ Total(Len(l.schedule), [i \in DOMAIN l.schedule |->
                                l.schedule[i].principal + l.schedule[i].interest]) = l.owed
                 /\ \A c \in FileOf("collection", d) : \E l \in FileOf("loan", d) : l.id = c.loan
  <2> DEFINE customers == {r.id : r \in FileOf("customer", d)}
             groups == {r.id : r \in FileOf("group", d)}
  <2>1. ASSUME NEW r \in OfDraft(d), NEW f \in Files, Clean(f), r \in AllRows(d, f),
               \A s \in AllRows(d, f) : s \in OfDraft(d)
        PROVE  /\ Ids(f.customers) \subseteq customers /\ Ids(f.groups) \subseteq groups
               /\ \A i \in DOMAIN f.groups : \E m \in FileOf("member", d) :
                    m.group = f.groups[i].id /\ m.customer = f.groups[i].leader
               /\ \A x \in Ids(f.loans) : \E l \in FileOf("loan", d) : l.id = x
    BY <2>1, DraftHasRows
  <2>2. ASSUME NEW r \in OfDraft(d)
        PROVE  \E f \in Files : Clean(f) /\ r \in AllRows(d, f) /\ \A s \in AllRows(d, f) : s \in OfDraft(d)
    BY <1>1 DEF OfDraft
  <2>3. ASSUME NEW m \in FileOf("member", d) PROVE m.group \in groups /\ m.customer \in customers
    <3>1. m \in OfDraft(d) /\ m.kind = "member"
      BY DEF FileOf
    <3>2. PICK f \in Files : Clean(f) /\ m \in AllRows(d, f) /\ \A s \in AllRows(d, f) : s \in OfDraft(d)
      BY <2>2, <3>1
    <3>3. m \in MemberRows(d, f)
      BY <3>1, <3>2, RowsByKind
    <3>4. m.group \in Ids(f.groups) /\ m.customer \in Ids(f.customers)
      BY <3>2, <3>3, RowsTell, CleanFile DEF Ids
    <3> QED
      BY <2>1, <3>1, <3>2, <3>4
  <2>4. ASSUME NEW g \in FileOf("group", d)
        PROVE  \E m \in FileOf("member", d) : m.group = g.id /\ m.customer = g.leader
    <3>1. g \in OfDraft(d) /\ g.kind = "group"
      BY DEF FileOf
    <3>2. PICK f \in Files : Clean(f) /\ g \in AllRows(d, f) /\ \A s \in AllRows(d, f) : s \in OfDraft(d)
      BY <2>2, <3>1
    <3>3. g \in GroupRows(d, f)
      BY <3>1, <3>2, RowsByKind
    <3>4. PICK i \in DOMAIN f.groups : g.id = f.groups[i].id /\ g.leader = f.groups[i].leader
      BY <3>3, RowsTell
    <3>5. PICK m \in FileOf("member", d) : m.group = f.groups[i].id /\ m.customer = f.groups[i].leader
      BY <2>1, <3>1, <3>2
    <3> QED
      BY <3>4, <3>5
  <2>5. ASSUME NEW l \in FileOf("loan", d)
        PROVE  /\ l.customer \in customers /\ l.group \in groups \union {NoDraft}
               /\ Total(Len(l.schedule), [i \in DOMAIN l.schedule |->
                          l.schedule[i].principal + l.schedule[i].interest]) = l.owed
    <3>1. l \in OfDraft(d) /\ l.kind = "loan"
      BY DEF FileOf
    <3>2. PICK f \in Files : Clean(f) /\ l \in AllRows(d, f) /\ \A s \in AllRows(d, f) : s \in OfDraft(d)
      BY <2>2, <3>1
    <3>3. l \in LoanRows(d, f)
      BY <3>1, <3>2, RowsByKind
    <3>4. PICK i \in DOMAIN f.loans :
            /\ l.customer = f.loans[i].customer /\ l.group = f.loans[i].group
            /\ l.owed = f.loans[i].principal + f.loans[i].interest
            /\ l.schedule = Materialised(f.loans[i])
      BY <3>3, RowsTell
    <3>5. PICK x : x = f.loans[i]
      OBVIOUS
    <3>6. /\ x.customer \in Ids(f.customers) /\ x.group \in Ids(f.groups) \union {NoDraft}
          /\ ~ x.principal < 0 /\ ~ x.interest < 0 /\ ~ x.tenure < 1
          /\ x.principal \in Int /\ x.interest \in Int /\ x.tenure \in Int
      BY <3>2, <3>5, CleanFile, FileSheets
    <3>7. Ids(f.customers) \subseteq customers /\ Ids(f.groups) \subseteq groups
      BY <2>1, <3>1, <3>2
    <3>8. Total(Len(l.schedule), [j \in DOMAIN l.schedule |->
                  l.schedule[j].principal + l.schedule[j].interest]) = l.owed
      BY <3>4, <3>5, <3>6, SchedulesWhole
    <3> QED
      BY <3>4, <3>5, <3>6, <3>7, <3>8
  <2>6. ASSUME NEW c \in FileOf("collection", d)
        PROVE  \E l \in FileOf("loan", d) : l.id = c.loan
    <3>1. c \in OfDraft(d) /\ c.kind = "collection"
      BY DEF FileOf
    <3>2. PICK f \in Files : Clean(f) /\ c \in AllRows(d, f) /\ \A s \in AllRows(d, f) : s \in OfDraft(d)
      BY <2>2, <3>1
    <3>3. c \in CollectionRows(d, f)
      BY <3>1, <3>2, RowsByKind
    <3>4. c.loan \in Ids(f.loans)
      BY <3>2, <3>3, RowsTell, CleanFile
    <3> QED
      BY <2>1, <3>1, <3>2, <3>4
  <2> HIDE DEF customers, groups
  <2>7. /\ \A m \in FileOf("member", d) : m.group \in groups /\ m.customer \in customers
        /\ \A g \in FileOf("group", d) :
             \E m \in FileOf("member", d) : m.group = g.id /\ m.customer = g.leader
        /\ \A l \in FileOf("loan", d) :
             /\ l.customer \in customers
             /\ l.group \in groups \union {NoDraft}
             /\ Total(Len(l.schedule), [i \in DOMAIN l.schedule |->
                       l.schedule[i].principal + l.schedule[i].interest]) = l.owed
        /\ \A c \in FileOf("collection", d) : \E l \in FileOf("loan", d) : l.id = c.loan
    BY <2>3, <2>4, <2>5, <2>6
  <2> QED
    BY <2>7 DEF customers, groups
<1>3. \A kind \in {"loan", "collection"} :
        \A r, s \in rows : r.kind = kind /\ s.kind = kind /\ r.id = s.id => r = s
  BY DEF Distinct
<1> QED
  BY <1>2, <1>3 DEF MigrationWhole
-----------------------------------------------------------------------------
(* The commits under way. *)

Written == {"customers", "groups", "members", "loans", "collections", "written"}
Busy == {"checked", "begun"} \union Written

\* The domains a commit at this place has written.
Done(pc) ==
  {x \in {"customers", "groups", "members", "loans", "collections"} :
     \/ pc = "groups" /\ x = "customers"
     \/ pc = "members" /\ x \in {"customers", "groups"}
     \/ pc = "loans" /\ x \in {"customers", "groups", "members"}
     \/ pc = "collections" /\ x \in {"customers", "groups", "members", "loans"}
     \/ pc = "written"}

\* No row of a domain has the key of a row that is there.
NoClash(domain, d, f, set) ==
  \A r \in RowsOf(domain, d, f), s \in set : ~ (r.kind = s.kind /\ r.id = s.id)

\* What a commit holds: the file it checked, and the rows it has written.
CommitHolds(c, set) ==
  /\ c.pc \in Busy =>
       /\ c.file \in Files /\ Clean(c.file) /\ c.draft # NoDraft
       /\ c.written = UNION {RowsOf(x, c.draft, c.file) : x \in Done(c.pc)}
  /\ "loans" \in Done(c.pc) => Again(c.file.loans) = {}
  /\ \A x \in {"loans", "collections"} \cap Done(c.pc) : NoClash(x, c.draft, c.file, set)

IsCommit(c) ==
  c = [pc |-> c.pc, draft |-> c.draft, file |-> c.file, seen |-> c.seen, written |-> c.written]

Places == {"idle", "checked", "begun", "written", "committed",
           "customers", "groups", "members", "loans", "collections"}

CommitsTyped ==
  /\ commit = [a \in Admins |-> commit[a]]
  /\ \A a \in Admins : /\ IsCommit(commit[a]) /\ commit[a].pc \in Places
                        /\ commit[a].draft \in 1..uploads \union {NoDraft}

DraftsTyped ==
  /\ \A d \in DOMAIN drafts : drafts[d].by \in Admins /\ drafts[d].file \in Files
  /\ DOMAIN drafts \subseteq 1..uploads
  /\ uploads \in 0..MaxDrafts

\* One commit at most has begun to write: it holds the row of the setting.
CommitsApart ==
  /\ settingLock \in Admins \union {NoDraft}
  /\ \A a \in Admins : commit[a].pc \in Written => settingLock = a
  /\ \A a \in Admins : CommitHolds(commit[a], rows)

RowsSettled ==
  /\ setting \in {"available", "completed"} /\ settled \subseteq 1..uploads
  /\ setting = "completed" <=> settled # {}
  /\ {r.draft : r \in rows} \subseteq settled
  /\ RowsWhole /\ Distinct("loan", rows) /\ Distinct("collection", rows)

MigrationInv == DraftsTyped /\ CommitsTyped /\ CommitsApart /\ RowsSettled

\* The five domains, in the order in which commit() writes them.
LEMMA DomainsAre ==
  /\ ToSet(Domains) = {"customers", "groups", "members", "loans", "collections"}
  /\ After("customers") = "groups" /\ After("groups") = "members"
  /\ After("members") = "loans" /\ After("loans") = "collections"
  /\ After("collections") = "written"
<1>1. /\ Domains = <<"customers", "groups", "members", "loans", "collections">>
      /\ DOMAIN Domains = 1..5 /\ Len(Domains) = 5
      /\ Domains[1] = "customers" /\ Domains[2] = "groups" /\ Domains[3] = "members"
      /\ Domains[4] = "loans" /\ Domains[5] = "collections"
  BY DEF Domains
<1>2. 1..5 = {1, 2, 3, 4, 5}
  OBVIOUS
<1>3. ToSet(Domains) = {"customers", "groups", "members", "loans", "collections"}
  BY <1>1, <1>2 DEF ToSet
<1>4. /\ (CHOOSE j \in DOMAIN Domains : Domains[j] = "customers") = 1
      /\ (CHOOSE j \in DOMAIN Domains : Domains[j] = "groups") = 2
      /\ (CHOOSE j \in DOMAIN Domains : Domains[j] = "members") = 3
      /\ (CHOOSE j \in DOMAIN Domains : Domains[j] = "loans") = 4
      /\ (CHOOSE j \in DOMAIN Domains : Domains[j] = "collections") = 5
  BY <1>1, <1>2
<1>5. /\ After("customers") = "groups" /\ After("groups") = "members"
      /\ After("members") = "loans" /\ After("loans") = "collections"
      /\ After("collections") = "written"
  BY <1>1, <1>4 DEF After
<1> QED
  BY <1>3, <1>5

\* Writing a domain adds it to what is done.
LEMMA DoneAfter ==
  ASSUME NEW x \in {"customers", "groups", "members", "loans", "collections"}
  PROVE  /\ After(x) \in Written /\ Done(After(x)) = Done(x) \union {x} /\ x \notin Done(x)
<1>1. CASE x = "customers"
  BY <1>1, DomainsAre DEF Done, Written
<1>2. CASE x = "groups"
  BY <1>2, DomainsAre DEF Done, Written
<1>3. CASE x = "members"
  BY <1>3, DomainsAre DEF Done, Written
<1>4. CASE x = "loans"
  BY <1>4, DomainsAre DEF Done, Written
<1>5. CASE x = "collections"
  BY <1>5, DomainsAre DEF Done, Written
<1> QED
  BY <1>1, <1>2, <1>3, <1>4, <1>5

\* Before the first domain nothing is written.
LEMMA NothingDone ==
  /\ Done("idle") = {} /\ Done("checked") = {} /\ Done("begun") = {}
  /\ Done("customers") = {} /\ Done("committed") = {}
BY DEF Done

\* After the last domain every row is written.
LEMMA AllDone ==
  ASSUME NEW d, NEW f
  PROVE  UNION {RowsOf(x, d, f) : x \in Done("written")} = AllRows(d, f)
<1>1. Done("written") = {"customers", "groups", "members", "loans", "collections"}
  BY DEF Done
<1>2. /\ RowsOf("customers", d, f) = CustomerRows(d, f) /\ RowsOf("groups", d, f) = GroupRows(d, f)
      /\ RowsOf("members", d, f) = MemberRows(d, f) /\ RowsOf("loans", d, f) = LoanRows(d, f)
      /\ RowsOf("collections", d, f) = CollectionRows(d, f)
  BY DEF RowsOf
<1> QED
  BY <1>1, <1>2 DEF AllRows

\* The books are empty when the office opens.
LEMMA MigrationStarts == MigrationInit => MigrationInv
<1> SUFFICES ASSUME MigrationInit PROVE MigrationInv
  OBVIOUS
<1> USE DEF MigrationInit
<1>1. DraftsTyped
  BY MigrationAssumption DEF DraftsTyped
<1>2. \A a \in Admins : commit[a] = NoCommit /\ NoCommit.pc = "idle" /\ NoCommit.draft = NoDraft
  BY DEF NoCommit
<1>3. CommitsTyped
  BY <1>2 DEF CommitsTyped, IsCommit, Places, NoCommit
<1>4. CommitsApart
  BY <1>2, NothingDone DEF CommitsApart, CommitHolds, Busy, Written
<1>5. RowsSettled
  BY DEF RowsSettled, RowsWhole, Distinct
<1> QED
  BY <1>1, <1>3, <1>4, <1>5 DEF MigrationInv

\* One commit moves on, and no row is written for good.
LEMMA CommitMoves ==
  ASSUME MigrationInv, NEW a \in Admins, NEW c,
         IsCommit(c), c.pc \in Places, c.draft \in 1..uploads \union {NoDraft},
         CommitHolds(c, rows), c.pc \in Written => settingLock' = a,
         commit' = [commit EXCEPT ![a] = c],
         settingLock' \in Admins \union {NoDraft},
         \A b \in Admins \ {a} : commit[b].pc \in Written => settingLock' = b,
         DraftsTyped', uploads' = uploads, rows' = rows, setting' = setting, settled' = settled
  PROVE  MigrationInv'
<1>1. /\ \A b \in Admins \ {a} : commit'[b] = commit[b]
      /\ commit'[a] = c
      /\ commit' = [b \in Admins |-> commit'[b]]
  BY DEF MigrationInv, CommitsTyped
<1>2. CommitsTyped'
  <2>1. \A b \in Admins : /\ IsCommit(commit'[b]) /\ commit'[b].pc \in Places
                          /\ commit'[b].draft \in 1..uploads \union {NoDraft}
    BY <1>1 DEF MigrationInv, CommitsTyped
  <2> QED
    BY <1>1, <2>1 DEF CommitsTyped
<1>3. CommitsApart'
  <2>1. \A b \in Admins : CommitHolds(commit'[b], rows)
    BY <1>1 DEF MigrationInv, CommitsApart
  <2>2. \A b \in Admins : commit'[b].pc \in Written => settingLock' = b
    BY <1>1
  <2> QED
    BY <2>1, <2>2 DEF CommitsApart, CommitHolds
<1>4. RowsSettled'
  BY DEF MigrationInv, RowsSettled, RowsWhole, Distinct
<1> QED
  BY <1>2, <1>3, <1>4 DEF MigrationInv

\* Fewer drafts, each as it was.
LEMMA DraftGone ==
  ASSUME DraftsTyped, NEW d, drafts' = Without(d), uploads' = uploads
  PROVE  DraftsTyped'
BY DEF DraftsTyped, Without

\* A commit that has ended holds nothing.
LEMMA NoCommitHolds ==
  /\ IsCommit(NoCommit) /\ NoCommit.pc \in Places /\ NoCommit.pc \notin Written
  /\ NoCommit.draft = NoDraft /\ CommitHolds(NoCommit, rows)
<1>1. NoCommit.pc = "idle" /\ NoCommit.draft = NoDraft
  BY DEF NoCommit
<1>2. IsCommit(NoCommit)
  BY DEF IsCommit, NoCommit
<1>3. CommitHolds(NoCommit, rows)
  BY <1>1, NothingDone DEF CommitHolds, Busy, Written
<1> QED
  BY <1>1, <1>2, <1>3 DEF Places, Written

\* A commit that fails leaves no row.
LEMMA CommitFails ==
  ASSUME MigrationInv, NEW a \in Admins, FailCommit(a)
  PROVE  MigrationInv'
<1>1. DraftsTyped'
  BY DraftGone DEF FailCommit, MigrationInv
<1>2. settingLock' \in Admins \union {NoDraft}
  BY DEF FailCommit, MigrationInv, CommitsApart
<1>3. \A b \in Admins \ {a} : commit[b].pc \in Written => settingLock' = b
  BY DEF FailCommit, MigrationInv, CommitsApart
<1>4. commit' = [commit EXCEPT ![a] = NoCommit]
  BY DEF FailCommit
<1> QED
  BY <1>1, <1>2, <1>3, <1>4, NoCommitHolds, CommitMoves DEF FailCommit

\* A dry run stores its draft.
LEMMA DraftStored ==
  ASSUME MigrationInv, NEW a \in Admins, NEW f \in Files, DryRun(a, f)
  PROVE  MigrationInv'
<1>1. uploads \in Nat /\ uploads' = uploads + 1 /\ uploads' \in 0..MaxDrafts
  BY MigrationAssumption DEF DryRun, MigrationInv, DraftsTyped
<1>2. DraftsTyped'
  BY <1>1 DEF DryRun, MigrationInv, DraftsTyped
<1>3. CommitsTyped'
  BY <1>1 DEF DryRun, MigrationInv, CommitsTyped
<1>4. CommitsApart'
  BY DEF DryRun, MigrationInv, CommitsApart
<1>5. RowsSettled'
  BY <1>1 DEF DryRun, MigrationInv, RowsSettled, RowsWhole, Distinct
<1> QED
  BY <1>2, <1>3, <1>4, <1>5 DEF MigrationInv

\* A commit() takes a draft that is there and has no errors.
LEMMA DraftChecked ==
  ASSUME MigrationInv, NEW a \in Admins, NEW d \in DOMAIN drafts, CommitChecks(a, d)
  PROVE  MigrationInv'
<1>1. PICK c : c = [NoCommit EXCEPT !.pc = "checked", !.draft = d, !.file = drafts[d].file]
  OBVIOUS
<1>2. /\ c = [pc |-> "checked", draft |-> d, file |-> drafts[d].file, seen |-> {}, written |-> {}]
      /\ c.pc = "checked" /\ c.draft = d /\ c.file = drafts[d].file /\ c.written = {}
  BY <1>1 DEF NoCommit
<1>3. IsCommit(c)
  BY <1>2 DEF IsCommit
<1>4. d \in 1..uploads /\ drafts[d].file \in Files /\ d # NoDraft
  BY MigrationAssumption DEF MigrationInv, DraftsTyped
<1>5. CommitHolds(c, rows)
  BY <1>2, <1>4, NothingDone DEF CommitHolds, CommitChecks
<1>6. c.pc \in Places /\ c.pc \notin Written
  BY <1>2 DEF Places, Written
<1>7. DraftsTyped'
  BY DEF CommitChecks, MigrationInv, DraftsTyped
<1>8. /\ settingLock' \in Admins \union {NoDraft}
      /\ \A b \in Admins \ {a} : commit[b].pc \in Written => settingLock' = b
  BY DEF CommitChecks, MigrationInv, CommitsApart
<1> QED
  BY <1>1, <1>2, <1>3, <1>4, <1>5, <1>6, <1>7, <1>8, CommitMoves DEF CommitChecks

\* The transaction of a commit() begins.
LEMMA CommitBegins ==
  ASSUME MigrationInv, NEW a \in Admins, BeginCommit(a)
  PROVE  MigrationInv'
<1>1. PICK o : o = commit[a]
  OBVIOUS
<1>2. PICK c : c = [o EXCEPT !.pc = "begun", !.seen = settled]
  OBVIOUS
<1>3. /\ o = [pc |-> o.pc, draft |-> o.draft, file |-> o.file, seen |-> o.seen, written |-> o.written]
      /\ o.pc = "checked" /\ o.draft \in 1..uploads \union {NoDraft}
  BY <1>1 DEF BeginCommit, MigrationInv, CommitsTyped, IsCommit
<1>4. /\ c = [pc |-> "begun", draft |-> o.draft, file |-> o.file, seen |-> settled, written |-> o.written]
      /\ c.pc = "begun" /\ c.draft = o.draft /\ c.file = o.file /\ c.written = o.written
  BY <1>2, <1>3
<1>5. IsCommit(c)
  BY <1>4 DEF IsCommit
<1>6. CommitHolds(o, rows)
  BY <1>1 DEF MigrationInv, CommitsApart
<1>7. CommitHolds(c, rows)
  BY <1>3, <1>4, <1>6, NothingDone DEF CommitHolds, Busy
<1>8. c.pc \in Places /\ c.pc \notin Written
  BY <1>4 DEF Places, Written
<1>9. DraftsTyped'
  BY DEF BeginCommit, MigrationInv, DraftsTyped
<1>10. /\ settingLock' \in Admins \union {NoDraft}
       /\ \A b \in Admins \ {a} : commit[b].pc \in Written => settingLock' = b
  BY DEF BeginCommit, MigrationInv, CommitsApart
<1>11. commit' = [commit EXCEPT ![a] = c]
  BY <1>1, <1>2 DEF BeginCommit
<1> QED
  BY <1>3, <1>4, <1>5, <1>7, <1>8, <1>9, <1>10, <1>11, CommitMoves DEF BeginCommit

\* The setting is taken by one commit() at a time.
LEMMA CommitFlips ==
  ASSUME MigrationInv, NEW a \in Admins, FlipToInProgress(a)
  PROVE  MigrationInv'
<1>1. PICK o : o = commit[a]
  OBVIOUS
<1>2. PICK c : c = [o EXCEPT !.pc = "customers"]
  OBVIOUS
<1>3. /\ o = [pc |-> o.pc, draft |-> o.draft, file |-> o.file, seen |-> o.seen, written |-> o.written]
      /\ o.pc = "begun" /\ o.draft \in 1..uploads \union {NoDraft}
  BY <1>1 DEF FlipToInProgress, MigrationInv, CommitsTyped, IsCommit
<1>4. /\ c = [pc |-> "customers", draft |-> o.draft, file |-> o.file, seen |-> o.seen, written |-> o.written]
      /\ c.pc = "customers" /\ c.draft = o.draft /\ c.file = o.file /\ c.written = o.written
  BY <1>2, <1>3
<1>5. IsCommit(c)
  BY <1>4 DEF IsCommit
<1>6. CommitHolds(o, rows)
  BY <1>1 DEF MigrationInv, CommitsApart
<1>7. CommitHolds(c, rows)
  BY <1>3, <1>4, <1>6, NothingDone DEF CommitHolds, Busy
<1>8. c.pc \in Places
  BY <1>4 DEF Places
<1>9. DraftsTyped'
  BY DEF FlipToInProgress, MigrationInv, DraftsTyped
<1>10. /\ settingLock' = a /\ settingLock = NoDraft
       /\ \A b \in Admins : commit[b].pc \notin Written
  BY MigrationAssumption DEF FlipToInProgress, MigrationInv, CommitsApart
<1>11. commit' = [commit EXCEPT ![a] = c]
  BY <1>1, <1>2 DEF FlipToInProgress
<1> QED
  BY <1>3, <1>4, <1>5, <1>7, <1>8, <1>9, <1>10, <1>11, CommitMoves DEF FlipToInProgress

\* The transaction writes the next domain.
LEMMA DomainWritten ==
  ASSUME MigrationInv, NEW a \in Admins, WriteDomain(a)
  PROVE  MigrationInv'
<1>1. PICK o : o = commit[a]
  OBVIOUS
<1>2. PICK x : x = o.pc
  OBVIOUS
<1>3. /\ o = [pc |-> o.pc, draft |-> o.draft, file |-> o.file, seen |-> o.seen, written |-> o.written]
      /\ o.draft \in 1..uploads \union {NoDraft}
  BY <1>1 DEF MigrationInv, CommitsTyped, IsCommit
<1>4. /\ x \in {"customers", "groups", "members", "loans", "collections"}
      /\ ~ Collides(x, o.draft, o.file)
      /\ commit' = [commit EXCEPT ![a].pc = After(x), ![a].written = @ \union RowsOf(x, o.draft, o.file)]
  BY <1>1, <1>2, DomainsAre DEF WriteDomain
<1>5. PICK c : c = [o EXCEPT !.pc = After(x), !.written = @ \union RowsOf(x, o.draft, o.file)]
  OBVIOUS
<1>6. /\ c = [pc |-> After(x), draft |-> o.draft, file |-> o.file, seen |-> o.seen,
              written |-> o.written \union RowsOf(x, o.draft, o.file)]
      /\ c.pc = After(x) /\ c.draft = o.draft /\ c.file = o.file
      /\ c.written = o.written \union RowsOf(x, o.draft, o.file)
  BY <1>3, <1>5
<1>7. IsCommit(c)
  BY <1>6 DEF IsCommit
<1>8. CommitHolds(o, rows)
  BY <1>1 DEF MigrationInv, CommitsApart
<1>9. /\ After(x) \in Written /\ Done(After(x)) = Done(x) \union {x}
      /\ x \in Written /\ Written \subseteq Busy /\ Written \subseteq Places
  BY <1>4, DoneAfter DEF Written, Busy, Places
<1>10. PICK d, f, w : d = o.draft /\ f = o.file /\ w = o.written
  OBVIOUS
<1>11. /\ f \in Files /\ Clean(f) /\ d # NoDraft
       /\ w = UNION {RowsOf(y, d, f) : y \in Done(x)}
       /\ "loans" \in Done(x) => Again(f.loans) = {}
       /\ \A y \in {"loans", "collections"} \cap Done(x) : NoClash(y, d, f, rows)
  BY <1>2, <1>8, <1>9, <1>10 DEF CommitHolds
<1>12. w \union RowsOf(x, d, f) = UNION {RowsOf(y, d, f) : y \in Done(After(x))}
  <2>1. PICK D, E : D = Done(x) /\ E = Done(After(x)) /\ E = D \union {x}
    BY <1>9
  <2>2. UNION {RowsOf(y, d, f) : y \in D \union {x}}
          = (UNION {RowsOf(y, d, f) : y \in D}) \union RowsOf(x, d, f)
    OBVIOUS
  <2> QED
    BY <1>11, <2>1, <2>2
<1>13. x = "loans" => Again(f.loans) = {}
  BY <1>4, <1>10 DEF Collides
<1>14. x \in {"loans", "collections"} => NoClash(x, d, f, rows)
  BY <1>4, <1>10 DEF Collides, NoClash
<1>15. /\ c.file = f /\ c.draft = d /\ c.pc = After(x)
       /\ c.written = UNION {RowsOf(y, d, f) : y \in Done(After(x))}
  BY <1>6, <1>10, <1>12
<1>16. CommitHolds(c, rows)
  BY <1>9, <1>11, <1>13, <1>14, <1>15 DEF CommitHolds
<1>17. DraftsTyped'
  BY DEF WriteDomain, MigrationInv, DraftsTyped
<1>18. /\ settingLock' = settingLock /\ settingLock \in Admins \union {NoDraft} /\ settingLock = a
       /\ \A b \in Admins : commit[b].pc \in Written => settingLock = b
  BY <1>1, <1>2, <1>9 DEF WriteDomain, MigrationInv, CommitsApart
<1>19. commit' = [commit EXCEPT ![a] = c]
  BY <1>1, <1>4, <1>5
<1>20. c.pc \in Places /\ c.draft \in 1..uploads \union {NoDraft}
  BY <1>3, <1>6, <1>9
<1> QED
  BY <1>7, <1>16, <1>17, <1>18, <1>19, <1>20, CommitMoves DEF WriteDomain

\* commit() drops its draft at its end.
LEMMA DraftDropped ==
  ASSUME MigrationInv, NEW a \in Admins, DropDraft(a)
  PROVE  MigrationInv'
<1>1. DraftsTyped'
  BY DraftGone DEF DropDraft, MigrationInv
<1>2. /\ settingLock' \in Admins \union {NoDraft}
      /\ \A b \in Admins \ {a} : commit[b].pc \in Written => settingLock' = b
  BY DEF DropDraft, MigrationInv, CommitsApart
<1>3. commit' = [commit EXCEPT ![a] = NoCommit]
  BY DEF DropDraft
<1> QED
  BY <1>1, <1>2, <1>3, NoCommitHolds, CommitMoves DEF DropDraft

\* Whatever an administrator does before the transaction commits.
LEMMA Prepared ==
  ASSUME MigrationInv, NEW a \in Admins, Prepare(a)
  PROVE  MigrationInv'
<1>1. CASE \E f \in Files : DryRun(a, f)
  BY <1>1, DraftStored
<1>2. CASE \E d \in DOMAIN drafts : CommitChecks(a, d)
  BY <1>2, DraftChecked
<1>3. CASE BeginCommit(a)
  BY <1>3, CommitBegins
<1>4. CASE FlipToInProgress(a)
  BY <1>4, CommitFlips
<1>5. CASE SerializationFailure(a)
  BY <1>5, CommitFails DEF SerializationFailure
<1>6. CASE WriteDomain(a)
  BY <1>6, DomainWritten
<1>7. CASE UniqueViolation(a)
  BY <1>7, CommitFails DEF UniqueViolation
<1>8. CASE DropDraft(a)
  BY <1>8, DraftDropped
<1>9. CASE TxLost(a)
  BY <1>9, CommitFails DEF TxLost
<1> QED
  BY <1>1, <1>2, <1>3, <1>4, <1>5, <1>6, <1>7, <1>8, <1>9 DEF Prepare

\* The transaction of a commit ends, and its rows are there.
LEMMA CommitDone ==
  ASSUME MigrationInv, NEW a \in Admins, CommitTx(a)
  PROVE  MigrationInv'
<1>1. PICK o : o = commit[a]
  OBVIOUS
<1>2. PICK c : c = [o EXCEPT !.pc = "committed"]
  OBVIOUS
<1>3. PICK d, f, w : d = o.draft /\ f = o.file /\ w = o.written
  OBVIOUS
<1>4. /\ o = [pc |-> o.pc, draft |-> d, file |-> f, seen |-> o.seen, written |-> w]
      /\ o.pc = "written" /\ d \in 1..uploads \union {NoDraft}
  BY <1>1, <1>3 DEF CommitTx, MigrationInv, CommitsTyped, IsCommit
<1>5. /\ c = [pc |-> "committed", draft |-> d, file |-> f, seen |-> o.seen, written |-> w]
      /\ c.pc = "committed" /\ c.draft = d
  BY <1>2, <1>4
<1>6. CommitHolds(o, rows)
  BY <1>1 DEF MigrationInv, CommitsApart
<1>7. /\ f \in Files /\ Clean(f) /\ d # NoDraft /\ w = AllRows(d, f)
      /\ Again(f.loans) = {} /\ NoClash("loans", d, f, rows) /\ NoClash("collections", d, f, rows)
  <2>1. "written" \in Busy /\ "loans" \in Done("written") /\ "collections" \in Done("written")
    BY DEF Busy, Written, Done
  <2> QED
    BY <1>3, <1>4, <1>6, <2>1, AllDone DEF CommitHolds
<1>8. \A r \in w : r.draft = d
  BY <1>7, RowsOfDraft
<1>9. /\ rows' = rows \union w /\ settled' = settled \union {d} /\ setting' = "completed"
      /\ settingLock' = NoDraft /\ uploads' = uploads /\ drafts' = drafts
      /\ commit' = [commit EXCEPT ![a] = c]
  BY <1>1, <1>2, <1>3 DEF CommitTx
<1>10. DraftsTyped'
  BY <1>9 DEF MigrationInv, DraftsTyped
<1>11. /\ \A b \in Admins \ {a} : commit'[b] = commit[b]
       /\ commit'[a] = c
       /\ commit' = [b \in Admins |-> commit'[b]]
  BY <1>9 DEF MigrationInv, CommitsTyped
<1>12. IsCommit(c) /\ c.pc \in Places
  BY <1>5 DEF IsCommit, Places
<1>13. CommitsTyped'
  <2>1. \A b \in Admins : /\ IsCommit(commit'[b]) /\ commit'[b].pc \in Places
                          /\ commit'[b].draft \in 1..uploads \union {NoDraft}
    BY <1>4, <1>5, <1>11, <1>12 DEF MigrationInv, CommitsTyped
  <2> QED
    BY <1>9, <1>11, <2>1 DEF CommitsTyped
<1>14. CommitsApart'
  <2>1. \A b \in Admins : commit'[b].pc \notin Written
    <3>1. \A b \in Admins \ {a} : commit[b].pc \notin Written
      BY <1>1, <1>4 DEF MigrationInv, CommitsApart, Written
    <3>2. c.pc \notin Written
      BY <1>5 DEF Written
    <3> QED
      BY <1>11, <3>1, <3>2
  <2>2. ASSUME NEW b \in Admins PROVE CommitHolds(commit'[b], rows')
    <3>1. CASE b = a
      <4>1. c.pc \notin Busy /\ Done(c.pc) = {}
        BY <1>5, NothingDone DEF Busy, Written
      <4> QED
        BY <1>11, <3>1, <4>1 DEF CommitHolds
    <3>2. CASE b # a
      <4>1. CommitHolds(commit[b], rows) /\ commit[b].pc \notin Written /\ commit[b].pc \in Places
        BY <1>11, <2>1, <3>2 DEF MigrationInv, CommitsApart, CommitsTyped
      <4>2. Done(commit[b].pc) = {}
        BY <4>1, NothingDone DEF Places, Written
      <4> QED
        BY <1>11, <3>2, <4>1, <4>2 DEF CommitHolds
    <3> QED
      BY <3>1, <3>2
  <2> QED
    BY <1>9, <2>1, <2>2 DEF CommitsApart
<1>15. RowsSettled'
  <2>1. settled' \subseteq 1..uploads /\ settled' # {}
    BY <1>4, <1>7, <1>9 DEF MigrationInv, RowsSettled
  <2>2. {r.draft : r \in rows'} \subseteq settled'
    BY <1>8, <1>9 DEF MigrationInv, RowsSettled
  <2>3. RowsWhole'
    <3>1. ASSUME NEW r \in rows'
          PROVE  \E g \in Files : Clean(g) /\ r \in AllRows(r.draft, g) /\ AllRows(r.draft, g) \subseteq rows'
      <4>1. CASE r \in w
        BY <1>7, <1>8, <1>9, <4>1
      <4>2. CASE r \in rows
        <5>1. PICK g \in Files : Clean(g) /\ r \in AllRows(r.draft, g) /\ AllRows(r.draft, g) \subseteq rows
          BY <4>2 DEF MigrationInv, RowsSettled, RowsWhole
        <5> QED
          BY <1>9, <5>1
      <4> QED
        BY <1>9, <4>1, <4>2
    <3> QED
      BY <3>1 DEF RowsWhole
  <2>4. ASSUME NEW r \in w, NEW s \in w, r.kind = "loan", s.kind = "loan", r.id = s.id PROVE r = s
    <3>1. r \in LoanRows(d, f) /\ s \in LoanRows(d, f)
      BY <1>7, <2>4, RowsByKind
    <3>2. PICK i \in DOMAIN f.loans, j \in DOMAIN f.loans :
            /\ r = [kind |-> "loan", draft |-> d, id |-> f.loans[i].id, customer |-> f.loans[i].customer,
                    group |-> f.loans[i].group, owed |-> f.loans[i].principal + f.loans[i].interest,
                    schedule |-> Materialised(f.loans[i])]
            /\ s = [kind |-> "loan", draft |-> d, id |-> f.loans[j].id, customer |-> f.loans[j].customer,
                    group |-> f.loans[j].group, owed |-> f.loans[j].principal + f.loans[j].interest,
                    schedule |-> Materialised(f.loans[j])]
      BY <3>1 DEF LoanRows, ToSet
    <3>3. f.loans[i].id = f.loans[j].id
      BY <2>4, <3>2
    <3>4. i = j
      BY <1>7, <3>3, FileSheets, OnceEach
    <3> QED
      BY <3>2, <3>4
  <2>5. ASSUME NEW r \in w, NEW s \in w, r.kind = "collection", s.kind = "collection", r.id = s.id
        PROVE  r = s
    <3>1. r \in CollectionRows(d, f) /\ s \in CollectionRows(d, f)
      BY <1>7, <2>5, RowsByKind
    <3>2. PICK i \in DOMAIN f.collections, j \in DOMAIN f.collections :
            /\ r = [kind |-> "collection", draft |-> d, id |-> f.collections[i].id,
                    loan |-> f.collections[i].loan, amount |-> f.collections[i].amount]
            /\ s = [kind |-> "collection", draft |-> d, id |-> f.collections[j].id,
                    loan |-> f.collections[j].loan, amount |-> f.collections[j].amount]
      BY <3>1 DEF CollectionRows, ToSet
    <3>3. f.collections[i].id = f.collections[j].id
      BY <2>5, <3>2
    <3>4. i = j
      BY <1>7, <3>3, FileSheets, OnceEach, CleanFile
    <3> QED
      BY <3>2, <3>4
  <2>6. ASSUME NEW r \in w, NEW s \in rows, r.kind = s.kind, r.kind \in {"loan", "collection"}
        PROVE  r.id # s.id
    <3>1. r \in LoanRows(d, f) \/ r \in CollectionRows(d, f)
      BY <1>7, <2>6, RowsByKind
    <3>2. RowsOf("loans", d, f) = LoanRows(d, f) /\ RowsOf("collections", d, f) = CollectionRows(d, f)
      BY DEF RowsOf
    <3> QED
      BY <1>7, <2>6, <3>1, <3>2 DEF NoClash
  <2>7. Distinct("loan", rows)' /\ Distinct("collection", rows)'
    <3>1. \A r, s \in rows' : r.kind = "loan" /\ s.kind = "loan" /\ r.id = s.id => r = s
      BY <1>9, <2>4, <2>6 DEF MigrationInv, RowsSettled, Distinct
    <3>2. \A r, s \in rows' : r.kind = "collection" /\ s.kind = "collection" /\ r.id = s.id => r = s
      BY <1>9, <2>5, <2>6 DEF MigrationInv, RowsSettled, Distinct
    <3> QED
      BY <3>1, <3>2 DEF Distinct
  <2> QED
    BY <1>9, <2>1, <2>2, <2>3, <2>7 DEF RowsSettled
<1> QED
  BY <1>10, <1>13, <1>14, <1>15 DEF MigrationInv

\* A draft expires.
LEMMA DraftEvicted ==
  ASSUME MigrationInv, NEW d \in DOMAIN drafts, EvictExpired(d)
  PROVE  MigrationInv'
<1>1. DraftsTyped'
  BY DraftGone DEF EvictExpired, MigrationInv
<1>2. CommitsTyped' /\ CommitsApart' /\ RowsSettled'
  BY DEF EvictExpired, MigrationInv, CommitsTyped, CommitsApart, RowsSettled, RowsWhole, Distinct
<1> QED
  BY <1>1, <1>2 DEF MigrationInv

\* The process restarts in the middle of any of it.
LEMMA MigrationRestarts ==
  ASSUME MigrationInv, MigrationRestart
  PROVE  MigrationInv'
<1> USE DEF MigrationRestart
<1>1. DraftsTyped'
  BY DEF MigrationInv, DraftsTyped
<1>2. \A a \in Admins : commit'[a] = NoCommit
  OBVIOUS
<1>3. CommitsTyped'
  BY <1>2, NoCommitHolds DEF CommitsTyped, MigrationInv
<1>4. CommitsApart'
  BY <1>2, NoCommitHolds DEF CommitsApart, MigrationInv
<1>5. RowsSettled'
  BY DEF MigrationInv, RowsSettled, RowsWhole, Distinct
<1> QED
  BY <1>1, <1>3, <1>4, <1>5 DEF MigrationInv

\* What the clerks do leaves the migration alone.
LEMMA MigrationStutters ==
  ASSUME MigrationInv, UNCHANGED migrationVars
  PROVE  MigrationInv'
BY DEF migrationVars, MigrationInv, DraftsTyped, CommitsTyped, CommitsApart, RowsSettled,
       RowsWhole, Distinct

\* MigrationInv is inductive.
LEMMA MigrationSteps == MigrationInv /\ [BranchNext]_branchVars => MigrationInv'
<1> SUFFICES ASSUME MigrationInv, [BranchNext]_branchVars PROVE MigrationInv'
  OBVIOUS
<1>1. CASE UNCHANGED migrationVars
  BY <1>1, MigrationStutters
<1>2. CASE \E a \in Admins : Prepare(a)
  BY <1>2, Prepared
<1>3. CASE \E d \in DOMAIN drafts : EvictExpired(d)
  BY <1>3, DraftEvicted
<1>4. CASE \E a \in Admins : CommitTx(a)
  BY <1>4, CommitDone
<1>5. CASE MigrationRestart
  BY <1>5, MigrationRestarts
<1> QED
  BY <1>1, <1>2, <1>3, <1>4, <1>5 DEF BranchNext, branchVars, Restart, CommitMigration

(* For every set of files, administrators and clerks: a migration is there as a
   whole or not at all, each of its rows refers to rows of its own draft, and
   its installments add up to what its loans owe (MigrationService.commit). *)
THEOREM MigrationWholeAlways == BranchSpec => []MigrationWhole
<1>1. BranchInit => MigrationInv
  BY MigrationStarts DEF BranchInit
<1>2. MigrationInv => MigrationWhole
  BY MigrationIs DEF MigrationInv, RowsSettled
<1> QED
  BY <1>1, <1>2, MigrationSteps, PTL DEF BranchSpec

\* The migration's variables have their types.
LEMMA MigrationTypes == MigrationInv => MigrationTypeOK
BY DomainsAre DEF MigrationInv, DraftsTyped, CommitsTyped, CommitsApart, RowsSettled, Places,
                  MigrationTypeOK

-----------------------------------------------------------------------------
(* The group: what every reachable state is. *)

\* The customers of the application and those of the files.
People == Customers \union UNION {Ids(f.customers) : f \in Files}

IsCall(c) ==
  \/ c = NoRequest
  \/ /\ c.op = "add" /\ c.pc \in {"asked", "checked"}
     /\ c = [op |-> "add", pc |-> c.pc, customer |-> c.customer]
     /\ c.customer \in Customers
  \/ /\ c.op = "remove" /\ c.pc \in {"asked", "checked"}
     /\ c = [op |-> "remove", pc |-> c.pc, row |-> c.row]
  \/ /\ c.op = "collect" /\ c.pc \in {"asked", "posting"}
     /\ c = [op |-> "collect", pc |-> c.pc, key |-> c.key, parts |-> c.parts,
             next |-> c.next, after |-> c.after]
     /\ c.key \in RequestKeys /\ c.parts \in Breakdowns

MembersTyped == members \in Seq([customer : People, active : BOOLEAN])

LoansTyped ==
  loans \in [Loans -> [status : {"approved", "active", "closed"}, began : Nat, owes : Nat]]

BooksTyped ==
  /\ books \subseteq [key : RequestKeys, parts : Breakdowns]
  /\ posted \in Seq([key : RequestKeys, loan : Loans, amount : Nat])
  /\ singles \in [Loans -> Nat]

CallsTyped ==
  /\ lock \in [{"group"} \union Loans \union RequestKeys -> Clerks \union {Nobody}]
  /\ call = [p \in Clerks |-> call[p]]
  /\ \A p \in Clerks : IsCall(call[p])

GroupTyped == MembersTyped /\ LoansTyped /\ BooksTyped /\ CallsTyped

\* What a request that collects has locked, and what it has worked out under
\* its locks.
PartHeld(q, part, after) ==
  /\ lock[part.loan] = q
  /\ loans[part.loan].status = "active"
  /\ part.amount <= loans[part.loan].owes
  /\ after[part.loan] = loans[part.loan].owes - part.amount

CollectHolds(q) ==
  call[q].op = "collect" =>
    /\ call[q].next \in 1..(Len(call[q].parts) + 1)
    /\ DOMAIN call[q].after = {call[q].parts[i].loan : i \in 1..(call[q].next - 1)}
    /\ \A i, j \in 1..(call[q].next - 1) : call[q].parts[i].loan = call[q].parts[j].loan => i = j
    /\ \A i \in 1..(call[q].next - 1) : PartHeld(q, call[q].parts[i], call[q].after)
    /\ call[q].pc = "posting" =>
         lock[call[q].key] = q /\ \A b \in books : b.key # call[q].key

\* What a request that changes the members has checked still holds.
MemberHolds(q) ==
  /\ call[q].op = "remove" => call[q].row \in DOMAIN members
  /\ call[q].pc = "checked" =>
       /\ lock["group"] = q
       /\ call[q].op = "add" =>
            call[q].customer \notin ActiveCustomers /\ Cardinality(ActiveRows) < MAX_GROUP_SIZE
       /\ call[q].op = "remove" =>
            members[call[q].row].active /\ Cardinality(ActiveRows) > MIN_GROUP_SIZE

ActiveOnce == \A i, j \in ActiveRows : members[i].customer = members[j].customer => i = j

\* Nothing happens to a loan before it is lent, nor to a group before it is there.
NotYet ==
  /\ \A l \in Loans : loans[l].status = "approved" =>
       singles[l] = 0 /\ \A i \in DOMAIN posted : posted[i].loan # l
  /\ group = "none" =>
       /\ posted = <<>> /\ books = {} /\ members = <<>>
       /\ \A l \in Loans : loans[l].status = "approved"
       /\ \A p \in Clerks : call[p] = NoRequest

GroupInv ==
  /\ GroupTyped /\ GroupCollectionsWhole /\ ActiveOnce /\ NotYet
  /\ \A q \in Clerks : CollectHolds(q) /\ MemberHolds(q)

-----------------------------------------------------------------------------
(* Sums over what is posted. *)

Posted == [key : RequestKeys, loan : Loans, amount : Nat]

Under(seq, k) ==
  Total(Len(seq), [i \in DOMAIN seq |-> IF seq[i].key = k THEN seq[i].amount ELSE 0])
From(seq, l) ==
  Total(Len(seq), [i \in DOMAIN seq |-> IF seq[i].loan = l THEN seq[i].amount ELSE 0])

Chain(z, a, b) == z = a \o b

\* Two sequences of posted payments, one behind the other.
LEMMA PostedMore ==
  ASSUME NEW a \in Seq(Posted), NEW b \in Seq(Posted), NEW z, Chain(z, a, b)
  PROVE  /\ z \in Seq(Posted)
         /\ Len(a) \in Nat /\ Len(b) \in Nat /\ Len(z) = Len(a) + Len(b)
         /\ DOMAIN a = 1..Len(a) /\ DOMAIN b = 1..Len(b) /\ DOMAIN z = 1..(Len(a) + Len(b))
         /\ \A i \in 1..Len(a) : z[i] = a[i]
         /\ \A i \in 1..Len(b) : z[Len(a) + i] = b[i]
BY DEF Chain

\* The amounts that are summed are integers.
LEMMA AmountsTyped ==
  ASSUME NEW s \in Seq(Posted)
  PROVE  /\ Len(s) \in Nat /\ DOMAIN s = 1..Len(s)
         /\ \A k : [i \in DOMAIN s |-> IF s[i].key = k THEN s[i].amount ELSE 0] \in [1..Len(s) -> Int]
         /\ \A l : [i \in DOMAIN s |-> IF s[i].loan = l THEN s[i].amount ELSE 0] \in [1..Len(s) -> Int]
         /\ [i \in DOMAIN s |-> s[i].amount] \in [1..Len(s) -> Int]
<1>1. Len(s) \in Nat /\ DOMAIN s = 1..Len(s) /\ \A i \in 1..Len(s) : s[i] \in Posted
  OBVIOUS
<1>2. \A i \in 1..Len(s) : s[i].amount \in Int
  BY <1>1 DEF Posted
<1> QED
  BY <1>1, <1>2

\* What is posted under a key adds up over two sequences.
LEMMA UnderMore ==
  ASSUME NEW a \in Seq(Posted), NEW b \in Seq(Posted), NEW z, Chain(z, a, b), NEW k
  PROVE  Under(z, k) = Under(a, k) + Under(b, k)
<1>1. PICK n, m : n = Len(a) /\ m = Len(b)
  OBVIOUS
<1>2. /\ z \in Seq(Posted) /\ n \in Nat /\ m \in Nat /\ Len(z) = n + m
      /\ DOMAIN a = 1..n /\ DOMAIN b = 1..m /\ DOMAIN z = 1..(n + m)
      /\ \A i \in 1..n : z[i] = a[i]
      /\ \A i \in 1..m : z[n + i] = b[i]
  BY <1>1, PostedMore
<1>3. PICK f, g, h :
        /\ f = [i \in DOMAIN a |-> IF a[i].key = k THEN a[i].amount ELSE 0]
        /\ g = [i \in DOMAIN b |-> IF b[i].key = k THEN b[i].amount ELSE 0]
        /\ h = [i \in DOMAIN z |-> IF z[i].key = k THEN z[i].amount ELSE 0]
  OBVIOUS
<1>4. f \in [1..n -> Int] /\ g \in [1..m -> Int] /\ h \in [1..Len(z) -> Int]
  <2>1. f \in [1..Len(a) -> Int]
    BY <1>3, AmountsTyped
  <2>2. g \in [1..Len(b) -> Int]
    BY <1>3, AmountsTyped
  <2>3. z \in Seq(Posted)
    BY <1>2
  <2>4. [i \in DOMAIN z |-> IF z[i].key = k THEN z[i].amount ELSE 0] \in [1..Len(z) -> Int]
    BY <2>3, AmountsTyped
  <2>5. h \in [1..Len(z) -> Int]
    BY <1>3, <2>4
  <2> QED
    BY <1>1, <2>1, <2>2, <2>5
<1>5. /\ \A i \in 1..n : h[i] = f[i]
      /\ \A i \in 1..m : h[n + i] = g[i]
  BY <1>2, <1>3
<1>6. PICK q \in Nat : q = Len(z) /\ q = n + m
  BY <1>2
<1>7. Total(q, h) = Total(n, f) + Total(m, g)
  <2>1. h \in [1..q -> Int] /\ n \in Nat /\ m \in Nat
    BY <1>2, <1>4, <1>6
  <2>2. f \in [1..n -> Int] /\ g \in [1..m -> Int]
    BY <1>4
  <2>3. Joins(q, h, n, f, m, g)
    BY <1>5, <1>6 DEF Joins
  <2>4. \A x \in [1..n -> Int], y \in [1..m -> Int], t \in [1..q -> Int] :
          Joins(q, t, n, x, m, y) => Total(q, t) = Total(n, x) + Total(m, y)
    BY <2>1, TotalConcat
  <2> QED
    BY <2>1, <2>2, <2>3, <2>4
<1> QED
  BY <1>1, <1>3, <1>6, <1>7 DEF Under

\* What is posted from a loan adds up over two sequences.
LEMMA FromMore ==
  ASSUME NEW a \in Seq(Posted), NEW b \in Seq(Posted), NEW z, Chain(z, a, b), NEW l
  PROVE  From(z, l) = From(a, l) + From(b, l)
<1>1. PICK n, m : n = Len(a) /\ m = Len(b)
  OBVIOUS
<1>2. /\ z \in Seq(Posted) /\ n \in Nat /\ m \in Nat /\ Len(z) = n + m
      /\ DOMAIN a = 1..n /\ DOMAIN b = 1..m /\ DOMAIN z = 1..(n + m)
      /\ \A i \in 1..n : z[i] = a[i]
      /\ \A i \in 1..m : z[n + i] = b[i]
  BY <1>1, PostedMore
<1>3. PICK f, g, h :
        /\ f = [i \in DOMAIN a |-> IF a[i].loan = l THEN a[i].amount ELSE 0]
        /\ g = [i \in DOMAIN b |-> IF b[i].loan = l THEN b[i].amount ELSE 0]
        /\ h = [i \in DOMAIN z |-> IF z[i].loan = l THEN z[i].amount ELSE 0]
  OBVIOUS
<1>4. f \in [1..n -> Int] /\ g \in [1..m -> Int] /\ h \in [1..Len(z) -> Int]
  <2>1. f \in [1..Len(a) -> Int]
    BY <1>3, AmountsTyped
  <2>2. g \in [1..Len(b) -> Int]
    BY <1>3, AmountsTyped
  <2>3. z \in Seq(Posted)
    BY <1>2
  <2>4. [i \in DOMAIN z |-> IF z[i].loan = l THEN z[i].amount ELSE 0] \in [1..Len(z) -> Int]
    BY <2>3, AmountsTyped
  <2>5. h \in [1..Len(z) -> Int]
    BY <1>3, <2>4
  <2> QED
    BY <1>1, <2>1, <2>2, <2>5
<1>5. /\ \A i \in 1..n : h[i] = f[i]
      /\ \A i \in 1..m : h[n + i] = g[i]
  BY <1>2, <1>3
<1>6. PICK q \in Nat : q = Len(z) /\ q = n + m
  BY <1>2
<1>7. Total(q, h) = Total(n, f) + Total(m, g)
  <2>1. h \in [1..q -> Int] /\ n \in Nat /\ m \in Nat
    BY <1>2, <1>4, <1>6
  <2>2. f \in [1..n -> Int] /\ g \in [1..m -> Int]
    BY <1>4
  <2>3. Joins(q, h, n, f, m, g)
    BY <1>5, <1>6 DEF Joins
  <2>4. \A x \in [1..n -> Int], y \in [1..m -> Int], t \in [1..q -> Int] :
          Joins(q, t, n, x, m, y) => Total(q, t) = Total(n, x) + Total(m, y)
    BY <2>1, TotalConcat
  <2> QED
    BY <2>1, <2>2, <2>3, <2>4
<1> QED
  BY <1>1, <1>3, <1>6, <1>7 DEF From

\* Nothing is posted under a key that no payment has.
LEMMA UnderNone ==
  ASSUME NEW s \in Seq(Posted), NEW k, \A i \in DOMAIN s : s[i].key # k
  PROVE  Under(s, k) = 0
<1>1. PICK f : f = [i \in DOMAIN s |-> IF s[i].key = k THEN s[i].amount ELSE 0]
  OBVIOUS
<1>2. Len(s) \in Nat /\ f \in [1..Len(s) -> Int] /\ \A i \in 1..Len(s) : f[i] = 0
  BY <1>1, AmountsTyped
<1> QED
  BY <1>1, <1>2, TotalZero DEF Under

\* Nothing is posted from a loan that no payment names.
LEMMA FromNone ==
  ASSUME NEW s \in Seq(Posted), NEW l, \A i \in DOMAIN s : s[i].loan # l
  PROVE  From(s, l) = 0
<1>1. PICK f : f = [i \in DOMAIN s |-> IF s[i].loan = l THEN s[i].amount ELSE 0]
  OBVIOUS
<1>2. Len(s) \in Nat /\ f \in [1..Len(s) -> Int] /\ \A i \in 1..Len(s) : f[i] = 0
  BY <1>1, AmountsTyped
<1> QED
  BY <1>1, <1>2, TotalZero DEF From

\* The payments of a loan that is named once are that payment.
LEMMA FromOne ==
  ASSUME NEW s \in Seq(Posted), NEW j \in DOMAIN s,
         \A i \in DOMAIN s : s[i].loan = s[j].loan => i = j
  PROVE  From(s, s[j].loan) = s[j].amount
<1>1. PICK f : f = [i \in DOMAIN s |-> IF s[i].loan = s[j].loan THEN s[i].amount ELSE 0]
  OBVIOUS
<1>2. /\ Len(s) \in Nat /\ DOMAIN s = 1..Len(s) /\ f \in [1..Len(s) -> Int]
      /\ f[j] = s[j].amount /\ \A i \in 1..Len(s) : i # j => f[i] = 0
  BY <1>1, AmountsTyped
<1>3. Total(Len(s), f) = f[j]
  BY <1>2, TotalSingle
<1> QED
  BY <1>1, <1>2, <1>3 DEF From

\* The sums are integers.
LEMMA SumsTyped ==
  ASSUME NEW s \in Seq(Posted)
  PROVE  \A k : Under(s, k) \in Int /\ From(s, k) \in Int
<1>1. ASSUME NEW k PROVE Under(s, k) \in Int /\ From(s, k) \in Int
  <2>1. PICK f, g : /\ f = [i \in DOMAIN s |-> IF s[i].key = k THEN s[i].amount ELSE 0]
                    /\ g = [i \in DOMAIN s |-> IF s[i].loan = k THEN s[i].amount ELSE 0]
    OBVIOUS
  <2>2. Len(s) \in Nat /\ f \in [1..Len(s) -> Int] /\ g \in [1..Len(s) -> Int]
    BY <2>1, AmountsTyped
  <2> QED
    BY <2>1, <2>2, TotalType DEF Under, From
<1> QED
  BY <1>1

(* Requests *)

Part == [loan : Loans, amount : Nat]

\* What the request of a group collection is made of.
LEMMA CollectTyped ==
  ASSUME CallsTyped, NEW q \in Clerks, call[q].op = "collect"
  PROVE  /\ call[q].pc \in {"asked", "posting"} /\ call[q].key \in RequestKeys
         /\ call[q].parts \in Breakdowns /\ call[q].parts \in Seq(Part)
         /\ Len(call[q].parts) \in Nat
         /\ DOMAIN call[q].parts = 1..Len(call[q].parts)
         /\ \A i \in 1..Len(call[q].parts) :
              /\ call[q].parts[i] \in Part
              /\ call[q].parts[i].loan \in Loans /\ call[q].parts[i].amount \in Nat
         /\ call[q] = [op |-> "collect", pc |-> call[q].pc, key |-> call[q].key,
                       parts |-> call[q].parts, next |-> call[q].next, after |-> call[q].after]
<1>1. IsCall(call[q])
  BY DEF CallsTyped
<1>2. /\ call[q].pc \in {"asked", "posting"} /\ call[q].key \in RequestKeys
      /\ call[q].parts \in Breakdowns
      /\ call[q] = [op |-> "collect", pc |-> call[q].pc, key |-> call[q].key,
                       parts |-> call[q].parts, next |-> call[q].next, after |-> call[q].after]
  BY <1>1 DEF IsCall, NoRequest
<1>3. PICK s : s = call[q].parts
  OBVIOUS
<1>4. s \in Seq(Part)
  BY <1>2, <1>3, GroupsAssumption DEF Part
<1>5. /\ Len(s) \in Nat /\ DOMAIN s = 1..Len(s) /\ \A i \in 1..Len(s) : s[i] \in Part
  BY <1>4
<1>6. \A i \in 1..Len(s) : s[i].loan \in Loans /\ s[i].amount \in Nat
  BY <1>5 DEF Part
<1> QED
  BY <1>2, <1>3, <1>4, <1>5, <1>6

(* What a request knows stays true while the others change what it has not
   locked. *)
LEMMA CallSurvives ==
  ASSUME GroupTyped, NEW q \in Clerks, CollectHolds(q), MemberHolds(q),
         call'[q] = call[q],
         \A r \in DOMAIN lock : lock[r] = q => lock'[r] = q,
         \A l \in Loans : lock[l] = q /\ loans[l].status = "active" => loans'[l] = loans[l],
         lock["group"] = q => members' = members,
         DOMAIN members \subseteq DOMAIN members',
         \A b \in books' : b \in books \/ lock[b.key] # q
  PROVE  CollectHolds(q)' /\ MemberHolds(q)'
<1>1. CallsTyped /\ DOMAIN lock = {"group"} \union Loans \union RequestKeys
  BY DEF GroupTyped, CallsTyped
<1>2. CollectHolds(q)'
  <2>1. SUFFICES ASSUME call[q].op = "collect" PROVE CollectHolds(q)'
    BY DEF CollectHolds
  <2>2. PICK c : c = call[q] /\ c = call'[q]
    OBVIOUS
  <2>3. /\ c.key \in RequestKeys /\ Len(c.parts) \in Nat
        /\ \A i \in 1..Len(c.parts) : c.parts[i].loan \in Loans
    BY <1>1, <2>1, <2>2, CollectTyped
  <2>4. /\ c.next \in 1..(Len(c.parts) + 1)
        /\ DOMAIN c.after = {c.parts[i].loan : i \in 1..(c.next - 1)}
        /\ \A i, j \in 1..(c.next - 1) : c.parts[i].loan = c.parts[j].loan => i = j
        /\ \A i \in 1..(c.next - 1) : PartHeld(q, c.parts[i], c.after)
        /\ c.pc = "posting" => lock[c.key] = q /\ \A b \in books : b.key # c.key
    BY <2>1, <2>2 DEF CollectHolds
  <2>5. \A i \in 1..(c.next - 1) : PartHeld(q, c.parts[i], c.after)'
    <3> SUFFICES ASSUME NEW i \in 1..(c.next - 1) PROVE PartHeld(q, c.parts[i], c.after)'
      OBVIOUS
    <3>1. i \in 1..Len(c.parts)
      BY <2>3, <2>4
    <3>2. PICK part : part = c.parts[i]
      OBVIOUS
    <3>3. part.loan \in Loans /\ PartHeld(q, part, c.after)
      BY <2>3, <2>4, <3>1, <3>2
    <3>4. lock[part.loan] = q /\ loans[part.loan].status = "active"
      BY <3>3 DEF PartHeld
    <3>5. lock'[part.loan] = q /\ loans'[part.loan] = loans[part.loan]
      BY <1>1, <3>3, <3>4
    <3>6. PartHeld(q, part, c.after)'
      BY <3>3, <3>5 DEF PartHeld
    <3> QED
      BY <3>2, <3>6
  <2>6. c.pc = "posting" => lock'[c.key] = q /\ \A b \in books' : b.key # c.key
    BY <1>1, <2>3, <2>4
  <2> QED
    BY <2>2, <2>4, <2>5, <2>6 DEF CollectHolds
<1>3. MemberHolds(q)'
  <2>1. CASE call[q].pc = "checked"
    <3>1. lock["group"] = q
      BY <2>1 DEF MemberHolds
    <3>2. lock'["group"] = q /\ members' = members
      BY <1>1, <3>1
    <3>3. ActiveRows' = ActiveRows /\ ActiveCustomers' = ActiveCustomers
      BY <3>2 DEF ActiveRows, ActiveCustomers
    <3> QED
      BY <2>1, <3>2, <3>3 DEF MemberHolds
  <2>2. CASE call[q].pc # "checked"
    BY <2>2 DEF MemberHolds
  <2> QED
    BY <2>1, <2>2
<1> QED
  BY <1>2, <1>3

\* A request that is over holds nothing.
LEMMA IdleHolds ==
  ASSUME NEW q \in Clerks, call'[q] = NoRequest
  PROVE  CollectHolds(q)' /\ MemberHolds(q)'
BY DEF CollectHolds, MemberHolds, NoRequest

-----------------------------------------------------------------------------
(* Members *)

Members == [customer : People, active : BOOLEAN]

\* Nobody is a member twice: there are as many active customers as rows.
LEMMA CountOnce ==
  ASSUME NEW m \in Seq(Members), NEW A, A = {i \in DOMAIN m : m[i].active},
         NEW C, C = {m[i].customer : i \in A},
         \A i, j \in A : m[i].customer = m[j].customer => i = j
  PROVE  Cardinality(C) = Cardinality(A) /\ IsFiniteSet(A) /\ Cardinality(A) \in Nat
<1>1. Len(m) \in Nat /\ DOMAIN m = 1..Len(m)
  OBVIOUS
<1>2. IsFiniteSet(1..Len(m))
  BY <1>1, FS_Interval
<1>3. IsFiniteSet(A)
  BY <1>1, <1>2, FS_Subset
<1>4. Cardinality(A) \in Nat
  BY <1>3, FS_CardinalityType
<1>5. PICK f : f = [i \in A |-> m[i].customer]
  OBVIOUS
<1>6. f \in Bijection(A, C)
  <2>1. f \in [A -> C] /\ \A i, j \in A : f[i] = f[j] => i = j
    BY <1>5
  <2>2. \A c \in C : \E i \in A : f[i] = c
    BY <1>5
  <2> QED
    BY <2>1, <2>2 DEF Bijection, Injection, Surjection, IsInjective
<1>7. Cardinality(C) = Cardinality(A)
  BY <1>3, <1>6, FS_Bijection DEF ExistsBijection
<1> QED
  BY <1>3, <1>4, <1>7

\* Members that do not change keep their invariants.
LEMMA MembersStay ==
  ASSUME MembersTyped, ActiveOnce, members' = members
  PROVE  MembersTyped' /\ ActiveOnce' /\ MembershipKept
<1>1. ActiveRows' = ActiveRows /\ ActiveCustomers' = ActiveCustomers
  BY DEF ActiveRows, ActiveCustomers
<1>2. Cardinality(ActiveCustomers) = Cardinality(ActiveRows)
  <2>1. members \in Seq(Members)
    BY DEF MembersTyped, Members
  <2>2. PICK A : A = ActiveRows
    OBVIOUS
  <2>3. PICK C : C = ActiveCustomers
    OBVIOUS
  <2>4. A = {i \in DOMAIN members : members[i].active} /\ C = {members[i].customer : i \in A}
    BY <2>2, <2>3 DEF ActiveRows, ActiveCustomers
  <2>5. \A i, j \in A : members[i].customer = members[j].customer => i = j
    BY <2>2 DEF ActiveOnce
  <2> QED
    BY <2>1, <2>2, <2>3, <2>4, <2>5, CountOnce
<1>3. MembershipKept
  BY <1>1, <1>2 DEF MembershipKept
<1> QED
  BY <1>1, <1>3 DEF MembersTyped, ActiveOnce

(* Steps that change only calls and locks *)

Locks == [{"group"} \union Loans \union RequestKeys -> Clerks \union {Nobody}]

\* Books, payments and loans that do not change stay whole.
LEMMA WholeStays ==
  ASSUME GroupCollectionsWhole, UNCHANGED <<loans, books, posted, singles, stored>>
  PROVE  GroupCollectionsWhole'
<1>1. /\ \A k : CollectedUnder(k)' = CollectedUnder(k) /\ RowsOfKey(k)' = RowsOfKey(k)
      /\ \A l : CollectedFrom(l)' = CollectedFrom(l)
  BY DEF CollectedUnder, CollectedFrom, RowsOfKey
<1>2. GroupCollectionsWhole
  OBVIOUS
<1>3. ASSUME NEW b \in books'
      PROVE  /\ {posted'[i] : i \in RowsOfKey(b.key)'} = {Row(b.key, b.parts[i]) : i \in DOMAIN b.parts}
             /\ CollectedUnder(b.key)' = InAll(b.parts)
  <2>1. RowsOfKey(b.key)' = RowsOfKey(b.key) /\ CollectedUnder(b.key)' = CollectedUnder(b.key)
    BY <1>1
  <2>2. posted' = posted /\ b \in books
    BY <1>3
  <2>3. /\ {posted[i] : i \in RowsOfKey(b.key)} = {Row(b.key, b.parts[i]) : i \in DOMAIN b.parts}
        /\ CollectedUnder(b.key) = InAll(b.parts)
    BY <1>2, <2>2 DEF GroupCollectionsWhole
  <2> QED
    BY <2>1, <2>2, <2>3
<1>4. /\ \A i \in DOMAIN posted' : \E b \in books' : b.key = posted'[i].key
      /\ \A b1, b2 \in books' : b1.key = b2.key => b1 = b2
      /\ {b.key : b \in books'} = stored'
  BY <1>2 DEF GroupCollectionsWhole
<1>5. \A l \in Loans : loans'[l].owes = loans'[l].began - singles'[l] - CollectedFrom(l)'
  BY <1>1, <1>2 DEF GroupCollectionsWhole
<1> QED
  BY <1>3, <1>4, <1>5 DEF GroupCollectionsWhole

\* A step that only changes a request and its locks.
LEMMA RequestStep ==
  ASSUME GroupInv, UNCHANGED <<group, members, loans, books, posted, singles, stored>>,
         CallsTyped', group = "none" => \A q \in Clerks : call'[q] = NoRequest,
         \A q \in Clerks : CollectHolds(q)' /\ MemberHolds(q)'
  PROVE  GroupInv' /\ MembershipKept
<1>1. MembersTyped' /\ ActiveOnce' /\ MembershipKept
  BY MembersStay DEF GroupInv, GroupTyped
<1>2. LoansTyped' /\ BooksTyped'
  BY DEF GroupInv, GroupTyped, LoansTyped, BooksTyped
<1>3. GroupCollectionsWhole'
  BY WholeStays DEF GroupInv
<1>4. NotYet'
  BY DEF GroupInv, NotYet
<1> QED
  BY <1>1, <1>2, <1>3, <1>4 DEF GroupInv, GroupTyped

\* One clerk's request changes, the others' do not.
LEMMA CallsChange ==
  ASSUME CallsTyped, NEW p \in Clerks, NEW c, IsCall(c), call' = [call EXCEPT ![p] = c],
         lock' \in Locks
  PROVE  CallsTyped' /\ call'[p] = c /\ \A q \in Clerks : q # p => call'[q] = call[q]
<1>1. call'[p] = c /\ \A q \in Clerks : q # p => call'[q] = call[q]
  BY DEF CallsTyped
<1>2. call' = [q \in Clerks |-> call'[q]]
  BY DEF CallsTyped
<1>3. \A q \in Clerks : IsCall(call'[q])
  BY <1>1 DEF CallsTyped
<1> QED
  BY <1>1, <1>2, <1>3 DEF CallsTyped, Locks

\* Letting go of one's locks takes nobody else's.
LEMMA UnlockedKeeps ==
  ASSUME CallsTyped, NEW p \in Clerks
  PROVE  /\ Unlocked(p) \in Locks
         /\ \A r \in DOMAIN lock, q \in Clerks : q # p /\ lock[r] = q => Unlocked(p)[r] = q
BY DEF CallsTyped, Unlocked, Locks

\* Locking a free row takes nobody's.
LEMMA LockOneKeeps ==
  ASSUME CallsTyped, NEW p \in Clerks, NEW r \in DOMAIN lock, lock[r] \in {Nobody, p},
         lock' = [lock EXCEPT ![r] = p]
  PROVE  /\ lock' \in Locks /\ lock'[r] = p
         /\ \A s \in DOMAIN lock, q \in Clerks : lock[s] = q => lock'[s] = q
BY GroupsAssumption DEF CallsTyped, Locks

\* A request ends, and its locks with it.
LEMMA EndsKeep ==
  ASSUME CallsTyped, NEW p \in Clerks, End(p)
  PROVE  /\ CallsTyped' /\ call'[p] = NoRequest /\ \A q \in Clerks : q # p => call'[q] = call[q]
         /\ CollectHolds(p)' /\ MemberHolds(p)'
         /\ \A r \in DOMAIN lock, q \in Clerks : q # p /\ lock[r] = q => lock'[r] = q
<1>1. lock' = Unlocked(p) /\ call' = [call EXCEPT ![p] = NoRequest] /\ IsCall(NoRequest)
  BY DEF End, IsCall
<1>2. lock' \in Locks
  BY <1>1, UnlockedKeeps
<1>3. CallsTyped' /\ call'[p] = NoRequest /\ \A q \in Clerks : q # p => call'[q] = call[q]
  BY <1>1, <1>2, CallsChange
<1>4. CollectHolds(p)' /\ MemberHolds(p)'
  BY <1>3, IdleHolds
<1>5. \A r \in DOMAIN lock, q \in Clerks : q # p /\ lock[r] = q => lock'[r] = q
  BY <1>1, UnlockedKeeps
<1> QED
  BY <1>3, <1>4, <1>5

\* The others while a request changes only locks and itself.
LEMMA OthersHold ==
  ASSUME GroupInv, UNCHANGED <<members, loans, books>>, NEW p \in Clerks,
         \A q \in Clerks : q # p => call'[q] = call[q],
         \A r \in DOMAIN lock, q \in Clerks : q # p /\ lock[r] = q => lock'[r] = q
  PROVE  \A q \in Clerks : q # p => CollectHolds(q)' /\ MemberHolds(q)'
<1> SUFFICES ASSUME NEW q \in Clerks, q # p PROVE CollectHolds(q)' /\ MemberHolds(q)'
  OBVIOUS
<1>1. GroupTyped /\ CollectHolds(q) /\ MemberHolds(q)
  BY DEF GroupInv
<1>2. call'[q] = call[q] /\ \A r \in DOMAIN lock : lock[r] = q => lock'[r] = q
  OBVIOUS
<1>3. \A l \in Loans : lock[l] = q /\ loans[l].status = "active" => loans'[l] = loans[l]
  OBVIOUS
<1>4. /\ lock["group"] = q => members' = members
      /\ DOMAIN members \subseteq DOMAIN members'
      /\ \A b \in books' : b \in books \/ lock[b.key] # q
  OBVIOUS
<1> QED
  BY <1>1, <1>2, <1>3, <1>4, CallSurvives

\* A request is answered or rolled back.
LEMMA AbortStep ==
  ASSUME GroupInv, NEW p \in Clerks, End(p),
         UNCHANGED <<group, members, loans, books, posted, singles, stored>>
  PROVE  GroupInv' /\ MembershipKept
<1>1. /\ CallsTyped' /\ call'[p] = NoRequest /\ \A q \in Clerks : q # p => call'[q] = call[q]
      /\ CollectHolds(p)' /\ MemberHolds(p)'
      /\ \A r \in DOMAIN lock, q \in Clerks : q # p /\ lock[r] = q => lock'[r] = q
  BY EndsKeep DEF GroupInv, GroupTyped
<1>2. \A q \in Clerks : q # p => CollectHolds(q)' /\ MemberHolds(q)'
  BY <1>1, OthersHold
<1>3. group = "none" => \A q \in Clerks : call'[q] = NoRequest
  BY <1>1 DEF GroupInv, NotYet
<1> QED
  BY <1>1, <1>2, <1>3, RequestStep

\* A request goes on with what it now knows.
LEMMA GoesOn ==
  ASSUME GroupInv, NEW p \in Clerks, NEW c, IsCall(c), call' = [call EXCEPT ![p] = c],
         lock' \in Locks, group # "none",
         \A r \in DOMAIN lock, q \in Clerks : q # p /\ lock[r] = q => lock'[r] = q,
         UNCHANGED <<group, members, loans, books, posted, singles, stored>>,
         CollectHolds(p)', MemberHolds(p)'
  PROVE  GroupInv' /\ MembershipKept
<1>1. CallsTyped' /\ \A q \in Clerks : q # p => call'[q] = call[q]
  BY CallsChange DEF GroupInv, GroupTyped
<1>2. \A q \in Clerks : q # p => CollectHolds(q)' /\ MemberHolds(q)'
  BY <1>1, OthersHold
<1> QED
  BY <1>1, <1>2, RequestStep

\* Requests are about a group that is there.
LEMMA GroupThere ==
  ASSUME GroupInv, NEW p \in Clerks, call[p].op # "idle"
  PROVE  group # "none"
BY DEF GroupInv, NotYet, NoRequest

\* A request that changes the members, and the same request further on.
LEMMA MemberCalls ==
  ASSUME CallsTyped, NEW p \in Clerks, call[p].op \in {"add", "remove"}, NEW pc \in {"asked", "checked"}
  PROVE  /\ IsCall([call[p] EXCEPT !.pc = pc])
         /\ [call[p] EXCEPT !.pc = pc].pc = pc
         /\ [call[p] EXCEPT !.pc = pc].op = call[p].op
         /\ call[p].op = "add" => [call[p] EXCEPT !.pc = pc].customer = call[p].customer
         /\ call[p].op = "remove" => [call[p] EXCEPT !.pc = pc].row = call[p].row
<1>1. IsCall(call[p])
  BY DEF CallsTyped
<1>2. CASE call[p].op = "add"
  <2>1. call[p] = [op |-> "add", pc |-> call[p].pc, customer |-> call[p].customer] /\ call[p].customer \in Customers
    BY <1>1, <1>2 DEF IsCall, NoRequest
  <2>2. PICK x, w : x = call[p].customer /\ w = call[p].pc
    OBVIOUS
  <2>3. call[p] = [op |-> "add", pc |-> w, customer |-> x]
    BY <2>1, <2>2
  <2>4. [call[p] EXCEPT !.pc = pc] = [op |-> "add", pc |-> pc, customer |-> x]
    BY <2>3
  <2> QED
    BY <2>1, <2>2, <2>3, <2>4 DEF IsCall
<1>3. CASE call[p].op = "remove"
  <2>1. call[p] = [op |-> "remove", pc |-> call[p].pc, row |-> call[p].row]
    BY <1>1, <1>3 DEF IsCall, NoRequest
  <2>2. PICK x, w : x = call[p].row /\ w = call[p].pc
    OBVIOUS
  <2>3. call[p] = [op |-> "remove", pc |-> w, row |-> x]
    BY <2>1, <2>2
  <2>4. [call[p] EXCEPT !.pc = pc] = [op |-> "remove", pc |-> pc, row |-> x]
    BY <2>3
  <2> QED
    BY <2>1, <2>2, <2>3, <2>4 DEF IsCall
<1> QED
  BY <1>2, <1>3

\* The checks of addMember and removeMember under the lock of the group.
LEMMA LockAndCheckStep ==
  ASSUME GroupInv, NEW p \in Clerks, LockAndCheck(p)
  PROVE  GroupInv' /\ MembershipKept
<1>1. /\ call[p].op \in {"add", "remove"} /\ call[p].pc = "asked"
      /\ UNCHANGED <<group, members, loans, books, posted, singles, stored>>
  BY DEF LockAndCheck
<1>2. CallsTyped /\ group # "none" /\ MemberHolds(p)
  BY <1>1, GroupThere DEF GroupInv, GroupTyped
<1>3. CASE Allowed(call[p])
  <2>1. lock["group"] = Nobody /\ lock' = [lock EXCEPT !["group"] = p]
    BY <1>3 DEF LockAndCheck, LockGroup, Free
  <2>2. PICK c : c = [call[p] EXCEPT !.pc = "checked"]
    OBVIOUS
  <2>3. call' = [call EXCEPT ![p] = c]
    BY <1>3, <2>2 DEF LockAndCheck, Goto
  <2>4. /\ IsCall(c) /\ c.pc = "checked" /\ c.op = call[p].op
        /\ call[p].op = "add" => c.customer = call[p].customer
        /\ call[p].op = "remove" => c.row = call[p].row
    BY <1>1, <1>2, <2>2, MemberCalls
  <2>5. "group" \in DOMAIN lock
    BY <1>2 DEF CallsTyped
  <2>6. /\ lock' \in Locks /\ lock'["group"] = p
        /\ \A s \in DOMAIN lock, q \in Clerks : lock[s] = q => lock'[s] = q
    BY <1>2, <2>1, <2>5, LockOneKeeps
  <2>7. call'[p] = c
    BY <1>2, <2>3 DEF CallsTyped
  <2>8. CollectHolds(p)'
    BY <1>1, <2>4, <2>7 DEF CollectHolds
  <2>9. ActiveRows' = ActiveRows /\ ActiveCustomers' = ActiveCustomers
    BY <1>1 DEF ActiveRows, ActiveCustomers
  <2>10. /\ call[p].op = "add" => call[p].customer \notin ActiveCustomers /\ Cardinality(ActiveRows) < MAX_GROUP_SIZE
         /\ call[p].op = "remove" => members[call[p].row].active /\ Cardinality(ActiveRows) > MIN_GROUP_SIZE
    BY <1>1, <1>3 DEF Allowed, MayAdd, MayRemove
  <2>11. MemberHolds(p)'
    BY <1>1, <1>2, <2>4, <2>6, <2>7, <2>9, <2>10 DEF MemberHolds
  <2> QED
    BY <1>1, <1>2, <2>3, <2>4, <2>6, <2>8, <2>11, GoesOn
<1>4. CASE ~ Allowed(call[p])
  <2>1. lock' = lock /\ call' = [call EXCEPT ![p] = NoRequest] /\ IsCall(NoRequest)
    BY <1>4 DEF LockAndCheck, IsCall
  <2>2. lock' \in Locks /\ call'[p] = NoRequest
    BY <1>2, <2>1 DEF CallsTyped, Locks
  <2>3. CollectHolds(p)' /\ MemberHolds(p)'
    BY <2>2, IdleHolds
  <2>4. \A r \in DOMAIN lock, q \in Clerks : q # p /\ lock[r] = q => lock'[r] = q
    BY <2>1
  <2> QED
    BY <1>1, <1>2, <2>1, <2>2, <2>3, <2>4, GoesOn
<1> QED
  BY <1>3, <1>4

-----------------------------------------------------------------------------
(* A clerk asks *)

LEMMA AskStep ==
  ASSUME GroupInv, NEW p \in Clerks, NEW c, IsCall(c), c.op \in {"add", "remove", "collect"},
         group # "none", c.pc = "asked",
         c.op = "remove" => c.row \in DOMAIN members,
         c.op = "collect" => c.next = 1 /\ c.after = [l \in {} |-> 0],
         Ask(p, c)
  PROVE  GroupInv' /\ MembershipKept
<1>1. /\ call' = [call EXCEPT ![p] = c] /\ lock' = lock
      /\ UNCHANGED <<group, members, loans, books, posted, singles, stored>>
  BY DEF Ask
<1>2. lock' \in Locks /\ call'[p] = c
  BY <1>1 DEF CallsTyped, Locks, GroupInv, GroupTyped
<1>3. MemberHolds(p)'
  BY <1>1, <1>2 DEF MemberHolds
<1>4. CollectHolds(p)'
  <2>1. SUFFICES ASSUME c.op = "collect" PROVE CollectHolds(p)'
    BY <1>2 DEF CollectHolds
  <2>2. c.parts \in Breakdowns
    BY <2>1 DEF IsCall, NoRequest
  <2>3. Len(c.parts) \in Nat
    BY <2>2, GroupsAssumption
  <2>4. c.next = 1 /\ DOMAIN c.after = {}
    BY <2>1
  <2> QED
    BY <1>2, <2>3, <2>4 DEF CollectHolds
<1>5. \A r \in DOMAIN lock, q \in Clerks : q # p /\ lock[r] = q => lock'[r] = q
  BY <1>1
<1> QED
  BY <1>1, <1>2, <1>3, <1>4, <1>5, GoesOn

\* A clerk asks for something.
LEMMA RequestAsked ==
  ASSUME GroupInv, NEW p \in Clerks, Request(p)
  PROVE  GroupInv' /\ MembershipKept
<1>1. CASE \E c \in Customers : AskAdd(p, c)
  <2>1. PICK c \in Customers : AskAdd(p, c)
    BY <1>1
  <2>2. PICK r : r = [op |-> "add", pc |-> "asked", customer |-> c]
    OBVIOUS
  <2>3. group # "none" /\ Ask(p, r) /\ IsCall(r) /\ r.op = "add" /\ r.pc = "asked"
    BY <2>1, <2>2 DEF AskAdd, IsCall
  <2> QED
    BY <2>3, AskStep
<1>2. CASE \E i \in DOMAIN members : AskRemove(p, i)
  <2>1. PICK i \in DOMAIN members : AskRemove(p, i)
    BY <1>2
  <2>2. PICK r : r = [op |-> "remove", pc |-> "asked", row |-> i]
    OBVIOUS
  <2>3. Ask(p, r) /\ IsCall(r) /\ r.op = "remove" /\ r.pc = "asked" /\ r.row = i
    BY <2>1, <2>2 DEF AskRemove, IsCall
  <2>4. group # "none"
    BY DEF GroupInv, NotYet
  <2> QED
    BY <2>3, <2>4, AskStep
<1>3. CASE \E k \in RequestKeys, parts \in Breakdowns : AskCollect(p, k, parts)
  <2>1. PICK k \in RequestKeys, parts \in Breakdowns : AskCollect(p, k, parts)
    BY <1>3
  <2>2. PICK r : r = [op |-> "collect", pc |-> "asked", key |-> k, parts |-> parts,
                      next |-> 1, after |-> [l \in {} |-> 0]]
    OBVIOUS
  <2>3. /\ group # "none" /\ Ask(p, r) /\ IsCall(r) /\ r.op = "collect" /\ r.pc = "asked"
        /\ r.next = 1 /\ r.after = [l \in {} |-> 0]
    BY <2>1, <2>2 DEF AskCollect, IsCall
  <2> QED
    BY <2>3, AskStep
<1> QED
  BY <1>1, <1>2, <1>3 DEF Request

\* A request that collects, further on.
CollectCall(k, ps, pc, n, a) ==
  [op |-> "collect", pc |-> pc, key |-> k, parts |-> ps, next |-> n, after |-> a]

\* The key of a group collection is taken, or its book is answered again.
LEMMA OpenBookStep ==
  ASSUME GroupInv, NEW p \in Clerks, OpenBook(p)
  PROVE  GroupInv' /\ MembershipKept
<1>1. /\ call[p].op = "collect" /\ lock[call[p].key] = Nobody
      /\ \A b \in books : b.key # call[p].key
      /\ lock' = [lock EXCEPT ![call[p].key] = p]
      /\ call' = [call EXCEPT ![p].pc = "posting"]
      /\ UNCHANGED <<group, members, loans, books, posted, singles, stored>>
  BY DEF OpenBook, Free, Goto
<1>2. CallsTyped /\ group # "none" /\ CollectHolds(p)
  BY <1>1, GroupThere DEF GroupInv, GroupTyped
<1>3. PICK k, ps, n, a, w :
        k = call[p].key /\ ps = call[p].parts /\ n = call[p].next /\ a = call[p].after /\ w = call[p].pc
  OBVIOUS
<1>4. /\ k \in RequestKeys /\ ps \in Breakdowns /\ call[p] = CollectCall(k, ps, w, n, a)
      /\ Len(ps) \in Nat /\ \A i \in 1..Len(ps) : ps[i].loan \in Loans
  BY <1>1, <1>2, <1>3, CollectTyped DEF CollectCall
<1>5. PICK c : c = CollectCall(k, ps, "posting", n, a)
  OBVIOUS
<1>6. call' = [call EXCEPT ![p] = c] /\ IsCall(c)
  <2>1. [call[p] EXCEPT !.pc = "posting"] = c
    BY <1>4, <1>5 DEF CollectCall
  <2>2. IsCall(c)
    BY <1>4, <1>5 DEF IsCall, CollectCall
  <2> QED
    BY <1>1, <2>1, <2>2
<1>7. call'[p] = c
  BY <1>2, <1>6 DEF CallsTyped
<1>8. k \in DOMAIN lock
  BY <1>2, <1>4 DEF CallsTyped
<1>9. /\ lock' \in Locks /\ lock'[k] = p
      /\ \A s \in DOMAIN lock, q \in Clerks : lock[s] = q => lock'[s] = q
  BY <1>1, <1>2, <1>3, <1>8, LockOneKeeps
<1>10. CollectHolds(p)'
  <2>1. /\ n \in 1..(Len(ps) + 1)
        /\ DOMAIN a = {ps[i].loan : i \in 1..(n - 1)}
        /\ \A i, j \in 1..(n - 1) : ps[i].loan = ps[j].loan => i = j
        /\ \A i \in 1..(n - 1) : PartHeld(p, ps[i], a)
    BY <1>1, <1>2, <1>3 DEF CollectHolds
  <2>2. ASSUME NEW i \in 1..(n - 1) PROVE PartHeld(p, ps[i], a)'
    <3>1. i \in 1..Len(ps)
      BY <1>4, <2>1
    <3>2. PICK part : part = ps[i]
      OBVIOUS
    <3>3. part.loan \in Loans /\ PartHeld(p, part, a)
      BY <1>4, <2>1, <3>1, <3>2
    <3>4. part.loan \in DOMAIN lock
      BY <1>2, <3>3 DEF CallsTyped
    <3>5. lock'[part.loan] = p /\ loans' = loans
      BY <1>1, <1>9, <3>3, <3>4 DEF PartHeld
    <3>6. PartHeld(p, part, a)'
      BY <3>3, <3>5 DEF PartHeld
    <3> QED
      BY <3>2, <3>6
  <2>3. \A b \in books' : b.key # k
    BY <1>1, <1>3
  <2>4. c.key = k /\ c.parts = ps /\ c.next = n /\ c.after = a
    BY <1>5 DEF CollectCall
  <2> QED
    BY <1>7, <1>9, <2>1, <2>2, <2>3, <2>4 DEF CollectHolds
<1>11. MemberHolds(p)'
  BY <1>5, <1>7 DEF MemberHolds, CollectCall
<1> QED
  BY <1>1, <1>2, <1>6, <1>9, <1>10, <1>11, GoesOn

\* One member's part: the loan is locked, and its new balance worked out.
LEMMA PostPartStep ==
  ASSUME GroupInv, NEW p \in Clerks, PostPart(p)
  PROVE  GroupInv' /\ MembershipKept
<1>1. PICK part : part = call[p].parts[call[p].next]
  OBVIOUS
<1>2. /\ call[p].op = "collect" /\ call[p].pc = "posting" /\ call[p].next <= Len(call[p].parts)
      /\ loans[part.loan].status = "active" /\ part.amount <= loans[part.loan].owes
      /\ part.loan \notin DOMAIN call[p].after
      /\ lock[part.loan] \in {Nobody, p} /\ lock' = [lock EXCEPT ![part.loan] = p]
      /\ UNCHANGED <<group, members, loans, books, posted, singles, stored>>
  BY <1>1 DEF PostPart, Posting, Accepts, LockLoan
<1>3. CallsTyped /\ group # "none" /\ CollectHolds(p)
  BY <1>2, GroupThere DEF GroupInv, GroupTyped
<1>4. PICK k, ps, n, a :
        k = call[p].key /\ ps = call[p].parts /\ n = call[p].next /\ a = call[p].after
  OBVIOUS
<1>5. /\ k \in RequestKeys /\ ps \in Breakdowns /\ call[p] = CollectCall(k, ps, "posting", n, a)
      /\ Len(ps) \in Nat /\ \A i \in 1..Len(ps) : ps[i].loan \in Loans
  BY <1>2, <1>3, <1>4, CollectTyped DEF CollectCall
<1>6. /\ n \in 1..(Len(ps) + 1)
      /\ DOMAIN a = {ps[i].loan : i \in 1..(n - 1)}
      /\ \A i, j \in 1..(n - 1) : ps[i].loan = ps[j].loan => i = j
      /\ \A i \in 1..(n - 1) : PartHeld(p, ps[i], a)
      /\ lock[k] = p /\ \A b \in books : b.key # k
  BY <1>2, <1>3, <1>4 DEF CollectHolds
<1>7. n \in 1..Len(ps) /\ part = ps[n] /\ part.loan \in Loans /\ part.loan \notin DOMAIN a
  <2>1. n <= Len(ps) /\ part = ps[n] /\ part.loan \notin DOMAIN a
    BY <1>1, <1>2, <1>4
  <2>2. n \in 1..Len(ps)
    BY <1>5, <1>6, <2>1
  <2> QED
    BY <1>5, <2>1, <2>2
<1>8. PICK b : b = [l \in DOMAIN a \union {part.loan} |->
                      IF l = part.loan THEN loans[l].owes - part.amount ELSE a[l]]
  OBVIOUS
<1>9. PICK c : c = CollectCall(k, ps, "posting", n + 1, b)
  OBVIOUS
<1>10. call' = [call EXCEPT ![p] = c] /\ IsCall(c)
  <2>1. [call[p] EXCEPT !.next = n + 1, !.after = b] = c
    <3>1. PICK r : r = CollectCall(k, ps, "posting", n, a)
      OBVIOUS
    <3>2. PICK m : m = n + 1
      OBVIOUS
    <3>3. PICK r2 : r2 = CollectCall(k, ps, "posting", m, a)
      OBVIOUS
    <3>4. [r EXCEPT !.next = m] = r2
      BY <3>1, <3>3 DEF CollectCall
    <3>5. [r2 EXCEPT !.after = b] = c
      BY <1>9, <3>2, <3>3 DEF CollectCall
    <3>6. [r EXCEPT !.next = m, !.after = b] = c
      BY <3>4, <3>5
    <3> QED
      BY <1>5, <3>1, <3>2, <3>6
  <2>2. IsCall(c)
    BY <1>5, <1>9 DEF IsCall, CollectCall
  <2>3. call' = [call EXCEPT
                    ![p].next = n + 1,
                    ![p].after = b]
    BY <1>1, <1>3, <1>4, <1>8, ZenonT(30) DEF PostPart, CallsTyped
  <2> QED
    BY <1>3, <2>1, <2>2, <2>3 DEF CallsTyped
<1>11. call'[p] = c
  BY <1>3, <1>10 DEF CallsTyped
<1>12. part.loan \in DOMAIN lock /\ k \in DOMAIN lock
  BY <1>3, <1>5, <1>7 DEF CallsTyped
<1>13. /\ lock' \in Locks /\ lock'[part.loan] = p
       /\ \A s \in DOMAIN lock, q \in Clerks : lock[s] = q => lock'[s] = q
  BY <1>2, <1>3, <1>12, LockOneKeeps
<1>14. CollectHolds(p)'
  <2>1. n + 1 \in 1..(Len(ps) + 1) /\ (n + 1) - 1 = n
    BY <1>5, <1>7
  <2>2. \A i \in 1..n : i = n \/ i \in 1..(n - 1)
    BY <1>5, <1>7
  <2>3. DOMAIN b = {ps[i].loan : i \in 1..n}
    <3>1. DOMAIN b = DOMAIN a \union {part.loan}
      BY <1>8
    <3>2. 1..n = 1..(n - 1) \union {n}
      BY <1>5, <1>7
    <3> QED
      BY <1>6, <1>7, <3>1, <3>2
  <2>4. \A i \in 1..(n - 1) : ps[i].loan \in DOMAIN a /\ ps[i].loan # part.loan
    BY <1>6, <1>7
  <2>5. \A i, j \in 1..n : ps[i].loan = ps[j].loan => i = j
    BY <1>6, <1>7, <2>2, <2>4
  <2>6. ASSUME NEW i \in 1..n PROVE PartHeld(p, ps[i], b)'
    <3>1. CASE i = n
      <4>1. b[part.loan] = loans[part.loan].owes - part.amount
        BY <1>8
      <4>2. PartHeld(p, part, b)'
        BY <1>2, <1>13, <4>1 DEF PartHeld
      <4> QED
        BY <1>7, <3>1, <4>2
    <3>2. CASE i \in 1..(n - 1)
      <4>1. PICK x : x = ps[i]
        OBVIOUS
      <4>2. i \in 1..Len(ps)
        BY <1>5, <1>6, <3>2
      <4>3. x.loan \in Loans /\ PartHeld(p, x, a) /\ x.loan # part.loan /\ x.loan \in DOMAIN a
        BY <1>5, <1>6, <2>4, <3>2, <4>1, <4>2
      <4>4. b[x.loan] = a[x.loan] /\ x.loan \in DOMAIN lock
        BY <1>3, <1>8, <4>3 DEF CallsTyped
      <4>5. lock'[x.loan] = p /\ loans' = loans
        BY <1>2, <1>13, <4>3, <4>4 DEF PartHeld
      <4>6. PartHeld(p, x, b)'
        BY <4>3, <4>4, <4>5 DEF PartHeld
      <4> QED
        BY <4>1, <4>6
    <3> QED
      BY <2>2, <3>1, <3>2
  <2>7. lock'[k] = p /\ \A x \in books' : x.key # k
    BY <1>2, <1>6, <1>12, <1>13
  <2>8. c.key = k /\ c.parts = ps /\ c.next = n + 1 /\ c.after = b
    BY <1>9 DEF CollectCall
  <2>9. \A i \in 1..n : PartHeld(p, ps[i], b)'
    BY <2>6
  <2> QED
    BY <1>11, <2>1, <2>3, <2>5, <2>7, <2>8, <2>9 DEF CollectHolds
<1>15. MemberHolds(p)'
  BY <1>9, <1>11 DEF MemberHolds, CollectCall
<1> QED
  BY <1>2, <1>3, <1>10, <1>13, <1>14, <1>15, GoesOn

(* Members come and go *)

LEMMA MemberStep ==
  ASSUME GroupInv, NEW p \in Clerks, End(p), lock["group"] = p, call[p].op # "idle",
         UNCHANGED <<group, loans, books, posted, singles, stored>>,
         DOMAIN members \subseteq DOMAIN members', MembersTyped', ActiveOnce'
  PROVE  GroupInv'
<1>1. /\ CallsTyped' /\ call'[p] = NoRequest /\ \A q \in Clerks : q # p => call'[q] = call[q]
      /\ CollectHolds(p)' /\ MemberHolds(p)'
      /\ \A r \in DOMAIN lock, q \in Clerks : q # p /\ lock[r] = q => lock'[r] = q
  BY EndsKeep DEF GroupInv, GroupTyped
<1>2. ASSUME NEW q \in Clerks, q # p PROVE CollectHolds(q)' /\ MemberHolds(q)'
  <2>1. GroupTyped /\ CollectHolds(q) /\ MemberHolds(q)
    BY DEF GroupInv
  <2>2. call'[q] = call[q] /\ \A r \in DOMAIN lock : lock[r] = q => lock'[r] = q
    BY <1>1, <1>2
  <2>3. \A l \in Loans : lock[l] = q /\ loans[l].status = "active" => loans'[l] = loans[l]
    OBVIOUS
  <2>4. lock["group"] = q => members' = members
    BY <1>2
  <2>5. \A b \in books' : b \in books \/ lock[b.key] # q
    OBVIOUS
  <2> QED
    BY <2>1, <2>2, <2>3, <2>4, <2>5, CallSurvives
<1>3. LoansTyped' /\ BooksTyped'
  BY DEF GroupInv, GroupTyped, LoansTyped, BooksTyped
<1>4. GroupCollectionsWhole'
  BY WholeStays DEF GroupInv
<1>5. NotYet'
  <2>1. group # "none"
    BY GroupThere
  <2> QED
    BY <2>1 DEF GroupInv, NotYet
<1> QED
  BY <1>1, <1>2, <1>3, <1>4, <1>5 DEF GroupInv, GroupTyped

\* The rows of the active members of a list.
Rows(m) == {i \in DOMAIN m : m[i].active}
Once(m) == \A i, j \in Rows(m) : m[i].customer = m[j].customer => i = j

\* One row more or less keeps the membership within its limits.
LEMMA KeptByCount ==
  ASSUME MembersTyped', Once(members'), IsFiniteSet(Rows(members)),
         \/ /\ Rows(members) \subseteq Rows(members') /\ Rows(members') # Rows(members)
            /\ Cardinality(Rows(members')) <= MAX_GROUP_SIZE
         \/ /\ Rows(members') \subseteq Rows(members) /\ Rows(members') # Rows(members)
            /\ Cardinality(Rows(members')) >= MIN_GROUP_SIZE
  PROVE  MembershipKept
<1>1. ActiveRows = Rows(members) /\ ActiveRows' = Rows(members')
  BY DEF ActiveRows, Rows
<1>2. Cardinality(ActiveCustomers') = Cardinality(ActiveRows')
  <2>1. members' \in Seq(Members)
    BY DEF MembersTyped, Members
  <2>2. PICK A : A = ActiveRows'
    OBVIOUS
  <2>3. PICK C : C = ActiveCustomers'
    OBVIOUS
  <2>4. A = {i \in DOMAIN members' : members'[i].active} /\ C = {members'[i].customer : i \in A}
    BY <2>2, <2>3 DEF ActiveRows, ActiveCustomers
  <2>5. \A i, j \in A : members'[i].customer = members'[j].customer => i = j
    BY <1>1, <2>2 DEF Once
  <2> QED
    BY <2>1, <2>2, <2>3, <2>4, <2>5, CountOnce
<1> QED
  BY <1>1, <1>2 DEF MembershipKept

\* There are finitely many active members.
LEMMA RowsFinite ==
  ASSUME NEW m \in Seq(Members)
  PROVE  IsFiniteSet(Rows(m)) /\ Cardinality(Rows(m)) \in Nat
<1>1. Len(m) \in Nat /\ Rows(m) \subseteq 1..Len(m)
  BY DEF Rows
<1>2. IsFiniteSet(1..Len(m))
  BY <1>1, FS_Interval
<1>3. IsFiniteSet(Rows(m))
  BY <1>1, <1>2, FS_Subset
<1> QED
  BY <1>3, FS_CardinalityType

\* A member who was not there comes in.
LEMMA RowsAdded ==
  ASSUME NEW m \in Seq(Members), Once(m), NEW c \in People,
         \A i \in Rows(m) : m[i].customer # c, NEW z, z = Append(m, Member(c))
  PROVE  /\ z \in Seq(Members) /\ Once(z) /\ DOMAIN m \subseteq DOMAIN z
         /\ Rows(m) \subseteq Rows(z) /\ Rows(z) # Rows(m)
         /\ Cardinality(Rows(z)) = Cardinality(Rows(m)) + 1
<1>1. PICK n \in Nat : n = Len(m)
  OBVIOUS
<1>2. Member(c) \in Members /\ Member(c).active = TRUE /\ Member(c).customer = c
  BY DEF Member, Members
<1>3. /\ z \in Seq(Members) /\ DOMAIN m = 1..n /\ DOMAIN z = 1..(n + 1)
      /\ \A i \in 1..n : z[i] = m[i]
      /\ z[n + 1] = Member(c)
  BY <1>1, <1>2
<1>4. Rows(z) = Rows(m) \union {n + 1} /\ n + 1 \notin Rows(m)
  BY <1>2, <1>3 DEF Rows
<1>5. Once(z)
  <2>1. Rows(m) \subseteq 1..n
    BY <1>3 DEF Rows
  <2> QED
    BY <1>2, <1>3, <1>4, <2>1 DEF Once
<1>6. Cardinality(Rows(z)) = Cardinality(Rows(m)) + 1
  BY <1>4, RowsFinite, FS_AddElement
<1> QED
  BY <1>3, <1>4, <1>5, <1>6

\* A member leaves.
LEMMA RowsRemoved ==
  ASSUME NEW m \in Seq(Members), Once(m), NEW r \in Rows(m), NEW z,
         z = [m EXCEPT ![r].active = FALSE]
  PROVE  /\ z \in Seq(Members) /\ Once(z) /\ DOMAIN m \subseteq DOMAIN z
         /\ Rows(z) \subseteq Rows(m) /\ Rows(z) # Rows(m)
         /\ Cardinality(Rows(z)) = Cardinality(Rows(m)) - 1
<1>1. PICK n \in Nat : n = Len(m) /\ DOMAIN m = 1..n
  OBVIOUS
<1>2. r \in 1..n /\ m[r] \in Members
  BY <1>1 DEF Rows
<1>3. PICK x : x = [m[r] EXCEPT !.active = FALSE]
  OBVIOUS
<1>4. x \in Members /\ x.active = FALSE /\ x.customer = m[r].customer
  BY <1>2, <1>3 DEF Members
<1>5. z = [m EXCEPT ![r] = x]
  BY <1>3
<1>6. /\ z \in Seq(Members) /\ DOMAIN z = 1..n /\ z[r] = x
      /\ \A i \in 1..n : i # r => z[i] = m[i]
  <2>1. m \in [1..n -> Members]
    BY <1>1
  <2>2. z \in [1..n -> Members]
    BY <1>2, <1>4, <1>5, <2>1
  <2>3. z \in Seq(Members)
    BY <2>2
  <2> QED
    BY <1>1, <1>2, <1>5, <2>2, <2>3
<1>7. Rows(z) = Rows(m) \ {r}
  BY <1>1, <1>2, <1>4, <1>6 DEF Rows
<1>8. Once(z)
  BY <1>1, <1>6, <1>7 DEF Once, Rows
<1>9. Cardinality(Rows(z)) = Cardinality(Rows(m)) - 1
  BY <1>7, RowsFinite, FS_RemoveElement, ZenonT(60)
<1> QED
  BY <1>1, <1>6, <1>7, <1>8, <1>9

\* The row of a new member is written.
LEMMA AddMemberStep ==
  ASSUME GroupInv, NEW p \in Clerks, AddMember(p)
  PROVE  GroupInv' /\ MembershipKept
<1>1. /\ call[p].op = "add" /\ call[p].pc = "checked" /\ End(p)
      /\ members' = Append(members, Member(call[p].customer))
      /\ UNCHANGED <<group, loans, books, posted, singles, stored>>
  BY DEF AddMember
<1>2. MembersTyped /\ CallsTyped /\ ActiveOnce /\ MemberHolds(p)
  BY DEF GroupInv, GroupTyped
<1>3. PICK c : c = call[p].customer
  OBVIOUS
<1>4. c \in People
  <2>1. IsCall(call[p])
    BY <1>2 DEF CallsTyped
  <2> QED
    BY <1>1, <1>3, <2>1 DEF IsCall, NoRequest, People
<1>5. /\ lock["group"] = p
      /\ c \notin ActiveCustomers /\ Cardinality(ActiveRows) < MAX_GROUP_SIZE
  BY <1>1, <1>2, <1>3 DEF MemberHolds
<1>6. members \in Seq(Members) /\ Once(members) /\ ActiveRows = Rows(members)
  BY <1>2 DEF MembersTyped, Members, Once, ActiveOnce, Rows, ActiveRows
<1>7. \A i \in Rows(members) : members[i].customer # c
  BY <1>5, <1>6 DEF ActiveCustomers
<1>8. /\ members' \in Seq(Members) /\ Once(members') /\ DOMAIN members \subseteq DOMAIN members'
      /\ Rows(members) \subseteq Rows(members') /\ Rows(members') # Rows(members)
      /\ Cardinality(Rows(members')) = Cardinality(Rows(members)) + 1
  BY <1>1, <1>3, <1>4, <1>6, <1>7, RowsAdded, ZenonT(60)
<1>9. IsFiniteSet(Rows(members)) /\ Cardinality(Rows(members)) \in Nat
  BY <1>6, RowsFinite
<1>10. Cardinality(Rows(members')) <= MAX_GROUP_SIZE
  BY <1>5, <1>6, <1>8, <1>9, GroupsAssumption
<1>11. MembersTyped' /\ ActiveOnce'
  BY <1>8 DEF MembersTyped, Members, ActiveOnce, Once, Rows, ActiveRows
<1>12. GroupInv'
  BY <1>1, <1>5, <1>8, <1>11, MemberStep
<1>13. MembershipKept
  BY <1>8, <1>9, <1>10, <1>11, KeptByCount
<1> QED
  BY <1>12, <1>13

\* The row of a member who leaves is written.
LEMMA RemoveMemberStep ==
  ASSUME GroupInv, NEW p \in Clerks, RemoveMember(p)
  PROVE  GroupInv' /\ MembershipKept
<1>1. /\ call[p].op = "remove" /\ call[p].pc = "checked" /\ End(p)
      /\ members' = [members EXCEPT ![call[p].row].active = FALSE]
      /\ UNCHANGED <<group, loans, books, posted, singles, stored>>
  BY DEF RemoveMember
<1>2. MembersTyped /\ CallsTyped /\ ActiveOnce /\ MemberHolds(p)
  BY DEF GroupInv, GroupTyped
<1>3. PICK r : r = call[p].row
  OBVIOUS
<1>4. /\ lock["group"] = p /\ r \in DOMAIN members /\ members[r].active
      /\ Cardinality(ActiveRows) > MIN_GROUP_SIZE
  BY <1>1, <1>2, <1>3 DEF MemberHolds
<1>5. members \in Seq(Members) /\ Once(members) /\ ActiveRows = Rows(members) /\ r \in Rows(members)
  BY <1>2, <1>4 DEF MembersTyped, Members, Once, ActiveOnce, Rows, ActiveRows
<1>6. /\ members' \in Seq(Members) /\ Once(members') /\ DOMAIN members \subseteq DOMAIN members'
      /\ Rows(members') \subseteq Rows(members) /\ Rows(members') # Rows(members)
      /\ Cardinality(Rows(members')) = Cardinality(Rows(members)) - 1
  <2>1. members' = [members EXCEPT ![r].active = FALSE]
    BY <1>1, <1>3
  <2> QED
    BY <1>5, <2>1, RowsRemoved, ZenonT(60)
<1>7. IsFiniteSet(Rows(members)) /\ Cardinality(Rows(members)) \in Nat
  BY <1>5, RowsFinite
<1>8. Cardinality(Rows(members')) >= MIN_GROUP_SIZE
  BY <1>4, <1>5, <1>6, <1>7, GroupsAssumption
<1>9. MembersTyped' /\ ActiveOnce'
  BY <1>6 DEF MembersTyped, Members, ActiveOnce, Once, Rows, ActiveRows
<1>10. GroupInv'
  BY <1>1, <1>4, <1>6, <1>9, MemberStep
<1>11. MembershipKept
  BY <1>6, <1>7, <1>8, <1>9, KeptByCount
<1> QED
  BY <1>10, <1>11

(* What is posted, of the values *)

KeyRows(s, k) == {s[i] : i \in {j \in DOMAIN s : s[j].key = k}}
BookRows(b) == {Row(b.key, b.parts[i]) : i \in DOMAIN b.parts}

Summed(bs, s) ==
  /\ \A b \in bs : KeyRows(s, b.key) = BookRows(b) /\ Under(s, b.key) = InAll(b.parts)
  /\ \A i \in DOMAIN s : \E b \in bs : b.key = s[i].key

WholeOf(bs, s, sg, st, ln) ==
  /\ Summed(bs, s)
  /\ \A b1, b2 \in bs : b1.key = b2.key => b1 = b2
  /\ {b.key : b \in bs} = st
  /\ \A l \in Loans : ln[l].owes = ln[l].began - sg[l] - From(s, l)

\* GroupCollectionsWhole as a fact about the values of its variables.
LEMMA WholeIs ==
  GroupCollectionsWhole <=> WholeOf(books, posted, singles, stored, loans)
<1>1. \A b : /\ KeyRows(posted, b.key) = {posted[i] : i \in RowsOfKey(b.key)}
             /\ BookRows(b) = {Row(b.key, b.parts[i]) : i \in DOMAIN b.parts}
             /\ Under(posted, b.key) = CollectedUnder(b.key)
  BY DEF KeyRows, BookRows, RowsOfKey, Under, CollectedUnder
<1>2. \A l : From(posted, l) = CollectedFrom(l)
  BY DEF From, CollectedFrom
<1> QED
  BY <1>1, <1>2 DEF WholeOf, Summed, GroupCollectionsWhole

\* The same of the next state.
LEMMA WholeIsThen ==
  GroupCollectionsWhole' <=> WholeOf(books', posted', singles', stored', loans')
<1>1. \A b : /\ KeyRows(posted', b.key) = {posted'[i] : i \in RowsOfKey(b.key)'}
             /\ BookRows(b) = {Row(b.key, b.parts[i]) : i \in DOMAIN b.parts}
             /\ Under(posted', b.key) = CollectedUnder(b.key)'
  BY DEF KeyRows, BookRows, RowsOfKey, Under, CollectedUnder
<1>2. \A l : From(posted', l) = CollectedFrom(l)'
  BY DEF From, CollectedFrom
<1> QED
  BY <1>1, <1>2 DEF WholeOf, Summed, GroupCollectionsWhole

OneEach(ps) == \A i, j \in DOMAIN ps : ps[i].loan = ps[j].loan => i = j
Booked(rs, k, ps) == rs = [i \in DOMAIN ps |-> Row(k, ps[i])]

\* The payments of one group collection, which names each loan once.
LEMMA BookedRows ==
  ASSUME NEW k \in RequestKeys, NEW ps \in Seq(Part), NEW rs, Booked(rs, k, ps), OneEach(ps)
  PROVE  /\ rs \in Seq(Posted) /\ DOMAIN rs = DOMAIN ps
         /\ \A i \in DOMAIN ps : rs[i].key = k /\ rs[i].loan = ps[i].loan
         /\ KeyRows(rs, k) = {Row(k, ps[i]) : i \in DOMAIN ps}
         /\ Under(rs, k) = InAll(ps)
         /\ \A i \in DOMAIN ps : From(rs, ps[i].loan) = ps[i].amount
<1>1. PICK n \in Nat : n = Len(ps) /\ DOMAIN ps = 1..n /\ \A i \in 1..n : ps[i] \in Part
  OBVIOUS
<1>2. \A i \in 1..n : /\ rs[i] \in Posted /\ rs[i].key = k /\ rs[i].loan = ps[i].loan
                      /\ rs[i].amount = ps[i].amount /\ rs[i] = Row(k, ps[i])
  BY <1>1 DEF Row, Part, Posted, Booked
<1>3. rs \in Seq(Posted) /\ DOMAIN rs = 1..n /\ Len(rs) = n
  <2>1. rs \in [1..n -> Posted]
    BY <1>1, <1>2 DEF Booked
  <2> QED
    BY <2>1
<1>4. KeyRows(rs, k) = {Row(k, ps[i]) : i \in DOMAIN ps}
  BY <1>1, <1>2, <1>3 DEF KeyRows
<1>5. Under(rs, k) = InAll(ps)
  <2>1. [i \in DOMAIN rs |-> IF rs[i].key = k THEN rs[i].amount ELSE 0]
          = [i \in DOMAIN ps |-> ps[i].amount]
    BY <1>1, <1>2, <1>3
  <2> QED
    BY <1>1, <1>3, <2>1 DEF Under, InAll
<1>6. ASSUME NEW i \in DOMAIN ps PROVE From(rs, ps[i].loan) = ps[i].amount
  <2>1. i \in DOMAIN rs /\ rs[i].loan = ps[i].loan /\ rs[i].amount = ps[i].amount
    BY <1>1, <1>2, <1>3
  <2>2. \A j \in DOMAIN rs : rs[j].loan = rs[i].loan => j = i
    BY <1>1, <1>2, <1>3, <2>1 DEF OneEach
  <2>3. From(rs, rs[i].loan) = rs[i].amount
    BY <1>3, <2>1, <2>2, FromOne
  <2> QED
    BY <2>1, <2>3
<1> QED
  BY <1>1, <1>2, <1>3, <1>4, <1>5, <1>6

\* The payments under a key over two sequences.
LEMMA KeyRowsMore ==
  ASSUME NEW a \in Seq(Posted), NEW b \in Seq(Posted), NEW z, Chain(z, a, b), NEW k
  PROVE  KeyRows(z, k) = KeyRows(a, k) \union KeyRows(b, k)
<1>1. PICK n, m : n = Len(a) /\ m = Len(b)
  OBVIOUS
<1>2. /\ n \in Nat /\ m \in Nat
      /\ DOMAIN a = 1..n /\ DOMAIN b = 1..m /\ DOMAIN z = 1..(n + m)
      /\ \A i \in 1..n : z[i] = a[i]
      /\ \A i \in 1..m : z[n + i] = b[i]
  BY <1>1, PostedMore
<1>3. ASSUME NEW x \in KeyRows(z, k) PROVE x \in KeyRows(a, k) \union KeyRows(b, k)
  <2>1. PICK i \in 1..(n + m) : x = z[i] /\ z[i].key = k
    BY <1>2, <1>3 DEF KeyRows
  <2>2. CASE i <= n
    <3>1. i \in 1..n /\ x = a[i]
      BY <1>2, <2>1, <2>2
    <3> QED
      BY <1>2, <2>1, <3>1 DEF KeyRows
  <2>3. CASE i > n
    <3>1. PICK j \in 1..m : i = n + j
      <4>1. i - n \in 1..m /\ i = n + (i - n)
        BY <1>2, <2>1, <2>3
      <4> QED
        BY <4>1
    <3>2. x = b[j]
      BY <1>2, <2>1, <3>1
    <3> QED
      BY <1>2, <2>1, <3>2 DEF KeyRows
  <2> QED
    BY <1>2, <2>2, <2>3
<1>4. ASSUME NEW x \in KeyRows(a, k) PROVE x \in KeyRows(z, k)
  <2>1. PICK i \in 1..n : x = a[i] /\ a[i].key = k
    BY <1>2, <1>4 DEF KeyRows
  <2>2. i \in 1..(n + m) /\ z[i] = a[i]
    BY <1>2, <2>1
  <2> QED
    BY <1>2, <2>1, <2>2 DEF KeyRows
<1>5. ASSUME NEW x \in KeyRows(b, k) PROVE x \in KeyRows(z, k)
  <2>1. PICK i \in 1..m : x = b[i] /\ b[i].key = k
    BY <1>2, <1>5 DEF KeyRows
  <2>2. n + i \in 1..(n + m) /\ z[n + i] = b[i]
    BY <1>2, <2>1
  <2> QED
    BY <1>2, <2>1, <2>2 DEF KeyRows
<1> QED
  BY <1>3, <1>4, <1>5

\* Payments and sums over two sequences.
LEMMA SumsMore ==
  ASSUME NEW a \in Seq(Posted), NEW b \in Seq(Posted), NEW z, Chain(z, a, b)
  PROVE  \A j : /\ KeyRows(z, j) = KeyRows(a, j) \union KeyRows(b, j)
                /\ Under(z, j) = Under(a, j) + Under(b, j)
                /\ From(z, j) = From(a, j) + From(b, j)
                /\ Under(a, j) \in Int /\ From(a, j) \in Int
                /\ Under(b, j) \in Int /\ From(b, j) \in Int
<1> SUFFICES ASSUME NEW j
             PROVE /\ KeyRows(z, j) = KeyRows(a, j) \union KeyRows(b, j)
                   /\ Under(z, j) = Under(a, j) + Under(b, j)
                   /\ From(z, j) = From(a, j) + From(b, j)
                   /\ Under(a, j) \in Int /\ From(a, j) \in Int
                   /\ Under(b, j) \in Int /\ From(b, j) \in Int
  OBVIOUS
<1>1. KeyRows(z, j) = KeyRows(a, j) \union KeyRows(b, j)
  BY KeyRowsMore
<1>2. Under(z, j) = Under(a, j) + Under(b, j)
  BY UnderMore
<1>3. From(z, j) = From(a, j) + From(b, j)
  BY FromMore
<1> QED
  BY <1>1, <1>2, <1>3, SumsTyped

\* No payment and no sum under a key that was not used.
LEMMA NoRows ==
  ASSUME NEW s \in Seq(Posted), NEW k, \A i \in DOMAIN s : s[i].key # k
  PROVE  KeyRows(s, k) = {} /\ Under(s, k) = 0
BY UnderNone DEF KeyRows

\* A new collection adds nothing to an older book.
LEMMA OldBook ==
  ASSUME NEW a \in Seq(Posted), NEW b \in Seq(Posted), NEW z, Chain(z, a, b), NEW k,
         \A i \in DOMAIN b : b[i].key # k
  PROVE  KeyRows(z, k) = KeyRows(a, k) /\ Under(z, k) = Under(a, k)
<1>1. KeyRows(b, k) = {} /\ Under(b, k) = 0
  BY NoRows
<1>2. /\ KeyRows(z, k) = KeyRows(a, k) \union KeyRows(b, k)
      /\ Under(z, k) = Under(a, k) + Under(b, k)
      /\ Under(a, k) \in Int /\ Under(b, k) \in Int
  BY KeyRowsMore, UnderMore, SumsTyped
<1> QED
  BY <1>1, <1>2

\* A new book has the payments of its own collection only.
LEMMA NewBook ==
  ASSUME NEW a \in Seq(Posted), NEW b \in Seq(Posted), NEW z, Chain(z, a, b), NEW k,
         \A i \in DOMAIN a : a[i].key # k
  PROVE  KeyRows(z, k) = KeyRows(b, k) /\ Under(z, k) = Under(b, k)
<1>1. KeyRows(a, k) = {} /\ Under(a, k) = 0
  BY NoRows
<1>2. /\ KeyRows(z, k) = KeyRows(a, k) \union KeyRows(b, k)
      /\ Under(z, k) = Under(a, k) + Under(b, k)
      /\ Under(a, k) \in Int /\ Under(b, k) \in Int
  BY KeyRowsMore, UnderMore, SumsTyped
<1> QED
  BY <1>1, <1>2

\* A payment of the two sequences is one of either.
LEMMA RowsOfBoth ==
  ASSUME NEW a \in Seq(Posted), NEW b \in Seq(Posted), NEW z, Chain(z, a, b)
  PROVE  /\ \A i \in DOMAIN z : (\E j \in DOMAIN a : z[i] = a[j]) \/ (\E j \in DOMAIN b : z[i] = b[j])
<1>1. PICK n, m : n = Len(a) /\ m = Len(b)
  OBVIOUS
<1>2. /\ n \in Nat /\ m \in Nat
      /\ DOMAIN a = 1..n /\ DOMAIN b = 1..m /\ DOMAIN z = 1..(n + m)
      /\ \A i \in 1..n : z[i] = a[i]
      /\ \A i \in 1..m : z[n + i] = b[i]
  BY <1>1, PostedMore
<1> SUFFICES ASSUME NEW i \in 1..(n + m)
             PROVE (\E j \in DOMAIN a : z[i] = a[j]) \/ (\E j \in DOMAIN b : z[i] = b[j])
  BY <1>2
<1>3. CASE i <= n
  <2>1. i \in 1..n
    BY <1>2, <1>3
  <2> QED
    BY <1>2, <2>1
<1>4. CASE i > n
  <2>1. i - n \in 1..m /\ i = n + (i - n)
    BY <1>2, <1>4
  <2> QED
    BY <1>2, <2>1
<1> QED
  BY <1>2, <1>3, <1>4

\* The books after a group collection.
Unbooked(bs, k) == \A b \in bs : b.key # k
IsBook(b, k, ps) == b.key = k /\ b.parts = ps

\* Every book, old or new, has its payments and its sum.
LEMMA KeysBooked ==
  ASSUME NEW bs, NEW s \in Seq(Posted), Summed(bs, s),
         NEW k \in RequestKeys, NEW ps \in Seq(Part), OneEach(ps), Unbooked(bs, k),
         NEW rs, Booked(rs, k, ps),
         NEW z, Chain(z, s, rs), NEW new, IsBook(new, k, ps)
  PROVE  Summed(bs \union {new}, z)
<1>1. /\ rs \in Seq(Posted) /\ DOMAIN rs = DOMAIN ps
      /\ \A i \in DOMAIN rs : rs[i].key = k
      /\ KeyRows(rs, k) = {Row(k, ps[i]) : i \in DOMAIN ps}
      /\ Under(rs, k) = InAll(ps)
  BY BookedRows
<1>2. /\ \A b \in bs : KeyRows(s, b.key) = BookRows(b) /\ Under(s, b.key) = InAll(b.parts)
      /\ \A i \in DOMAIN s : \E b \in bs : b.key = s[i].key
  BY DEF Summed
<1>0. new.key = k /\ new.parts = ps /\ \A b \in bs : b.key # k
  BY DEF IsBook, Unbooked
<1>3. ASSUME NEW b \in bs PROVE KeyRows(z, b.key) = BookRows(b) /\ Under(z, b.key) = InAll(b.parts)
  <2>1. PICK j : j = b.key /\ j # k
    BY <1>0
  <2>2. \A i \in DOMAIN rs : rs[i].key # j
    BY <1>1, <2>1
  <2>3. KeyRows(z, j) = KeyRows(s, j) /\ Under(z, j) = Under(s, j)
    BY <1>1, <2>2, OldBook
  <2> QED
    BY <1>2, <2>1, <2>3
<1>4. KeyRows(z, k) = BookRows(new) /\ Under(z, k) = InAll(ps)
  <2>1. \A i \in DOMAIN s : s[i].key # k
    BY <1>0, <1>2
  <2>2. KeyRows(z, k) = KeyRows(rs, k) /\ Under(z, k) = Under(rs, k)
    BY <1>1, <2>1, NewBook
  <2>3. BookRows(new) = {Row(k, ps[i]) : i \in DOMAIN ps}
    BY <1>0 DEF BookRows
  <2> QED
    BY <1>1, <2>2, <2>3
<1>5. ASSUME NEW i \in DOMAIN z PROVE \E b \in bs \union {new} : b.key = z[i].key
  <2>1. (\E j \in DOMAIN s : z[i] = s[j]) \/ (\E j \in DOMAIN rs : z[i] = rs[j])
    BY <1>1, RowsOfBoth
  <2> QED
    BY <1>0, <1>1, <1>2, <2>1
<1> QED
  BY <1>0, <1>3, <1>4, <1>5 DEF Summed

\* What a loan owes falls by its own part of the collection.
LEMMA OwedBooked ==
  ASSUME NEW s \in Seq(Posted), NEW k \in RequestKeys, NEW ps \in Seq(Part), OneEach(ps),
         NEW rs, Booked(rs, k, ps), NEW z, Chain(z, s, rs), NEW l
  PROVE  /\ (\A i \in DOMAIN ps : ps[i].loan # l) => From(z, l) = From(s, l)
         /\ \A i \in DOMAIN ps : ps[i].loan = l => From(z, l) = From(s, l) + ps[i].amount
         /\ From(s, l) \in Int
<1>1. /\ rs \in Seq(Posted) /\ DOMAIN rs = DOMAIN ps
      /\ \A i \in DOMAIN ps : rs[i].loan = ps[i].loan
      /\ \A i \in DOMAIN ps : From(rs, ps[i].loan) = ps[i].amount
  BY BookedRows
<1>2. /\ From(z, l) = From(s, l) + From(rs, l)
      /\ From(s, l) \in Int /\ From(rs, l) \in Int
  BY <1>1, SumsMore
<1>3. ASSUME \A i \in DOMAIN ps : ps[i].loan # l PROVE From(z, l) = From(s, l)
  <2>1. \A i \in DOMAIN rs : rs[i].loan # l
    BY <1>1, <1>3
  <2>2. From(rs, l) = 0
    BY <1>1, <2>1, FromNone
  <2> QED
    BY <1>2, <2>2
<1>4. ASSUME NEW i \in DOMAIN ps, ps[i].loan = l PROVE From(z, l) = From(s, l) + ps[i].amount
  BY <1>1, <1>2, <1>4
<1> QED
  BY <1>2, <1>3, <1>4

(* A group collection commits *)

\* The loans, after the parts of a group collection were taken from them.
Collected(ln, ps, ln2) ==
  /\ ln2 \in [Loans -> [status : {"approved", "active", "closed"}, began : Nat, owes : Nat]]
  /\ \A l \in Loans : ln2[l].status = ln[l].status /\ ln2[l].began = ln[l].began
  /\ \A l \in Loans : (\A i \in DOMAIN ps : ps[i].loan # l) => ln2[l] = ln[l]
  /\ \A i \in DOMAIN ps : /\ ln[ps[i].loan].status = "active"
                          /\ ln2[ps[i].loan].owes = ln[ps[i].loan].owes - ps[i].amount

\* A group collection that is written with all its parts leaves the group whole.
LEMMA WholeBooked ==
  ASSUME LoansTyped, BooksTyped, GroupCollectionsWhole,
         NEW k \in RequestKeys, NEW ps \in Seq(Part), OneEach(ps), \A b \in books : b.key # k,
         Collected(loans, ps, loans'), NEW rs, Booked(rs, k, ps), Chain(posted', posted, rs),
         NEW new, new.key = k, new.parts = ps,
         books' = books \union {new}, stored' = stored \union {k}, singles' = singles
  PROVE  GroupCollectionsWhole'
<1>1. PICK s \in Seq(Posted) : s = posted
  BY DEF BooksTyped, Posted
<1>2. PICK z : z = posted'
  OBVIOUS
<1>3. WholeOf(books, s, singles, stored, loans) /\ Chain(z, s, rs)
  BY <1>1, <1>2, WholeIs
<1>4. /\ \A b1, b2 \in books : b1.key = b2.key => b1 = b2
      /\ {b.key : b \in books} = stored
      /\ \A l \in Loans : loans[l].owes = loans[l].began - singles[l] - From(s, l)
  BY <1>3 DEF WholeOf
<1>5. Summed(books', z)
  <2>1. PICK bs : bs = books
    OBVIOUS
  <2>2. Summed(bs, s) /\ Unbooked(bs, k) /\ IsBook(new, k, ps)
    BY <1>3, <2>1 DEF WholeOf, Unbooked, IsBook
  <2>3. Summed(bs \union {new}, z)
    BY <1>3, <2>2, KeysBooked
  <2> QED
    BY <2>1, <2>3
<1>6. /\ \A b1, b2 \in books' : b1.key = b2.key => b1 = b2
      /\ {b.key : b \in books'} = stored'
  BY <1>4
<1>7. ASSUME NEW l \in Loans
      PROVE  loans'[l].owes = loans'[l].began - singles[l] - From(z, l)
  <2>1. /\ (\A i \in DOMAIN ps : ps[i].loan # l) => From(z, l) = From(s, l)
        /\ \A i \in DOMAIN ps : ps[i].loan = l => From(z, l) = From(s, l) + ps[i].amount
        /\ From(s, l) \in Int
    BY <1>3, OwedBooked
  <2>2. /\ loans[l].owes = loans[l].began - singles[l] - From(s, l)
        /\ loans'[l].began = loans[l].began
        /\ loans[l].began \in Nat /\ loans[l].owes \in Nat /\ singles[l] \in Nat
    BY <1>4 DEF LoansTyped, BooksTyped, Collected
  <2>3. CASE \E i \in DOMAIN ps : ps[i].loan = l
    <3>1. PICK i \in DOMAIN ps : ps[i].loan = l
      BY <2>3
    <3>2. PICK x \in Nat : x = ps[i].amount
      <4>1. ps[i] \in Part
        OBVIOUS
      <4> QED
        BY <4>1 DEF Part
    <3>3. From(z, l) = From(s, l) + x /\ loans'[l].owes = loans[l].owes - x
      BY <2>1, <3>1, <3>2 DEF Collected
    <3> QED
      BY <2>1, <2>2, <3>3
  <2>4. CASE \A i \in DOMAIN ps : ps[i].loan # l
    <3>1. From(z, l) = From(s, l) /\ loans'[l] = loans[l]
      BY <2>1, <2>4 DEF Collected
    <3> QED
      BY <2>2, <3>1
  <2> QED
    BY <2>3, <2>4
<1>8. WholeOf(books', z, singles, stored', loans')
  BY <1>5, <1>6, <1>7 DEF WholeOf
<1> QED
  BY <1>2, <1>8, WholeIsThen

\* The transaction of a group collection commits.
LEMMA CommitCollectStep ==
  ASSUME GroupInv, NEW p \in Clerks, CommitCollect(p)
  PROVE  GroupInv' /\ MembershipKept
<1>1. PICK k, ps, n, a :
        k = call[p].key /\ ps = call[p].parts /\ n = call[p].next /\ a = call[p].after
  OBVIOUS
<1>2. PICK new : new = [key |-> k, parts |-> ps]
  OBVIOUS
<1>3. PICK rs : Booked(rs, k, ps) /\ rs = [i \in DOMAIN ps |-> Row(k, ps[i])]
  BY DEF Booked
<1>4. /\ call[p].op = "collect" /\ call[p].pc = "posting" /\ n = Len(ps) + 1
      /\ books' = books \union {new} /\ posted' = posted \o rs /\ stored' = stored \union {k}
      /\ loans' = [l \in Loans |-> IF l \in DOMAIN a THEN [loans[l] EXCEPT !.owes = a[l]] ELSE loans[l]]
      /\ End(p) /\ UNCHANGED <<group, members, singles>>
  BY <1>1, <1>2, <1>3 DEF CommitCollect
<1>5. /\ CallsTyped /\ LoansTyped /\ BooksTyped /\ MembersTyped /\ GroupTyped
      /\ GroupCollectionsWhole /\ group # "none" /\ CollectHolds(p)
  BY <1>4, GroupThere DEF GroupInv, GroupTyped
<1>6. /\ k \in RequestKeys /\ ps \in Breakdowns /\ ps \in Seq(Part) /\ Len(ps) \in Nat /\ DOMAIN ps = 1..Len(ps)
      /\ \A i \in DOMAIN ps : ps[i] \in Part /\ ps[i].loan \in Loans /\ ps[i].amount \in Nat
  <2>1. /\ k \in RequestKeys /\ ps \in Breakdowns /\ ps \in Seq(Part) /\ Len(ps) \in Nat /\ DOMAIN ps = 1..Len(ps)
        /\ \A i \in 1..Len(ps) : ps[i] \in Part /\ ps[i].loan \in Loans /\ ps[i].amount \in Nat
    BY <1>1, <1>4, <1>5, CollectTyped
  <2> QED
    BY <2>1
<1>7. /\ DOMAIN a = {ps[i].loan : i \in DOMAIN ps} /\ OneEach(ps)
      /\ \A i \in DOMAIN ps : PartHeld(p, ps[i], a)
      /\ lock[k] = p /\ \A b \in books : b.key # k
  <2>1. n - 1 = Len(ps)
    BY <1>4, <1>6
  <2>2. /\ DOMAIN a = {ps[i].loan : i \in 1..(n - 1)}
        /\ \A i, j \in 1..(n - 1) : ps[i].loan = ps[j].loan => i = j
        /\ \A i \in 1..(n - 1) : PartHeld(p, ps[i], a)
        /\ lock[k] = p /\ \A b \in books : b.key # k
    BY <1>1, <1>4, <1>5 DEF CollectHolds
  <2> QED
    BY <1>6, <2>1, <2>2 DEF OneEach
<1>8. \A i \in DOMAIN ps :
        /\ lock[ps[i].loan] = p /\ loans[ps[i].loan].status = "active"
        /\ a[ps[i].loan] = loans[ps[i].loan].owes - ps[i].amount
        /\ a[ps[i].loan] \in Nat
  <2>1. ASSUME NEW i \in DOMAIN ps
        PROVE  /\ lock[ps[i].loan] = p /\ loans[ps[i].loan].status = "active"
               /\ a[ps[i].loan] = loans[ps[i].loan].owes - ps[i].amount
               /\ ps[i].amount <= loans[ps[i].loan].owes
    BY <1>7 DEF PartHeld
  <2>2. ASSUME NEW i \in DOMAIN ps PROVE a[ps[i].loan] \in Nat
    <3>1. PICK x \in Nat, y \in Nat : x = ps[i].amount /\ y = loans[ps[i].loan].owes
      BY <1>5, <1>6 DEF LoansTyped
    <3>2. a[ps[i].loan] = y - x /\ x <= y
      BY <2>1, <3>1
    <3> QED
      BY <3>1, <3>2
  <2> QED
    BY <2>1, <2>2
<1>9. Collected(loans, ps, loans')
  <2>1. \A l \in Loans : l \in DOMAIN a =>
          /\ loans'[l] = [loans[l] EXCEPT !.owes = a[l]] /\ a[l] \in Nat
          /\ loans'[l].owes = a[l] /\ loans'[l].status = loans[l].status /\ loans'[l].began = loans[l].began
          /\ loans'[l] \in [status : {"approved", "active", "closed"}, began : Nat, owes : Nat]
    <3> SUFFICES ASSUME NEW l \in Loans, l \in DOMAIN a
                 PROVE /\ loans'[l] = [loans[l] EXCEPT !.owes = a[l]] /\ a[l] \in Nat
                       /\ loans'[l].owes = a[l] /\ loans'[l].status = loans[l].status /\ loans'[l].began = loans[l].began
                       /\ loans'[l] \in [status : {"approved", "active", "closed"}, began : Nat, owes : Nat]
      OBVIOUS
    <3>1. loans'[l] = [loans[l] EXCEPT !.owes = a[l]]
      BY <1>4
    <3>2. PICK x \in Nat : x = a[l]
      BY <1>7, <1>8
    <3>3. PICK r \in [status : {"approved", "active", "closed"}, began : Nat, owes : Nat] : r = loans[l]
      BY <1>5 DEF LoansTyped
    <3>4. loans'[l] = [r EXCEPT !.owes = x]
      BY <3>1, <3>2, <3>3
    <3> QED
      BY <3>1, <3>2, <3>3, <3>4
  <2>2. \A l \in Loans : l \notin DOMAIN a => loans'[l] = loans[l]
    BY <1>4
  <2>3. loans' \in [Loans -> [status : {"approved", "active", "closed"}, began : Nat, owes : Nat]]
    <3>1. loans' = [l \in Loans |-> loans'[l]]
      BY <1>4
    <3>2. \A l \in Loans : loans'[l] \in [status : {"approved", "active", "closed"}, began : Nat, owes : Nat]
      BY <1>5, <2>1, <2>2 DEF LoansTyped
    <3> QED
      BY <3>1, <3>2
  <2>4. \A l \in Loans : loans'[l].status = loans[l].status /\ loans'[l].began = loans[l].began
    BY <2>1, <2>2
  <2>5. \A l \in Loans : (\A i \in DOMAIN ps : ps[i].loan # l) => loans'[l] = loans[l]
    BY <1>7, <2>2
  <2>6. \A i \in DOMAIN ps : /\ loans[ps[i].loan].status = "active"
                             /\ loans'[ps[i].loan].owes = loans[ps[i].loan].owes - ps[i].amount
    BY <1>6, <1>7, <1>8, <2>1, ZenonT(60)
  <2> QED
    BY <2>3, <2>4, <2>5, <2>6 DEF Collected
<1>10. Chain(posted', posted, rs) /\ new.key = k /\ new.parts = ps
  BY <1>2, <1>4 DEF Chain
<1>11. GroupCollectionsWhole'
  BY <1>3, <1>4, <1>5, <1>6, <1>7, <1>9, <1>10, WholeBooked
<1>12. MembersTyped' /\ ActiveOnce' /\ MembershipKept
  BY <1>4, <1>5, MembersStay DEF GroupInv
<1>13. LoansTyped' /\ BooksTyped'
  <2>1. LoansTyped'
    BY <1>9 DEF LoansTyped, Collected
  <2>2. posted \in Seq(Posted) /\ rs \in Seq(Posted)
    BY <1>3, <1>5, <1>6, <1>7, BookedRows DEF BooksTyped, Posted
  <2>3. posted' \in Seq(Posted)
    BY <1>10, <2>2, PostedMore
  <2>4. books' \subseteq [key : RequestKeys, parts : Breakdowns]
    BY <1>2, <1>4, <1>5, <1>6 DEF BooksTyped
  <2> QED
    BY <1>4, <1>5, <2>1, <2>3, <2>4 DEF BooksTyped, Posted
<1>14. NotYet'
  <2>0. /\ posted \in Seq(Posted) /\ rs \in Seq(Posted) /\ DOMAIN rs = DOMAIN ps
        /\ \A i \in DOMAIN ps : rs[i].key = k /\ rs[i].loan = ps[i].loan
    <3>1. posted \in Seq(Posted)
      BY <1>5 DEF BooksTyped, Posted
    <3>2. Booked(rs, k, ps) /\ k \in RequestKeys /\ ps \in Seq(Part) /\ OneEach(ps)
      BY <1>3, <1>6, <1>7
    <3>3. /\ rs \in Seq(Posted) /\ DOMAIN rs = DOMAIN ps
          /\ \A i \in DOMAIN ps : rs[i].key = k /\ rs[i].loan = ps[i].loan
      BY <3>2, BookedRows
    <3> QED
      BY <3>1, <3>3
  <2>1. \A l \in Loans : loans'[l].status = "approved" =>
          singles'[l] = 0 /\ \A i \in DOMAIN posted' : posted'[i].loan # l
    <3> SUFFICES ASSUME NEW l \in Loans, loans'[l].status = "approved"
                 PROVE singles'[l] = 0 /\ \A i \in DOMAIN posted' : posted'[i].loan # l
      OBVIOUS
    <3>1. loans[l].status = "approved"
      BY <1>9 DEF Collected
    <3>2. singles[l] = 0 /\ \A i \in DOMAIN posted : posted[i].loan # l
      BY <3>1 DEF GroupInv, NotYet
    <3>3. /\ posted \in Seq(Posted) /\ rs \in Seq(Posted) /\ DOMAIN rs = DOMAIN ps
          /\ \A i \in DOMAIN ps : rs[i].loan = ps[i].loan
      BY <2>0
    <3>4. \A i \in DOMAIN rs : rs[i].loan # l
      BY <1>8, <3>1, <3>3
    <3>5. \A i \in DOMAIN posted' : (\E j \in DOMAIN posted : posted'[i] = posted[j]) \/ (\E j \in DOMAIN rs : posted'[i] = rs[j])
      BY <1>10, <3>3, RowsOfBoth
    <3> QED
      BY <1>4, <3>2, <3>4, <3>5
  <2>2. group' # "none"
    BY <1>4, <1>5
  <2> QED
    BY <2>1, <2>2 DEF NotYet
<1>15. /\ CallsTyped' /\ call'[p] = NoRequest /\ \A q \in Clerks : q # p => call'[q] = call[q]
       /\ CollectHolds(p)' /\ MemberHolds(p)'
       /\ \A r \in DOMAIN lock, q \in Clerks : q # p /\ lock[r] = q => lock'[r] = q
  BY <1>4, <1>5, EndsKeep
<1>16. ASSUME NEW q \in Clerks, q # p PROVE CollectHolds(q)' /\ MemberHolds(q)'
  <2>1. GroupTyped /\ CollectHolds(q) /\ MemberHolds(q)
    BY DEF GroupInv
  <2>2. call'[q] = call[q] /\ \A r \in DOMAIN lock : lock[r] = q => lock'[r] = q
    BY <1>15, <1>16
  <2>3. \A l \in Loans : lock[l] = q /\ loans[l].status = "active" => loans'[l] = loans[l]
    <3> SUFFICES ASSUME NEW l \in Loans, lock[l] = q PROVE loans'[l] = loans[l]
      OBVIOUS
    <3>1. l \notin DOMAIN a
      BY <1>7, <1>8, <1>16
    <3> QED
      BY <1>4, <3>1
  <2>4. members' = members /\ DOMAIN members \subseteq DOMAIN members'
    BY <1>4
  <2>5. \A b \in books' : b \in books \/ lock[b.key] # q
    BY <1>4, <1>7, <1>10, <1>16
  <2> QED
    BY <2>1, <2>2, <2>3, <2>4, <2>5, CallSurvives
<1> QED
  BY <1>11, <1>12, <1>13, <1>14, <1>15, <1>16 DEF GroupInv, GroupTyped

(* What else happens to the loans *)

Loan == [status : {"approved", "active", "closed"}, began : Nat, owes : Nat]

\* A step that changes one loan outside of a group collection.
LEMMA LoanStep ==
  ASSUME GroupInv, group # "none",
         UNCHANGED <<group, members, books, posted, stored, lock, call>>,
         NEW l \in Loans, NEW r \in Loan, NEW x \in Nat,
         loans' = [loans EXCEPT ![l] = r], singles' = [singles EXCEPT ![l] = x],
         r.owes = r.began - x - From(posted, l),
         Free(l) \/ loans[l].status # "active",
         r.status # "approved"
  PROVE  GroupInv' /\ MembershipKept
<1>1. /\ LoansTyped /\ BooksTyped /\ CallsTyped /\ MembersTyped /\ GroupTyped
      /\ ActiveOnce /\ GroupCollectionsWhole
  BY DEF GroupInv, GroupTyped
<1>2. /\ loans \in [Loans -> Loan] /\ singles \in [Loans -> Nat]
      /\ loans'[l] = r /\ singles'[l] = x
      /\ \A k \in Loans : k # l => loans'[k] = loans[k] /\ singles'[k] = singles[k]
      /\ loans' \in [Loans -> Loan] /\ singles' \in [Loans -> Nat]
  BY <1>1 DEF LoansTyped, BooksTyped, Loan
<1>3. GroupCollectionsWhole'
  <2>1. /\ Summed(books, posted)
        /\ \A b1, b2 \in books : b1.key = b2.key => b1 = b2
        /\ {b.key : b \in books} = stored
        /\ \A k \in Loans : loans[k].owes = loans[k].began - singles[k] - From(posted, k)
    BY <1>1, WholeIs DEF WholeOf
  <2>2. PICK s : s = posted /\ s = posted'
    OBVIOUS
  <2>3. \A k \in Loans : loans'[k].owes = loans'[k].began - singles'[k] - From(s, k)
    BY <1>2, <2>1, <2>2
  <2>4. WholeOf(books', posted', singles', stored', loans')
    BY <2>1, <2>2, <2>3 DEF WholeOf
  <2> QED
    BY <2>4, WholeIsThen
<1>4. MembersTyped' /\ ActiveOnce' /\ MembershipKept
  BY <1>1, MembersStay
<1>5. GroupTyped'
  BY <1>1, <1>2, <1>4 DEF GroupTyped, LoansTyped, BooksTyped, CallsTyped, Loan
<1>6. NotYet'
  BY <1>2 DEF GroupInv, NotYet
<1>7. ASSUME NEW q \in Clerks PROVE CollectHolds(q)' /\ MemberHolds(q)'
  <2>1. GroupTyped /\ CollectHolds(q) /\ MemberHolds(q)
    BY DEF GroupInv
  <2>2. call'[q] = call[q] /\ \A k \in DOMAIN lock : lock[k] = q => lock'[k] = q
    OBVIOUS
  <2>3. \A k \in Loans : lock[k] = q /\ loans[k].status = "active" => loans'[k] = loans[k]
    BY <1>2, GroupsAssumption DEF Free
  <2>4. /\ members' = members /\ DOMAIN members \subseteq DOMAIN members'
        /\ \A b \in books' : b \in books \/ lock[b.key] # q
    OBVIOUS
  <2> QED
    BY <2>1, <2>2, <2>3, <2>4, CallSurvives
<1> QED
  BY <1>3, <1>4, <1>5, <1>6, <1>7 DEF GroupInv

\* What a loan is and owes.
LEMMA OwesNow ==
  ASSUME GroupInv, NEW l \in Loans
  PROVE  /\ loans[l] \in Loan /\ loans[l].owes \in Nat /\ loans[l].began \in Nat
         /\ loans[l].status \in {"approved", "active", "closed"}
         /\ loans[l] = [status |-> loans[l].status, began |-> loans[l].began, owes |-> loans[l].owes]
         /\ singles[l] \in Nat /\ From(posted, l) \in Int
         /\ singles \in [Loans -> Nat] /\ loans \in [Loans -> Loan]
         /\ loans[l].owes = loans[l].began - singles[l] - From(posted, l)
<1>1. /\ loans \in [Loans -> Loan] /\ singles \in [Loans -> Nat] /\ posted \in Seq(Posted)
  BY DEF GroupInv, GroupTyped, LoansTyped, BooksTyped, Loan, Posted
<1>2. From(posted, l) \in Int
  BY <1>1, SumsTyped
<1>3. loans[l].owes = loans[l].began - singles[l] - From(posted, l)
  BY WholeIs DEF GroupInv, WholeOf
<1> QED
  BY <1>1, <1>2, <1>3 DEF Loan

\* A loan of a member is lent.
LEMMA DisburseStep ==
  ASSUME GroupInv, NEW l \in Loans, Disburse(l)
  PROVE  GroupInv' /\ MembershipKept
<1>1. /\ group # "none" /\ loans[l].status = "approved"
      /\ loans' = [loans EXCEPT ![l] = Begun(Lent[l])]
      /\ UNCHANGED <<group, members, books, posted, singles, stored, lock, call>>
  BY DEF Disburse
<1>2. PICK r : r = Begun(Lent[l])
  OBVIOUS
<1>3. r \in Loan /\ r.status = "active" /\ r.owes = Lent[l] /\ r.began = Lent[l] /\ Lent[l] \in Nat
  BY <1>2, GroupsAssumption DEF Begun, Loan
<1>4. singles[l] = 0 /\ \A i \in DOMAIN posted : posted[i].loan # l
  BY <1>1 DEF GroupInv, NotYet
<1>5. posted \in Seq(Posted) /\ singles \in [Loans -> Nat]
  BY DEF GroupInv, GroupTyped, BooksTyped, Posted
<1>6. From(posted, l) = 0
  BY <1>4, <1>5, FromNone
<1>7. singles' = [singles EXCEPT ![l] = 0]
  BY <1>1, <1>4, <1>5
<1>8. r.owes = r.began - 0 - From(posted, l)
  BY <1>3, <1>6
<1> QED
  BY <1>1, <1>2, <1>3, <1>7, <1>8, LoanStep

\* A payment outside of the group's collections.
LEMMA PostSingleStep ==
  ASSUME GroupInv, NEW l \in Loans, NEW amount \in 1..Lent[l], PostSingle(l, amount)
  PROVE  GroupInv' /\ MembershipKept
<1>1. /\ Free(l) /\ loans[l].status = "active" /\ amount \in 1..loans[l].owes
      /\ loans' = [loans EXCEPT ![l].owes = @ - amount]
      /\ singles' = [singles EXCEPT ![l] = @ + amount]
      /\ UNCHANGED <<group, members, books, posted, stored, lock, call>>
  BY DEF PostSingle
<1>2. /\ loans[l].owes \in Nat /\ loans[l].began \in Nat
      /\ loans[l] = [status |-> loans[l].status, began |-> loans[l].began, owes |-> loans[l].owes]
      /\ singles[l] \in Nat /\ From(posted, l) \in Int
      /\ singles \in [Loans -> Nat] /\ loans \in [Loans -> Loan]
      /\ loans[l].owes = loans[l].began - singles[l] - From(posted, l)
  BY OwesNow
<1>3. PICK b, o, x, f : b = loans[l].began /\ o = loans[l].owes /\ x = singles[l] /\ f = From(posted, l)
  OBVIOUS
<1>4. PICK r : r = [status |-> "active", began |-> b, owes |-> o - amount]
  OBVIOUS
<1>5. /\ r \in Loan /\ r.status = "active" /\ r.began = b /\ r.owes = o - amount
      /\ x + amount \in Nat
  BY <1>1, <1>2, <1>3, <1>4 DEF Loan
<1>6. loans' = [loans EXCEPT ![l] = r]
  <2>1. [loans[l] EXCEPT !.owes = o - amount] = r
    <3>1. loans[l] = [status |-> "active", began |-> b, owes |-> o]
      BY <1>1, <1>2, <1>3
    <3> QED
      BY <1>4, <3>1
  <2> QED
    BY <1>1, <1>2, <1>3, <2>1
<1>7. singles' = [singles EXCEPT ![l] = x + amount]
  BY <1>1, <1>2, <1>3
<1>8. r.owes = r.began - (x + amount) - From(posted, l)
  BY <1>1, <1>2, <1>3, <1>5
<1>9. group # "none"
  BY <1>1 DEF GroupInv, NotYet
<1> QED
  BY <1>1, <1>5, <1>6, <1>7, <1>8, <1>9, LoanStep

\* A loan that owes nothing is closed.
LEMMA CloseStep ==
  ASSUME GroupInv, NEW l \in Loans, Close(l)
  PROVE  GroupInv' /\ MembershipKept
<1>1. /\ Free(l) /\ loans[l].status = "active"
      /\ loans' = [loans EXCEPT ![l].status = "closed"]
      /\ UNCHANGED <<group, members, books, posted, singles, stored, lock, call>>
  BY DEF Close
<1>2. /\ loans[l].owes \in Nat /\ loans[l].began \in Nat
      /\ loans[l] = [status |-> loans[l].status, began |-> loans[l].began, owes |-> loans[l].owes]
      /\ singles[l] \in Nat /\ From(posted, l) \in Int
      /\ singles \in [Loans -> Nat] /\ loans \in [Loans -> Loan]
      /\ loans[l].owes = loans[l].began - singles[l] - From(posted, l)
  BY OwesNow
<1>3. PICK b, o, x : b = loans[l].began /\ o = loans[l].owes /\ x = singles[l]
  OBVIOUS
<1>4. PICK r : r = [status |-> "closed", began |-> b, owes |-> o]
  OBVIOUS
<1>5. r \in Loan /\ r.status = "closed" /\ r.began = b /\ r.owes = o
  BY <1>2, <1>3, <1>4 DEF Loan
<1>6. loans' = [loans EXCEPT ![l] = r]
  <2>1. [loans[l] EXCEPT !.status = "closed"] = r
    <3>1. loans[l] = [status |-> "active", began |-> b, owes |-> o]
      BY <1>1, <1>2, <1>3
    <3> QED
      BY <1>4, <3>1
  <2> QED
    BY <1>1, <1>2, <2>1
<1>7. singles' = [singles EXCEPT ![l] = x]
  BY <1>1, <1>2, <1>3
<1>8. r.owes = r.began - x - From(posted, l)
  BY <1>2, <1>3, <1>5
<1>9. group # "none"
  BY <1>1 DEF GroupInv, NotYet
<1>10. x \in Nat
  BY <1>2, <1>3
<1> QED
  BY <1>1, <1>5, <1>6, <1>7, <1>8, <1>9, <1>10, LoanStep

(* A group comes to be *)

LEMMA FirstGroup ==
  ASSUME GroupInv, group = "none", group' # "none",
         UNCHANGED <<books, posted, singles, stored, lock, call>>,
         members' \in Seq(Members), Once(members'), loans' \in [Loans -> Loan],
         \A l \in Loans : loans'[l] = loans[l] \/ loans'[l].owes = loans'[l].began
  PROVE  GroupInv' /\ MembershipKept
<1>1. /\ posted = <<>> /\ books = {} /\ \A l \in Loans : singles[l] = 0
      /\ \A p \in Clerks : call[p] = NoRequest
  BY DEF GroupInv, NotYet
<1>2. MembersTyped' /\ ActiveOnce'
  BY DEF MembersTyped, Members, ActiveOnce, Once, Rows, ActiveRows
<1>3. GroupTyped'
  BY <1>2 DEF GroupInv, GroupTyped, LoansTyped, BooksTyped, CallsTyped, Loan
<1>4. GroupCollectionsWhole'
  <2>1. WholeOf(books, posted, singles, stored, loans)
    BY WholeIs DEF GroupInv
  <2>2. \A l \in Loans : From(posted', l) = 0
    <3>1. posted' \in Seq(Posted) /\ posted' = <<>>
      BY <1>1, <1>3 DEF GroupTyped, BooksTyped, Posted
    <3>2. \A l \in Loans : \A i \in DOMAIN posted' : posted'[i].loan # l
      BY <3>1
    <3> QED
      BY <3>1, <3>2, FromNone
  <2>3. \A l \in Loans : loans'[l].owes = loans'[l].began - singles'[l] - From(posted', l)
    <3> SUFFICES ASSUME NEW l \in Loans
                 PROVE  loans'[l].owes = loans'[l].began - singles'[l] - From(posted', l)
      OBVIOUS
    <3>1. singles'[l] = 0 /\ From(posted', l) = 0 /\ posted' = posted
      BY <1>1, <2>2
    <3>2. loans'[l].owes \in Nat /\ loans'[l].began \in Nat
      BY DEF Loan
    <3>3. CASE loans'[l] = loans[l]
      BY <2>1, <3>1, <3>2, <3>3 DEF WholeOf
    <3>4. CASE loans'[l].owes = loans'[l].began
      BY <3>1, <3>2, <3>4
    <3> QED
      BY <3>3, <3>4
  <2>4. WholeOf(books', posted', singles', stored', loans')
    <3>1. PICK s : s = posted /\ s = posted'
      OBVIOUS
    <3> QED
      BY <2>1, <2>3, <3>1 DEF WholeOf
  <2> QED
    BY <2>4, WholeIsThen
<1>5. NotYet'
  BY <1>1 DEF NotYet
<1>6. \A q \in Clerks : CollectHolds(q)' /\ MemberHolds(q)'
  BY <1>1, IdleHolds
<1>7. MembershipKept
  BY DEF MembershipKept
<1> QED
  BY <1>2, <1>3, <1>4, <1>5, <1>6, <1>7 DEF GroupInv

\* The group is made in the application, with its first member.
LEMMA CreateGroupStep ==
  ASSUME GroupInv, NEW c \in Customers, CreateGroup(c)
  PROVE  GroupInv' /\ MembershipKept
<1>1. /\ group = "none" /\ group' # "none" /\ members' = <<Member(c)>>
      /\ UNCHANGED <<loans, books, posted, singles, stored, lock, call>>
  BY DEF CreateGroup
<1>2. members' \in Seq(Members) /\ Once(members')
  BY <1>1 DEF Members, Member, People, Once, Rows
<1>3. loans' \in [Loans -> Loan] /\ \A l \in Loans : loans'[l] = loans[l]
  BY <1>1 DEF GroupInv, GroupTyped, LoansTyped, Loan
<1> QED
  BY <1>1, <1>2, <1>3, FirstGroup

\* What a commit() has written is a file without errors.
LEMMA CommitWrites ==
  ASSUME MigrationInv, NEW a \in Admins, commit[a].pc = "written"
  PROVE  \E d, f : f \in Files /\ Clean(f) /\ commit[a].written = AllRows(d, f)
<1>1. PICK o : o = commit[a]
  OBVIOUS
<1>2. CommitHolds(o, rows) /\ o.pc = "written"
  BY <1>1 DEF MigrationInv, CommitsApart
<1>3. "written" \in Busy
  BY DEF Busy, Written
<1>4. o.file \in Files /\ Clean(o.file) /\ o.written = AllRows(o.draft, o.file)
  BY <1>2, <1>3, AllDone DEF CommitHolds
<1> QED
  BY <1>1, <1>4

\* A set of the customers of a file, listed once each.
LEMMA InTheList ==
  ASSUME NEW C, IsFiniteSet(C)
  PROVE  /\ Cardinality(C) \in Nat /\ SetToSeq(C) \in [1..Cardinality(C) -> C]
         /\ \A i, j \in 1..Cardinality(C) : SetToSeq(C)[i] = SetToSeq(C)[j] => i = j
<1>1. Cardinality(C) \in Nat
  BY FS_CardinalityType
<1>2. PICK n \in Nat : n = Cardinality(C)
  BY <1>1
<1>3. \E f \in [1..n -> C] : IsInjective(f)
  <2>1. PICK m \in Nat : ExistsBijection(1..m, C)
    BY FS_NatBijection
  <2>2. m = n
    BY <1>2, <2>1, FS_CountingElements
  <2>3. PICK f : f \in Bijection(1..n, C)
    BY <2>1, <2>2 DEF ExistsBijection
  <2> QED
    BY <2>3 DEF Bijection, Injection, IsInjective
<1>4. SetToSeq(C) = CHOOSE f \in [1..n -> C] : IsInjective(f)
  BY <1>2 DEF SetToSeq
<1>5. PICK s : s = SetToSeq(C)
  OBVIOUS
<1>6. s \in [1..n -> C] /\ IsInjective(s)
  BY <1>3, <1>4, <1>5
<1> QED
  BY <1>2, <1>5, <1>6 DEF IsInjective

\* What is left of a schedule is never less than nothing.
LEMMA UnpaidTyped ==
  ASSUME NEW f \in Files, Clean(f), NEW i \in DOMAIN f.loans
  PROVE  Unpaid(Materialised(f.loans[i])) \in Nat
<1>1. PICK l : l = f.loans[i]
  OBVIOUS
<1>2. PICK n \in Nat, p \in Nat, x \in Nat :
        n = l.tenure /\ p = l.principal /\ x = l.interest /\ n >= 1
  <2>1. /\ l.principal \in Int /\ l.interest \in Int /\ l.tenure \in Int
        /\ ~ l.principal < 0 /\ ~ l.interest < 0 /\ ~ l.tenure < 1
    BY <1>1, FileSheets, CleanFile
  <2> QED
    BY <2>1
<1>3. PICK m : m = Materialised(l)
  OBVIOUS
<1>4. m = [k \in 1..n |-> [principal |-> Shares(p, n)[k], interest |-> Shares(x, n)[k],
                           paid |-> k <= l.paid]]
  BY <1>2, <1>3 DEF Materialised
<1>5. \A k \in 1..n : Shares(p, n)[k] \in Nat /\ Shares(x, n)[k] \in Nat
  <2>1. p \div n \in Nat /\ x \div n \in Nat /\ p % n \in Nat /\ x % n \in Nat
    BY <1>2
  <2> QED
    BY <2>1 DEF Shares
<1>6. PICK g : g = [k \in DOMAIN m |-> IF m[k].paid THEN 0 ELSE m[k].principal + m[k].interest]
  OBVIOUS
<1>7. g \in [1..n -> Nat] /\ Len(m) = n
  BY <1>4, <1>5, <1>6
<1>8. Total(n, g) \in Nat
  BY <1>7, TotalNonNegative
<1> QED
  BY <1>1, <1>3, <1>6, <1>7, <1>8 DEF Unpaid

\* The group comes in from the legacy books.
LEMMA BringInStep ==
  ASSUME GroupInv, group = "none", NEW f \in Files, Clean(f), NEW d, NEW g, BringIn(g, AllRows(d, f))
  PROVE  GroupInv' /\ MembershipKept
<1>1. PICK w : w = AllRows(d, f)
  OBVIOUS
<1>2. PICK C : C = {r.customer : r \in {m \in w : m.kind = "member" /\ m.group = g}}
  OBVIOUS
<1>3. /\ group' = "active"
      /\ members' = [i \in DOMAIN SetToSeq(C) |-> Member(SetToSeq(C)[i])]
      /\ loans' = [l \in Loans |->
           IF \E r \in w : r.kind = "loan" /\ r.id = l
           THEN Begun(Unpaid((CHOOSE r \in w : r.kind = "loan" /\ r.id = l).schedule))
           ELSE loans[l]]
      /\ UNCHANGED <<books, posted, singles, stored, lock, call>>
  BY <1>1, <1>2 DEF BringIn
<1>4. C \subseteq Ids(f.customers)
  <2> SUFFICES ASSUME NEW r \in w, r.kind = "member" PROVE r.customer \in Ids(f.customers)
    BY <1>2
  <2>1. r \in MemberRows(d, f)
    BY <1>1, RowsByKind
  <2>2. \/ \E i \in DOMAIN f.groups : r.customer = f.groups[i].leader
        \/ \E i \in DOMAIN f.members : r.customer = f.members[i].customer
    BY <2>1, RowsTell
  <2> QED
    BY <2>2, CleanFile
<1>5. IsFiniteSet(C) /\ C \subseteq People
  <2>1. Len(f.customers) \in Nat /\ DOMAIN f.customers = 1..Len(f.customers)
    BY FileSheets
  <2>2. IsFiniteSet(1..Len(f.customers))
    BY <2>1, FS_Interval
  <2>3. PICK D : D = 1..Len(f.customers)
    OBVIOUS
  <2>4. Ids(f.customers) = {f.customers[i].id : i \in D}
    BY <2>1, <2>3 DEF Ids
  <2>5. IsFiniteSet(Ids(f.customers))
    <3>1. PICK h : h = [i \in D |-> f.customers[i].id]
      OBVIOUS
    <3>2. h \in Surjection(D, Ids(f.customers))
      BY <2>4, <3>1 DEF Surjection
    <3> QED
      BY <2>2, <2>3, <3>2, FS_Surjection
  <2>6. IsFiniteSet(C)
    BY <1>4, <2>5, FS_Subset
  <2> QED
    BY <1>4, <2>6 DEF People
<1>6. members' \in Seq(Members) /\ Once(members')
  <2>1. PICK n, s : n = Cardinality(C) /\ s = SetToSeq(C)
    OBVIOUS
  <2>2. n \in Nat /\ s \in [1..n -> C] /\ \A i, j \in 1..n : s[i] = s[j] => i = j
    BY <1>5, <2>1, InTheList
  <2>3. members' = [i \in 1..n |-> Member(s[i])]
    BY <1>3, <2>1, <2>2
  <2>4. \A i \in 1..n : members'[i] \in Members /\ members'[i].customer = s[i]
    BY <1>5, <2>2, <2>3 DEF Members, Member
  <2>5. members' \in [1..n -> Members]
    BY <2>3, <2>4
  <2>6. members' \in Seq(Members)
    BY <2>2, <2>5
  <2> QED
    BY <2>2, <2>3, <2>4, <2>6 DEF Once, Rows
<1>7. /\ loans' \in [Loans -> Loan]
      /\ \A l \in Loans : loans'[l] = loans[l] \/ loans'[l].owes = loans'[l].began
  <2>1. ASSUME NEW l \in Loans
        PROVE  /\ loans'[l] \in Loan
               /\ loans'[l] = loans[l] \/ loans'[l].owes = loans'[l].began
    <3>1. CASE \E r \in w : r.kind = "loan" /\ r.id = l
      <4>1. PICK r : r = CHOOSE t \in w : t.kind = "loan" /\ t.id = l
        OBVIOUS
      <4>2. r \in w /\ r.kind = "loan"
        BY <3>1, <4>1
      <4>3. r \in LoanRows(d, f)
        BY <1>1, <4>2, RowsByKind
      <4>4. PICK i \in DOMAIN f.loans : r.schedule = Materialised(f.loans[i])
        BY <4>3, RowsTell
      <4>5. PICK u \in Nat : u = Unpaid(r.schedule)
        BY <4>4, UnpaidTyped
      <4>6. loans'[l] = Begun(u)
        BY <1>3, <3>1, <4>1, <4>5
      <4> QED
        BY <4>6 DEF Begun, Loan
    <3>2. CASE ~ \E r \in w : r.kind = "loan" /\ r.id = l
      <4>1. loans'[l] = loans[l]
        BY <1>3, <3>2
      <4> QED
        BY <4>1 DEF GroupInv, GroupTyped, LoansTyped, Loan
    <3> QED
      BY <3>1, <3>2
  <2>2. loans' = [l \in Loans |-> loans'[l]]
    BY <1>3
  <2> QED
    BY <2>1, <2>2
<1>8. group' # "none"
  BY <1>3
<1> QED
  BY <1>3, <1>6, <1>7, <1>8, FirstGroup

-----------------------------------------------------------------------------
(* Every step *)

LEMMA GroupStutters ==
  ASSUME GroupInv, UNCHANGED groupVars
  PROVE  GroupInv' /\ MembershipKept
<1>1. UNCHANGED <<group, members, loans, books, posted, singles, stored, lock, call>>
  BY DEF groupVars
<1>2. CallsTyped'
  BY <1>1 DEF GroupInv, GroupTyped, CallsTyped
<1>3. group = "none" => \A q \in Clerks : call'[q] = NoRequest
  BY <1>1 DEF GroupInv, NotYet
<1>4. ASSUME NEW q \in Clerks PROVE CollectHolds(q)' /\ MemberHolds(q)'
  <2>1. GroupTyped /\ CollectHolds(q) /\ MemberHolds(q)
    BY DEF GroupInv
  <2> QED
    BY <1>1, <2>1, CallSurvives
<1> QED
  BY <1>1, <1>2, <1>3, <1>4, RequestStep

\* The process restarts: requests and locks are gone.
LEMMA RestartStep ==
  ASSUME GroupInv, Restart
  PROVE  GroupInv' /\ MembershipKept
<1>1. /\ lock' = [r \in DOMAIN lock |-> Nobody]
      /\ call' = [p \in Clerks |-> NoRequest]
      /\ UNCHANGED <<group, members, loans, books, posted, singles, stored>>
  BY DEF Restart
<1>2. \A q \in Clerks : call'[q] = NoRequest
  BY <1>1
<1>3. CallsTyped'
  BY <1>1 DEF GroupInv, GroupTyped, CallsTyped, IsCall
<1>4. \A q \in Clerks : CollectHolds(q)' /\ MemberHolds(q)'
  BY <1>2, IdleHolds
<1> QED
  BY <1>1, <1>2, <1>3, <1>4, RequestStep

\* A request takes its next step.
LEMMA ProceedStep ==
  ASSUME GroupInv, NEW p \in Clerks, Proceed(p)
  PROVE  GroupInv' /\ MembershipKept
<1>1. CASE BookExists(p) \/ RefusePart(p)
  <2>1. End(p) /\ UNCHANGED <<group, members, loans, books, posted, singles, stored>>
    BY <1>1 DEF BookExists, RefusePart
  <2> QED
    BY <2>1, AbortStep
<1> QED
  BY <1>1, LockAndCheckStep, AddMemberStep, RemoveMemberStep, OpenBookStep, PostPartStep,
     CommitCollectStep DEF Proceed

\* Every step of the group's own.
LEMMA GroupsStep ==
  ASSUME GroupInv, GroupsNext
  PROVE  GroupInv' /\ MembershipKept
<1>1. CASE \E p \in Clerks : DeadlockDetected(p) \/ TxTimeout(p)
  <2>1. PICK p \in Clerks : DeadlockDetected(p) \/ TxTimeout(p)
    BY <1>1
  <2>2. End(p) /\ UNCHANGED <<group, members, loans, books, posted, singles, stored>>
    BY <2>1 DEF DeadlockDetected, TxTimeout, Abort
  <2> QED
    BY <2>2, AbortStep
<1>2. CASE \E c \in Customers : CreateGroup(c)
  BY <1>2, CreateGroupStep
<1>3. CASE \E p \in Clerks : Request(p)
  BY <1>3, RequestAsked
<1>4. CASE \E p \in Clerks : Proceed(p)
  BY <1>4, ProceedStep
<1>5. CASE \E l \in Loans : Disburse(l)
  BY <1>5, DisburseStep
<1>6. CASE \E l \in Loans : \E amount \in 1..Lent[l] : PostSingle(l, amount)
  BY <1>6, PostSingleStep
<1>7. CASE \E l \in Loans : Close(l)
  BY <1>7, CloseStep
<1> QED
  BY <1>1, <1>2, <1>3, <1>4, <1>5, <1>6, <1>7 DEF GroupsNext

\* GroupInv is inductive.
LEMMA GroupSteps ==
  ASSUME MigrationInv, GroupInv, [BranchNext]_branchVars
  PROVE  GroupInv' /\ MembershipKept
<1>1. CASE UNCHANGED groupVars
  BY <1>1, GroupStutters
<1>2. CASE GroupsNext
  BY <1>2, GroupsStep
<1>3. CASE Restart
  BY <1>3, RestartStep
<1>4. CASE \E a \in Admins : CommitMigration(a)
  <2>1. PICK a \in Admins : CommitMigration(a)
    BY <1>4
  <2>2. PICK d, f : f \in Files /\ Clean(f) /\ commit[a].written = AllRows(d, f)
    BY <2>1, CommitWrites DEF CommitMigration, CommitTx
  <2>3. CASE UNCHANGED groupVars
    BY <2>3, GroupStutters
  <2>4. CASE ~ UNCHANGED groupVars
    <3>1. group = "none" /\ \E r \in {x \in commit[a].written : x.kind = "group"} :
                              BringIn(r.id, commit[a].written)
      BY <2>1, <2>4 DEF CommitMigration
    <3>2. PICK g : BringIn(g, AllRows(d, f))
      BY <2>2, <3>1
    <3> QED
      BY <2>2, <3>1, <3>2, BringInStep
  <2> QED
    BY <2>3, <2>4
<1> QED
  BY <1>1, <1>2, <1>3, <1>4 DEF BranchNext, branchVars

\* The group is not there yet when the office opens.
LEMMA GroupStarts == GroupsInit => GroupInv
<1> SUFFICES ASSUME GroupsInit PROVE GroupInv
  OBVIOUS
<1>1. /\ group = "none" /\ members = <<>> /\ books = {} /\ posted = <<>> /\ stored = {}
      /\ loans = [l \in Loans |-> [status |-> "approved", began |-> 0, owes |-> 0]]
      /\ singles = [l \in Loans |-> 0]
      /\ lock = [r \in {"group"} \union Loans \union RequestKeys |-> Nobody]
      /\ call = [p \in Clerks |-> NoRequest]
  BY DEF GroupsInit
<1>2. GroupTyped
  <2>1. MembersTyped /\ LoansTyped
    BY <1>1 DEF MembersTyped, LoansTyped
  <2>2. BooksTyped
    BY <1>1 DEF BooksTyped
  <2>3. CallsTyped
    BY <1>1 DEF CallsTyped, IsCall
  <2> QED
    BY <2>1, <2>2, <2>3 DEF GroupTyped
<1>3. GroupCollectionsWhole
  <2>1. posted \in Seq(Posted) /\ \A l \in Loans : \A i \in DOMAIN posted : posted[i].loan # l
    BY <1>1
  <2>2. \A l \in Loans : From(posted, l) = 0
    BY <2>1, FromNone
  <2>3. \A l \in Loans : loans[l].owes = loans[l].began - singles[l] - From(posted, l)
    BY <1>1, <2>2
  <2>4. Summed(books, posted)
    BY <1>1 DEF Summed
  <2>5. WholeOf(books, posted, singles, stored, loans)
    BY <1>1, <2>3, <2>4 DEF WholeOf
  <2> QED
    BY <2>5, WholeIs
<1>4. ActiveOnce
  BY <1>1 DEF ActiveOnce, ActiveRows
<1>5. NotYet
  BY <1>1 DEF NotYet
<1>6. \A q \in Clerks : CollectHolds(q) /\ MemberHolds(q)
  BY <1>1 DEF CollectHolds, MemberHolds, NoRequest
<1> QED
  BY <1>2, <1>3, <1>4, <1>5, <1>6 DEF GroupInv

(* For every set of clerks, customers, loans and requests, however they overlap,
   are refused or roll back: a group collection is written as a whole and no
   payment of a member is lost, nobody is a member twice, and the size of the
   group stays within its limits (GroupService.postGroupCollection, addMember,
   removeMember). *)
THEOREM GroupsStayWholeAlways == BranchSpec => GroupsStayWhole
<1>1. BranchInit => MigrationInv /\ GroupInv
  BY MigrationStarts, GroupStarts DEF BranchInit
<1>2. MigrationInv /\ GroupInv /\ [BranchNext]_branchVars => MigrationInv' /\ GroupInv'
  BY MigrationSteps, GroupSteps
<1>3. MigrationInv /\ GroupInv /\ [BranchNext]_branchVars =>
        [GroupCollectionsWhole' /\ MembershipKept]_<<group, members, books, posted, stored, loans, singles>>
  BY GroupSteps DEF GroupInv
<1> QED
  BY <1>1, <1>2, <1>3, PTL DEF BranchSpec, GroupsStayWhole

-----------------------------------------------------------------------------
(* The documents of a customer. *)

IsUpload(r) ==
  r \in [op : {"upload"}, phase : {"check", "begin", "lock", "commit", "audit", "clean up"},
          key : Keys \cup {Other}, type : DocTypes \cup {Other}, content : Contents,
          retires : SUBSET Keys]
IsDelete(r) == r \in [op : {"delete"}, phase : {"check", "write", "audit"}, key : Keys]

\* uploads between the store and the end of their transaction
Stored(s) == ~Idle(s) /\ jobs[s].op = "upload"
               /\ jobs[s].phase \in {"begin", "lock", "commit", "clean up"}
Replaces(s) == ~Idle(s) /\ jobs[s].op = "upload" /\ jobs[s].phase \in {"lock", "commit"}

FilesTyped ==
  /\ Other \notin DocTypes
  /\ TypeOK
  /\ jobs = [s \in Staff |-> jobs[s]]
  /\ \A s \in Staff : Idle(s) \/ IsUpload(jobs[s]) \/ IsDelete(jobs[s])

\* Whatever an upload has stored is a key of its own until it is answered, and
\* has no row yet unless it cleans up what was committed unheard.
StoredApart ==
  \A s \in Staff : Stored(s) =>
    /\ jobs[s].key \in Keys \cap objects
    /\ jobs[s].key \in DOMAIN files => jobs[s].phase = "clean up" /\ jobs[s].key \in abandoned
    /\ \A t \in Staff : Stored(t) /\ t # s => jobs[t].key # jobs[s].key

RowsOpen ==
  /\ DOMAIN files \subseteq objects \cup abandoned
  /\ \A k \in DOMAIN links : links[k].active => files[k].active

\* An upload that is replacing takes back every active document of its type,
\* and overlaps with whoever made one that it does not.
ReplacesOrOverlaps ==
  \A s \in Staff : Replaces(s) /\ jobs[s].type # Other =>
    /\ \A k \in DOMAIN links : links[k].active /\ links[k].type = jobs[s].type =>
         k \in jobs[s].retires \/ {k, jobs[s].key} \in beside
    /\ \A t \in Staff : Replaces(t) /\ t # s /\ jobs[t].type = jobs[s].type =>
         {jobs[t].key, jobs[s].key} \in beside

\* The keys that uploads hold in the store.
HeldKeys == {jobs[s].key : s \in {t \in Staff : Stored(t)}}

StoreAccounted == objects \subseteq DOMAIN files \cup abandoned \cup HeldKeys

FilesKept ==
  /\ FilesTyped /\ StoredApart /\ RowsOpen /\ ReplacesOrOverlaps
  /\ OneFilePerTypeUnlessOverlapped /\ StoreAccounted

\* No document and no request at first.
LEMMA InitFiles == Init => FilesKept
<1> SUFFICES ASSUME Init PROVE FilesKept
  OBVIOUS
<1>1. /\ DOMAIN files = {} /\ DOMAIN links = {} /\ objects = {} /\ abandoned = {}
      /\ beside = {} /\ deaths = 0 /\ jobs = [s \in Staff |-> NoReq]
  BY DEF Init
<1>2. \A s \in Staff : Idle(s)
  BY <1>1 DEF Idle
<1>3. FilesTyped
  BY <1>1, <1>2, DocumentsAssumption DEF FilesTyped, TypeOK
<1>4. StoredApart /\ RowsOpen /\ ReplacesOrOverlaps /\ OneFilePerTypeUnlessOverlapped
  BY <1>1, <1>2
     DEF StoredApart, RowsOpen, ReplacesOrOverlaps, OneFilePerTypeUnlessOverlapped,
         Stored, Replaces
<1>5. StoreAccounted
  BY <1>1 DEF StoreAccounted
<1> QED
  BY <1>3, <1>4, <1>5 DEF FilesKept

\* A step of one member of staff leaves the requests of the others alone.
LEMMA OthersStay ==
  ASSUME FilesTyped, NEW s \in Staff, NEW r, jobs' = [jobs EXCEPT ![s] = r]
  PROVE  /\ jobs' = [t \in Staff |-> jobs'[t]] /\ jobs'[s] = r
         /\ \A t \in Staff : t # s =>
              /\ jobs'[t] = jobs[t] /\ Idle(t)' = Idle(t)
              /\ Stored(t)' = Stored(t) /\ Replaces(t)' = Replaces(t)
BY DEF FilesTyped, Idle, Stored, Replaces

\* What a request of a kind becomes by the phase it enters.
LEMMA MovedTo ==
  ASSUME NEW s \in Staff, jobs'[s].op = "upload"
  PROVE  /\ ~Idle(s)'
         /\ Stored(s)' <=> jobs'[s].phase \in {"begin", "lock", "commit", "clean up"}
         /\ Replaces(s)' <=> jobs'[s].phase \in {"lock", "commit"}
<1>1. ~Idle(s)'
  BY DEF Idle, NoReq
<1> QED
  BY <1>1 DEF Stored, Replaces

\* What an upload that has stored its object looks like.
LEMMA StoredIsUpload ==
  ASSUME FilesTyped, NEW s \in Staff
  PROVE  /\ Stored(s) => IsUpload(jobs[s])
         /\ Replaces(s) => Stored(s)
         /\ ~Idle(s) /\ jobs[s].op = "upload" => IsUpload(jobs[s])
         /\ ~Idle(s) /\ jobs[s].op = "delete" => IsDelete(jobs[s])
BY DEF FilesTyped, Idle, Stored, Replaces, IsUpload, IsDelete

\* A request that has nothing in the store begins, goes on or ends.
LEMMA QuietStep ==
  ASSUME FilesKept, NEW s \in Staff, NEW r, jobs' = [jobs EXCEPT ![s] = r],
         r = NoReq \/ IsUpload(r) \/ IsDelete(r),
         ~Stored(s), ~Stored(s)', deaths' \in 0 .. MaxDeaths,
         UNCHANGED <<objects, files, links, beside, abandoned>>
  PROVE  FilesKept'
<1>1. /\ jobs' = [t \in Staff |-> jobs'[t]] /\ jobs'[s] = r
      /\ \A t \in Staff : t # s => /\ jobs'[t] = jobs[t] /\ Idle(t)' = Idle(t)
                                   /\ Stored(t)' = Stored(t) /\ Replaces(t)' = Replaces(t)
  BY OthersStay DEF FilesKept
<1>2. ~Replaces(s) /\ ~Replaces(s)'
  BY DEF Stored, Replaces, Idle
<1>3. FilesTyped'
  BY <1>1 DEF FilesKept, FilesTyped, TypeOK, Idle
<1>4. StoredApart'
  BY <1>1 DEF FilesKept, StoredApart
<1>5. RowsOpen' /\ OneFilePerTypeUnlessOverlapped'
  BY DEF FilesKept, RowsOpen, OneFilePerTypeUnlessOverlapped
<1>6. ReplacesOrOverlaps'
  BY <1>1, <1>2 DEF FilesKept, ReplacesOrOverlaps
<1>7. HeldKeys' = HeldKeys
  BY <1>1 DEF HeldKeys
<1>8. StoreAccounted'
  BY <1>7 DEF FilesKept, StoreAccounted
<1> QED
  BY <1>3, <1>4, <1>5, <1>6, <1>8 DEF FilesKept

\* The page asks, the checks refuse, the store refuses, the answer is given.
LEMMA QuietActions ==
  ASSUME FilesKept, NEW s \in Staff,
         \/ \E type \in DocTypes \cup {Other}, c \in Contents : Upload(s, type, c)
         \/ \E k \in Keys : Delete(s, k)
         \/ RefuseUpload(s) \/ PutFails(s) \/ ReadMetadata(s)
         \/ RefuseDelete(s) \/ Answer(s)
  PROVE  FilesKept'
<1>1. deaths \in 0 .. MaxDeaths
  BY DEF FilesKept, FilesTyped, TypeOK
<1>2. ASSUME NEW type \in DocTypes \cup {Other}, NEW c \in Contents, Upload(s, type, c)
      PROVE  FilesKept'
  <2> DEFINE r == [op |-> "upload", phase |-> "check", key |-> Other,
                   type |-> type, content |-> c, retires |-> {}]
  <2>1. jobs' = [jobs EXCEPT ![s] = r] /\ Idle(s) /\ deaths' = deaths
        /\ UNCHANGED <<objects, files, links, beside, abandoned>>
    BY <1>2 DEF Upload
  <2>2. IsUpload(r)
    BY DEF IsUpload
  <2>3. ~Stored(s) /\ ~Stored(s)'
    BY <2>1, OthersStay DEF FilesKept, Stored
  <2> HIDE DEF r
  <2> QED
    BY <1>1, <2>1, <2>2, <2>3, QuietStep
<1>3. ASSUME NEW k \in Keys, Delete(s, k) PROVE FilesKept'
  <2> DEFINE r == [op |-> "delete", phase |-> "check", key |-> k]
  <2>1. jobs' = [jobs EXCEPT ![s] = r] /\ Idle(s) /\ deaths' = deaths
        /\ UNCHANGED <<objects, files, links, beside, abandoned>>
    BY <1>3 DEF Delete
  <2>2. IsDelete(r)
    BY DEF IsDelete
  <2>3. ~Stored(s) /\ ~Stored(s)'
    BY <2>1, OthersStay DEF FilesKept, Stored
  <2> HIDE DEF r
  <2> QED
    BY <1>1, <2>1, <2>2, <2>3, QuietStep
<1>4. CASE RefuseUpload(s) \/ PutFails(s) \/ RefuseDelete(s)
          \/ Answer(s)
  <2>1. jobs' = [jobs EXCEPT ![s] = NoReq] /\ deaths' = deaths
        /\ UNCHANGED <<objects, files, links, beside, abandoned>>
    BY <1>4 DEF RefuseUpload, PutFails, RefuseDelete, Answer
  <2>2. ~Stored(s)
    BY <1>4
       DEF RefuseUpload, PutFails, RefuseDelete, Answer, At,
           Stored
  <2>3. ~Stored(s)'
    BY <2>1, OthersStay DEF FilesKept, Stored, Idle
  <2> QED
    BY <1>1, <2>1, <2>2, <2>3, QuietStep
<1>5. CASE ReadMetadata(s)
  <2> DEFINE r == [jobs[s] EXCEPT !.phase = "write"]
  <2>1. jobs' = [jobs EXCEPT ![s] = r] /\ deaths' = deaths
        /\ UNCHANGED <<objects, files, links, beside, abandoned>>
    BY <1>5 DEF ReadMetadata
  <2>2. ~Idle(s) /\ IsDelete(jobs[s])
    BY <1>5, StoredIsUpload DEF ReadMetadata, At, FilesKept
  <2>3. IsDelete(r) /\ r.op = "delete"
    BY <2>2 DEF IsDelete
  <2>4. ~Stored(s) /\ ~Stored(s)'
    BY <2>1, <2>2, <2>3, OthersStay DEF FilesKept, Stored, IsDelete
  <2> HIDE DEF r
  <2> QED
    BY <1>1, <2>1, <2>3, <2>4, QuietStep
<1> QED
  BY <1>2, <1>3, <1>4, <1>5

\* A key nobody uses, in the store and in one request.
LEMMA PutObjectStep ==
  ASSUME FilesKept, NEW s \in Staff, NEW k \in Keys, PutObject(s, k)
  PROVE  FilesKept'
<1> DEFINE r == [jobs[s] EXCEPT !.phase = "begin", !.key = k]
<1>1. /\ jobs' = [jobs EXCEPT ![s] = r] /\ objects' = objects \cup {k}
      /\ UNCHANGED <<files, links, beside, abandoned, deaths>>
  BY DEF PutObject
<1>2. ~Idle(s) /\ IsUpload(jobs[s]) /\ jobs[s].phase = "check"
  BY StoredIsUpload DEF PutObject, At, FilesKept
<1>3. IsUpload(r) /\ r.op = "upload" /\ r.phase = "begin" /\ r.key = k
  BY <1>2 DEF IsUpload
<1> HIDE DEF r
<1>4. /\ jobs' = [t \in Staff |-> jobs'[t]] /\ jobs'[s] = r
      /\ \A t \in Staff : t # s => /\ jobs'[t] = jobs[t] /\ Idle(t)' = Idle(t)
                                   /\ Stored(t)' = Stored(t) /\ Replaces(t)' = Replaces(t)
  BY <1>1, OthersStay DEF FilesKept
<1>5. ~Stored(s) /\ Stored(s)' /\ ~Replaces(s) /\ ~Replaces(s)'
  BY <1>2, <1>3, <1>4, MovedTo DEF Stored, Replaces
<1>6. k \notin objects /\ k \notin DOMAIN files /\ \A t \in Staff : Stored(t) => jobs[t].key # k
  BY DEF PutObject, Used, Stored
<1>7. FilesTyped'
  BY <1>1, <1>3, <1>4 DEF FilesKept, FilesTyped, TypeOK, Idle
<1>8. StoredApart'
  BY <1>1, <1>3, <1>4, <1>5, <1>6 DEF FilesKept, StoredApart
<1>9. RowsOpen' /\ OneFilePerTypeUnlessOverlapped'
  BY <1>1 DEF FilesKept, RowsOpen, OneFilePerTypeUnlessOverlapped
<1>10. ReplacesOrOverlaps'
  BY <1>1, <1>4, <1>5 DEF FilesKept, ReplacesOrOverlaps
<1>11. HeldKeys' = HeldKeys \cup {k}
  BY <1>3, <1>4, <1>5 DEF HeldKeys
<1>12. StoreAccounted'
  BY <1>1, <1>11 DEF FilesKept, StoreAccounted
<1> QED
  BY <1>7, <1>8, <1>9, <1>10, <1>12 DEF FilesKept

\* An upload that goes on with what it has stored, its transaction open or
\* rolled back.
LEMMA StoredGoesOn ==
  ASSUME FilesKept, NEW s \in Staff, NEW r, jobs' = [jobs EXCEPT ![s] = r], IsUpload(r),
         Stored(s), Stored(s)', r.key = jobs[s].key, jobs[s].phase # "clean up",
         UNCHANGED <<objects, files, links, abandoned, deaths>>
  PROVE  /\ FilesTyped' /\ StoredApart' /\ RowsOpen' /\ StoreAccounted'
         /\ jobs'[s] = r
         /\ \A t \in Staff : t # s => jobs'[t] = jobs[t] /\ Replaces(t)' = Replaces(t)
<1>1. /\ jobs' = [t \in Staff |-> jobs'[t]] /\ jobs'[s] = r
      /\ \A t \in Staff : t # s => /\ jobs'[t] = jobs[t] /\ Idle(t)' = Idle(t)
                                   /\ Stored(t)' = Stored(t) /\ Replaces(t)' = Replaces(t)
  BY OthersStay DEF FilesKept
<1>2. FilesTyped'
  BY <1>1 DEF FilesKept, FilesTyped, TypeOK, Idle
<1>3. \A t \in Staff : /\ Stored(t)' = Stored(t) /\ jobs'[t].key = jobs[t].key
                       /\ jobs[t].phase = "clean up" => jobs'[t].phase = "clean up"
  <2>1. ASSUME NEW t \in Staff
        PROVE  /\ Stored(t)' = Stored(t) /\ jobs'[t].key = jobs[t].key
               /\ jobs[t].phase = "clean up" => jobs'[t].phase = "clean up"
    <3>1. CASE t = s
      <4>1. jobs'[t] = r
        BY <1>1, <3>1
      <4>2. jobs'[t].key = jobs[t].key
        BY <4>1, <3>1
      <4>3. jobs[t].phase # "clean up"
        BY <3>1
      <4>4. Stored(t) /\ Stored(t)'
        BY <3>1
      <4> QED
        BY <4>2, <4>3, <4>4
    <3>2. CASE t # s
      <4>1. jobs'[t] = jobs[t] /\ Stored(t)' = Stored(t)
        BY <1>1, <3>2
      <4> QED
        BY <4>1
    <3> QED
      BY <3>1, <3>2
  <2> QED
    BY <2>1
<1>4. RowsOpen'
  BY DEF FilesKept, RowsOpen
<1>5. StoredApart'
  <2>1. ASSUME NEW t \in Staff, Stored(t)'
        PROVE  /\ jobs'[t].key \in Keys \cap objects'
               /\ jobs'[t].key \in DOMAIN files' =>
                    jobs'[t].phase = "clean up" /\ jobs'[t].key \in abandoned'
               /\ \A u \in Staff : Stored(u)' /\ u # t => jobs'[u].key # jobs'[t].key
    <3>1. Stored(t)
      BY <1>3, <2>1
    <3>2. /\ jobs[t].key \in Keys \cap objects
          /\ jobs[t].key \in DOMAIN files => jobs[t].phase = "clean up" /\ jobs[t].key \in abandoned
          /\ \A u \in Staff : Stored(u) /\ u # t => jobs[u].key # jobs[t].key
      BY <3>1 DEF FilesKept, StoredApart
    <3>3. jobs'[t].key = jobs[t].key /\ (jobs[t].phase = "clean up" => jobs'[t].phase = "clean up")
      BY <1>3
    <3>4. jobs'[t].key \in Keys \cap objects'
      BY <3>2, <3>3
    <3>5. ASSUME jobs'[t].key \in DOMAIN files'
          PROVE  jobs'[t].phase = "clean up" /\ jobs'[t].key \in abandoned'
      <4>1. files' = files /\ abandoned' = abandoned
        OBVIOUS
      <4>2. jobs[t].key \in DOMAIN files
        BY <3>5, <4>1, <3>3
      <4>3. jobs[t].phase = "clean up" /\ jobs[t].key \in abandoned
        BY <4>2, <3>2
      <4>4. jobs'[t].phase = "clean up"
        BY <4>3, <3>3
      <4>5. jobs'[t].key \in abandoned'
        BY <4>1, <4>3, <3>3
      <4> QED
        BY <4>4, <4>5
    <3>6. ASSUME NEW u \in Staff, Stored(u)', u # t
          PROVE  jobs'[u].key # jobs'[t].key
      <4>1. Stored(u) /\ jobs'[u].key = jobs[u].key
        BY <1>3, <3>6
      <4> QED
        BY <4>1, <3>2, <3>3, <3>6
    <3> QED
      BY <3>4, <3>5, <3>6
  <2> QED
    BY <2>1 DEF StoredApart
<1>6. StoreAccounted'
  <2>1. \A k \in HeldKeys : k \in HeldKeys'
    BY <1>3 DEF HeldKeys
  <2> QED
    BY <2>1 DEF FilesKept, StoreAccounted
<1> QED
  BY <1>1, <1>2, <1>4, <1>5, <1>6

\* The transaction starts to retire: it takes what is committed now, and is
\* noted beside those that are replacing already.
LEMMA RetireStep ==
  ASSUME FilesKept, NEW s \in Staff, Retire(s)
  PROVE  FilesKept'
<1> DEFINE R == IF jobs[s].type = Other THEN {} ELSE ActiveOf(jobs[s].type)
<1> DEFINE r == [jobs[s] EXCEPT !.phase = "lock", !.retires = R]
<1>1. /\ jobs' = [jobs EXCEPT ![s] = r]
      /\ beside' = beside \cup {{jobs[s].key, jobs[t].key} : t \in Replacing(jobs[s].type)}
      /\ UNCHANGED <<objects, files, links, abandoned, deaths>>
  BY DEF Retire
<1>2. Stored(s) /\ IsUpload(jobs[s]) /\ ~Replaces(s)
  BY StoredIsUpload DEF Retire, At, FilesKept, Stored, Replaces
<1>3. R \subseteq Keys /\ (jobs[s].type # Other => R = ActiveOf(jobs[s].type))
  BY DEF ActiveOf, FilesKept, FilesTyped, TypeOK
<1> HIDE DEF R
<1>4. /\ IsUpload(r) /\ r.op = "upload" /\ r.phase = "lock" /\ r.key = jobs[s].key
      /\ r.type = jobs[s].type /\ r.retires = R
  BY <1>2, <1>3 DEF IsUpload
<1> HIDE DEF r
<1>5. Stored(s)' /\ Replaces(s)'
  BY <1>1, <1>4, OthersStay, MovedTo DEF FilesKept
<1>6. /\ FilesTyped' /\ StoredApart' /\ RowsOpen' /\ StoreAccounted'
      /\ jobs'[s] = r
      /\ \A t \in Staff : t # s => jobs'[t] = jobs[t] /\ Replaces(t)' = Replaces(t)
  <2>1. jobs[s].phase # "clean up"
    BY DEF Retire, At
  <2> QED
    BY <1>1, <1>2, <1>4, <1>5, <2>1, StoredGoesOn
<1>7. OneFilePerTypeUnlessOverlapped'
  BY <1>1 DEF FilesKept, OneFilePerTypeUnlessOverlapped
<1>8. \A t \in Staff : Replaces(t) /\ jobs[t].type = jobs[s].type =>
        {jobs[s].key, jobs[t].key} \in beside'
  BY <1>1 DEF Replaces, Replacing, Idle
<1>9. ReplacesOrOverlaps'
  <2>1. SUFFICES ASSUME NEW t \in Staff, Replaces(t)', jobs'[t].type # Other
        PROVE  /\ \A k \in DOMAIN links : links[k].active /\ links[k].type = jobs'[t].type =>
                    k \in jobs'[t].retires \/ {k, jobs'[t].key} \in beside'
               /\ \A u \in Staff : Replaces(u)' /\ u # t /\ jobs'[u].type = jobs'[t].type =>
                    {jobs'[u].key, jobs'[t].key} \in beside'
    BY <1>1 DEF ReplacesOrOverlaps
  <2>2. CASE t = s
    <3>1. \A k \in DOMAIN links : links[k].active /\ links[k].type = jobs'[t].type =>
            k \in jobs'[t].retires
      BY <1>3, <1>4, <1>6, <2>1, <2>2 DEF ActiveOf
    <3>2. \A u \in Staff : {jobs[s].key, jobs[u].key} = {jobs[u].key, jobs[s].key}
      OBVIOUS
    <3> QED
      BY <1>4, <1>6, <1>8, <2>2, <3>1, <3>2
  <2>3. CASE t # s
    <3>1. beside \subseteq beside' /\ Replaces(t) /\ jobs'[t] = jobs[t]
      BY <1>1, <1>6, <2>1, <2>3
    <3>2. \A k \in DOMAIN links : links[k].active /\ links[k].type = jobs[t].type =>
            k \in jobs[t].retires \/ {k, jobs[t].key} \in beside
      BY <2>1, <3>1 DEF FilesKept, ReplacesOrOverlaps
    <3>3. \A u \in Staff : u # s /\ Replaces(u) /\ u # t /\ jobs[u].type = jobs[t].type =>
            {jobs[u].key, jobs[t].key} \in beside
      BY <2>1, <3>1 DEF FilesKept, ReplacesOrOverlaps
    <3>4. jobs'[s].type = jobs[t].type => {jobs'[s].key, jobs[t].key} \in beside'
      BY <1>4, <1>6, <1>8, <3>1
    <3> QED
      BY <1>6, <3>1, <3>2, <3>3, <3>4
  <2> QED
    BY <2>2, <2>3
<1> QED
  BY <1>6, <1>7, <1>9 DEF FilesKept

\* The rows are locked: what became inactive in the meantime is left alone.
LEMMA LockRetiredStep ==
  ASSUME FilesKept, NEW s \in Staff, LockRetired(s)
  PROVE  FilesKept'
<1> DEFINE R == {k \in jobs[s].retires : links[k].active}
<1> DEFINE r == [jobs[s] EXCEPT !.phase = "commit", !.retires = R]
<1>1. /\ jobs' = [jobs EXCEPT ![s] = r]
      /\ UNCHANGED <<objects, files, links, beside, abandoned, deaths>>
  BY DEF LockRetired
<1>2. Stored(s) /\ IsUpload(jobs[s]) /\ Replaces(s)
  BY StoredIsUpload DEF LockRetired, At, FilesKept, Stored, Replaces
<1>3. R \subseteq Keys /\ \A k : k \in jobs[s].retires /\ links[k].active => k \in R
  BY <1>2 DEF IsUpload
<1> HIDE DEF R
<1>4. /\ IsUpload(r) /\ r.op = "upload" /\ r.phase = "commit" /\ r.key = jobs[s].key
      /\ r.type = jobs[s].type /\ r.retires = R
  BY <1>2, <1>3 DEF IsUpload
<1> HIDE DEF r
<1>5. Stored(s)' /\ Replaces(s)'
  BY <1>1, <1>4, OthersStay, MovedTo DEF FilesKept
<1>6. /\ FilesTyped' /\ StoredApart' /\ RowsOpen' /\ StoreAccounted'
      /\ jobs'[s] = r
      /\ \A t \in Staff : t # s => jobs'[t] = jobs[t] /\ Replaces(t)' = Replaces(t)
  <2>1. jobs[s].phase # "clean up"
    BY DEF LockRetired, At
  <2> QED
    BY <1>1, <1>2, <1>4, <1>5, <2>1, StoredGoesOn
<1>7. OneFilePerTypeUnlessOverlapped'
  BY <1>1 DEF FilesKept, OneFilePerTypeUnlessOverlapped
<1>8. ReplacesOrOverlaps'
  BY <1>1, <1>2, <1>3, <1>4, <1>6 DEF FilesKept, ReplacesOrOverlaps
<1> QED
  BY <1>6, <1>7, <1>8 DEF FilesKept

\* A rollback leaves the rows as they were, and the object to be cleaned up.
LEMMA RollBackStep ==
  ASSUME FilesKept, NEW s \in Staff, RollBack(s)
  PROVE  FilesKept'
<1> DEFINE r == [jobs[s] EXCEPT !.phase = "clean up", !.retires = {}]
<1>1. /\ jobs' = [jobs EXCEPT ![s] = r]
      /\ UNCHANGED <<objects, files, links, beside, abandoned, deaths>>
  BY DEF RollBack
<1>2. Stored(s) /\ IsUpload(jobs[s]) /\ jobs[s].phase # "clean up"
  BY StoredIsUpload DEF RollBack, At, FilesKept, Stored
<1>3. IsUpload(r) /\ r.op = "upload" /\ r.phase = "clean up" /\ r.key = jobs[s].key
  BY <1>2 DEF IsUpload
<1> HIDE DEF r
<1>4. Stored(s)' /\ ~Replaces(s)'
  BY <1>1, <1>3, OthersStay, MovedTo DEF FilesKept
<1>5. /\ FilesTyped' /\ StoredApart' /\ RowsOpen' /\ StoreAccounted'
      /\ \A t \in Staff : t # s => jobs'[t] = jobs[t] /\ Replaces(t)' = Replaces(t)
  BY <1>1, <1>2, <1>3, <1>4, StoredGoesOn
<1>6. OneFilePerTypeUnlessOverlapped'
  BY <1>1 DEF FilesKept, OneFilePerTypeUnlessOverlapped
<1>7. ReplacesOrOverlaps'
  BY <1>1, <1>4, <1>5 DEF FilesKept, ReplacesOrOverlaps
<1> QED
  BY <1>5, <1>6, <1>7 DEF FilesKept

\* The transaction commits, heard or unheard: a new row, a new link unless the
\* file is no KYC document, and the links it retired.
CommitsAs(s, r) ==
  /\ CommitRows(s) /\ jobs' = [jobs EXCEPT ![s] = r]
  /\ IsUpload(r) /\ r.op = "upload" /\ r.key = jobs[s].key
  /\ deaths' \in 0 .. MaxDeaths
  /\ \/ r.phase = "audit" /\ abandoned' = abandoned
     \/ r.phase = "clean up" /\ abandoned' = abandoned \cup {jobs[s].key}

LEMMA RowsCommitted ==
  ASSUME FilesKept, NEW s \in Staff, NEW r, CommitsAs(s, r)
  PROVE  FilesKept'
<1> DEFINE K == jobs[s].key
<1> DEFINE T == jobs[s].type
<1>1. /\ files' = With(files, K, [active |-> TRUE, by |-> s])
      /\ abandoned \subseteq abandoned' /\ abandoned' \subseteq abandoned \cup {K}
      /\ r.phase = "clean up" => K \in abandoned'
      /\ UNCHANGED <<objects, beside>>
  BY DEF CommitsAs, CommitRows
<1>2. Stored(s) /\ Replaces(s) /\ IsUpload(jobs[s]) /\ jobs[s].phase = "commit"
  BY StoredIsUpload DEF CommitsAs, CommitRows, At, FilesKept, Stored, Replaces
<1>3. /\ K \in (Keys \cap objects) \ DOMAIN files
      /\ \A t \in Staff : Stored(t) /\ t # s => jobs[t].key # K
  BY <1>2 DEF FilesKept, StoredApart
<1>4. /\ jobs' = [jobs EXCEPT ![s] = r] /\ IsUpload(r) /\ r.op = "upload" /\ r.key = K
      /\ r.phase \in {"audit", "clean up"} /\ deaths' \in 0 .. MaxDeaths
  BY DEF CommitsAs
<1>5. K \notin DOMAIN links
  BY <1>3 DEF FilesKept, FilesTyped, TypeOK
<1>6. /\ DOMAIN files' = DOMAIN files \cup {K}
      /\ files'[K] = [active |-> TRUE, by |-> s]
      /\ \A k \in DOMAIN files : files'[k] = files[k]
  BY <1>1, <1>3 DEF With
<1>7. /\ DOMAIN links \subseteq DOMAIN links' /\ DOMAIN links' \subseteq DOMAIN links \cup {K}
      /\ \A k \in DOMAIN links :
           links'[k] = [links[k] EXCEPT !.active = @ /\ k \notin jobs[s].retires]
      /\ K \in DOMAIN links' =>
           T # Other /\ links'[K] = [type |-> T, active |-> TRUE, verified |-> FALSE]
  <2>1. CASE T = Other
    BY <1>5, <2>1 DEF CommitsAs, CommitRows
  <2>2. CASE T # Other
    BY <1>5, <2>2 DEF CommitsAs, CommitRows, With
  <2> QED
    BY <2>1, <2>2
<1>8. \A k \in DOMAIN links :
        /\ links'[k] \in [type : DocTypes, active : BOOLEAN, verified : BOOLEAN]
        /\ links'[k].type = links[k].type
        /\ links'[k].active => links[k].active /\ k \notin jobs[s].retires
  <2> SUFFICES ASSUME NEW k \in DOMAIN links
               PROVE  /\ links'[k] \in [type : DocTypes, active : BOOLEAN, verified : BOOLEAN]
                      /\ links'[k].type = links[k].type
                      /\ links'[k].active => links[k].active /\ k \notin jobs[s].retires
    OBVIOUS
  <2>1. links[k] \in [type : DocTypes, active : BOOLEAN, verified : BOOLEAN]
    BY DEF FilesKept, FilesTyped, TypeOK
  <2>2. CASE k \in jobs[s].retires
    <3>1. links'[k] = [links[k] EXCEPT !.active = FALSE]
      BY <1>7, <2>2
    <3> QED
      BY <2>1, <3>1
  <2>3. CASE k \notin jobs[s].retires
    <3>1. links'[k] = [links[k] EXCEPT !.active = links[k].active]
      BY <1>7, <2>1, <2>3
    <3> QED
      BY <2>1, <2>3, <3>1
  <2> QED
    BY <2>2, <2>3
<1>9. /\ jobs' = [t \in Staff |-> jobs'[t]] /\ jobs'[s] = r
      /\ \A t \in Staff : t # s => /\ jobs'[t] = jobs[t] /\ Idle(t)' = Idle(t)
                                   /\ Stored(t)' = Stored(t) /\ Replaces(t)' = Replaces(t)
  BY <1>4, OthersStay DEF FilesKept
<1>10. ~Replaces(s)'
  BY <1>4, <1>9, MovedTo
<1>11. T # Other => T \in DocTypes
  BY <1>2 DEF IsUpload
<1> HIDE DEF K, T
<1>12. FilesTyped'
  <2>1. \A k \in DOMAIN files' : files'[k] \in [active : BOOLEAN, by : Staff]
    <3>1. files'[K] \in [active : BOOLEAN, by : Staff]
      BY <1>6
    <3>2. \A k \in DOMAIN files : files'[k] \in [active : BOOLEAN, by : Staff]
      BY <1>6 DEF FilesKept, FilesTyped, TypeOK
    <3> QED
      BY <1>6, <3>1, <3>2
  <2>2. \A k \in DOMAIN links' :
          links'[k] \in [type : DocTypes, active : BOOLEAN, verified : BOOLEAN]
    <3>1. K \in DOMAIN links' =>
            links'[K] \in [type : DocTypes, active : BOOLEAN, verified : BOOLEAN]
      <4>1. \A t \in DocTypes : [type |-> t, active |-> TRUE, verified |-> FALSE]
                                 \in [type : DocTypes, active : BOOLEAN, verified : BOOLEAN]
        OBVIOUS
      <4>2. K \in DOMAIN links' =>
              T \in DocTypes /\ links'[K] = [type |-> T, active |-> TRUE, verified |-> FALSE]
        BY <1>7, <1>11
      <4> QED
        BY <4>1, <4>2
    <3> QED
      BY <1>7, <1>8, <3>1
  <2>3. DOMAIN files' \subseteq Keys /\ DOMAIN links' \subseteq DOMAIN files'
    BY <1>3, <1>6, <1>7 DEF FilesKept, FilesTyped, TypeOK
  <2>4. TypeOK'
    BY <1>1, <1>3, <1>4, <2>1, <2>2, <2>3 DEF FilesKept, FilesTyped, TypeOK
  <2>5. \A t \in Staff : (Idle(t) \/ IsUpload(jobs[t]) \/ IsDelete(jobs[t]))'
    BY <1>4, <1>9 DEF FilesKept, FilesTyped, Idle
  <2> QED
    BY <1>9, <2>4, <2>5 DEF FilesKept, FilesTyped
<1>13. StoredApart'
  <2>1. Stored(s)' => r.phase = "clean up"
    BY <1>4, <1>9, MovedTo
  <2>2. ASSUME NEW t \in Staff, t # s, Stored(t)
        PROVE  jobs[t].key \in DOMAIN files' =>
                 jobs[t].phase = "clean up" /\ jobs[t].key \in abandoned'
    BY <1>1, <1>3, <1>6, <2>2 DEF FilesKept, StoredApart
  <2> QED
    BY <1>1, <1>3, <1>4, <1>6, <1>9, <2>1, <2>2 DEF FilesKept, StoredApart
<1>14. RowsOpen'
  <2>1. DOMAIN files' \subseteq objects' \cup abandoned'
    BY <1>1, <1>3, <1>6 DEF FilesKept, RowsOpen
  <2>2. ASSUME NEW k \in DOMAIN links', links'[k].active PROVE files'[k].active
    <3>1. CASE k = K
      BY <1>6, <3>1
    <3>2. CASE k # K
      <4>1. k \in DOMAIN links /\ k \in DOMAIN files /\ links[k].active
        BY <1>7, <1>8, <2>2, <3>2 DEF FilesKept, FilesTyped, TypeOK
      <4>2. files[k].active
        BY <4>1 DEF FilesKept, RowsOpen
      <4> QED
        BY <1>6, <4>1, <4>2
    <3> QED
      BY <3>1, <3>2
  <2> QED
    BY <2>1, <2>2 DEF RowsOpen
<1>15. \A k \in DOMAIN links' \ {K} :
          k \in DOMAIN links /\ links'[k].type = links[k].type
            /\ (links'[k].active => links[k].active /\ k \notin jobs[s].retires)
  BY <1>7, <1>8
<1>16. \A j, k : {j, k} = {k, j}
  OBVIOUS
<1>17. OneFilePerTypeUnlessOverlapped'
  <2>1. K \in DOMAIN links' =>
          \A k \in DOMAIN links' \ {K} :
            links'[k].active /\ links'[k].type = links'[K].type => {k, K} \in beside
    BY <1>2, <1>7, <1>15 DEF FilesKept, ReplacesOrOverlaps, K, T
  <2>2. \A j, k \in DOMAIN links' \ {K} :
          /\ j # k /\ links'[j].active /\ links'[k].active
          /\ links'[j].type = links'[k].type
          => {j, k} \in beside
    <3> SUFFICES ASSUME NEW j \in DOMAIN links' \ {K}, NEW k \in DOMAIN links' \ {K},
                        j # k, links'[j].active, links'[k].active,
                        links'[j].type = links'[k].type
                 PROVE  {j, k} \in beside
      OBVIOUS
    <3>1. /\ j \in DOMAIN links /\ k \in DOMAIN links
          /\ links[j].active /\ links[k].active /\ links[j].type = links[k].type
      BY <1>15
    <3> QED
      BY <3>1 DEF FilesKept, OneFilePerTypeUnlessOverlapped
  <2>3. beside' = beside
    BY <1>1
  <2> QED
    BY <1>16, <2>1, <2>2, <2>3 DEF OneFilePerTypeUnlessOverlapped
<1>18. ReplacesOrOverlaps'
  <2>1. SUFFICES ASSUME NEW t \in Staff, t # s, Replaces(t), jobs[t].type # Other
        PROVE  /\ \A k \in DOMAIN links' : links'[k].active /\ links'[k].type = jobs[t].type =>
                    k \in jobs[t].retires \/ {k, jobs[t].key} \in beside
               /\ \A u \in Staff : u # s /\ Replaces(u) /\ u # t /\ jobs[u].type = jobs[t].type =>
                    {jobs[u].key, jobs[t].key} \in beside
    BY <1>1, <1>9, <1>10 DEF ReplacesOrOverlaps
  <2>2. K \in DOMAIN links' /\ links'[K].type = jobs[t].type => {K, jobs[t].key} \in beside
    BY <1>2, <1>7, <2>1 DEF FilesKept, ReplacesOrOverlaps, K, T
  <2>3. \A k \in DOMAIN links' \ {K} : links'[k].active /\ links'[k].type = jobs[t].type =>
          k \in jobs[t].retires \/ {k, jobs[t].key} \in beside
    BY <1>15, <2>1 DEF FilesKept, ReplacesOrOverlaps
  <2>4. \A u \in Staff : Replaces(u) /\ u # t /\ jobs[u].type = jobs[t].type =>
          {jobs[u].key, jobs[t].key} \in beside
    BY <2>1 DEF FilesKept, ReplacesOrOverlaps
  <2> QED
    BY <2>2, <2>3, <2>4
<1>19. StoreAccounted'
  <2>1. HeldKeys \subseteq HeldKeys' \cup {K}
    BY <1>9 DEF HeldKeys, K
  <2> QED
    BY <1>1, <1>6, <2>1 DEF FilesKept, StoreAccounted
<1> QED
  BY <1>12, <1>13, <1>14, <1>17, <1>18, <1>19 DEF FilesKept

\* The answer to COMMIT arrives, or is lost and taken for a failure.
LEMMA CommitStep ==
  ASSUME FilesKept, NEW s \in Staff, Commit(s) \/ CommitUnheard(s)
  PROVE  FilesKept'
<1>1. IsUpload(jobs[s]) /\ jobs[s].op = "upload"
  BY StoredIsUpload DEF Commit, CommitUnheard, CommitRows, At, FilesKept, Stored, Replaces
<1>2. deaths \in 0 .. MaxDeaths /\ MaxDeaths \in Nat
  BY DocumentsAssumption DEF FilesKept, FilesTyped, TypeOK
<1>3. CASE Commit(s)
  <2> DEFINE r == [jobs[s] EXCEPT !.phase = "audit"]
  <2>1. /\ CommitRows(s) /\ jobs' = [jobs EXCEPT ![s] = r]
        /\ abandoned' = abandoned /\ deaths' = deaths
    BY <1>3 DEF Commit
  <2>2. IsUpload(r) /\ r.op = "upload" /\ r.key = jobs[s].key /\ r.phase = "audit"
    BY <1>1 DEF IsUpload
  <2> HIDE DEF r
  <2> QED
    BY <1>2, <2>1, <2>2, RowsCommitted DEF CommitsAs
<1>4. CASE CommitUnheard(s)
  <2> DEFINE r == [jobs[s] EXCEPT !.phase = "clean up", !.retires = {}]
  <2>1. /\ CommitRows(s) /\ jobs' = [jobs EXCEPT ![s] = r]
        /\ abandoned' = abandoned \cup {jobs[s].key}
        /\ deaths < MaxDeaths /\ deaths' = deaths + 1
    BY <1>4 DEF CommitUnheard, Lose
  <2>2. IsUpload(r) /\ r.op = "upload" /\ r.key = jobs[s].key /\ r.phase = "clean up"
    BY <1>1 DEF IsUpload
  <2> HIDE DEF r
  <2>3. deaths' \in 0 .. MaxDeaths
    BY <1>2, <2>1
  <2> QED
    BY <2>1, <2>2, <2>3, RowsCommitted DEF CommitsAs
<1> QED
  BY <1>3, <1>4

\* The object is stored and nobody knows: the request ends, the key is noted.
LEMMA PutUnheardStep ==
  ASSUME FilesKept, NEW s \in Staff, NEW k \in Keys, PutUnheard(s, k)
  PROVE  FilesKept'
<1>1. /\ jobs' = [jobs EXCEPT ![s] = NoReq] /\ objects' = objects \cup {k}
      /\ abandoned' = abandoned \cup {k} /\ deaths < MaxDeaths /\ deaths' = deaths + 1
      /\ UNCHANGED <<files, links, beside>>
  BY DEF PutUnheard, Lose
<1>2. deaths' \in 0 .. MaxDeaths
  BY <1>1, DocumentsAssumption DEF FilesKept, FilesTyped, TypeOK
<1>3. /\ jobs' = [t \in Staff |-> jobs'[t]] /\ jobs'[s] = NoReq
      /\ \A t \in Staff : t # s => /\ jobs'[t] = jobs[t] /\ Idle(t)' = Idle(t)
                                   /\ Stored(t)' = Stored(t) /\ Replaces(t)' = Replaces(t)
  BY <1>1, OthersStay DEF FilesKept
<1>4. ~Stored(s) /\ Idle(s)' /\ ~Stored(s)' /\ ~Replaces(s)'
  BY <1>3 DEF PutUnheard, At, Idle, Stored, Replaces
<1>5. FilesTyped'
  <2>1. TypeOK'
    BY <1>1, <1>2 DEF FilesKept, FilesTyped, TypeOK
  <2> QED
    BY <1>3, <1>4, <2>1 DEF FilesKept, FilesTyped
<1>6. StoredApart'
  BY <1>1, <1>3, <1>4 DEF FilesKept, StoredApart
<1>7. RowsOpen' /\ OneFilePerTypeUnlessOverlapped' /\ ReplacesOrOverlaps'
  BY <1>1, <1>3, <1>4
     DEF FilesKept, RowsOpen, OneFilePerTypeUnlessOverlapped, ReplacesOrOverlaps
<1>8. HeldKeys' = HeldKeys
  BY <1>3, <1>4 DEF HeldKeys
<1>9. StoreAccounted'
  BY <1>1, <1>8 DEF FilesKept, StoreAccounted
<1> QED
  BY <1>5, <1>6, <1>7, <1>9 DEF FilesKept

\* An upload ends without its rows, or unheard: the object is removed, or noted as left
\* behind.
LEMMA UploadGivesUp ==
  ASSUME FilesKept, NEW s \in Staff, Stored(s), jobs' = [jobs EXCEPT ![s] = NoReq],
         \/ objects' = objects \ {jobs[s].key} /\ abandoned' = abandoned
         \/ objects' = objects /\ abandoned' = abandoned \cup {jobs[s].key},
         deaths' \in 0 .. MaxDeaths, UNCHANGED <<files, links, beside>>
  PROVE  FilesKept'
<1> DEFINE K == jobs[s].key
<1>1. /\ jobs' = [t \in Staff |-> jobs'[t]] /\ jobs'[s] = NoReq
      /\ \A t \in Staff : t # s => /\ jobs'[t] = jobs[t] /\ Idle(t)' = Idle(t)
                                   /\ Stored(t)' = Stored(t) /\ Replaces(t)' = Replaces(t)
  BY OthersStay DEF FilesKept
<1>2. Idle(s)' /\ ~Stored(s)' /\ ~Replaces(s)'
  BY <1>1 DEF Idle, Stored, Replaces
<1>3. /\ K \in Keys \cap objects /\ (K \in DOMAIN files => K \in abandoned)
      /\ \A t \in Staff : Stored(t) /\ t # s => jobs[t].key # K
  BY DEF FilesKept, StoredApart
<1>4. FilesTyped'
  <2>1. TypeOK'
    BY <1>3 DEF FilesKept, FilesTyped, TypeOK
  <2> QED
    BY <1>1, <1>2, <2>1 DEF FilesKept, FilesTyped
<1>5. /\ \A k \in objects : k # K => k \in objects'
      /\ objects' \subseteq objects /\ abandoned \subseteq abandoned'
      /\ K \in objects' => K \in abandoned'
  OBVIOUS
<1> HIDE DEF K
<1>6. StoredApart'
  BY <1>1, <1>2, <1>3, <1>5 DEF FilesKept, StoredApart
<1>7. RowsOpen'
  BY <1>3, <1>5 DEF FilesKept, RowsOpen
<1>8. OneFilePerTypeUnlessOverlapped' /\ ReplacesOrOverlaps'
  BY <1>1, <1>2 DEF FilesKept, OneFilePerTypeUnlessOverlapped, ReplacesOrOverlaps
<1>9. StoreAccounted'
  <2>1. HeldKeys \subseteq HeldKeys' \cup {K}
    BY <1>1 DEF HeldKeys, K
  <2> QED
    BY <1>5, <2>1 DEF FilesKept, StoreAccounted
<1> QED
  BY <1>4, <1>6, <1>7, <1>8, <1>9 DEF FilesKept

\* The store is cleaned, or not, or the process dies with a request.
LEMMA EndActions ==
  ASSUME FilesKept, NEW s \in Staff,
         CleanUp(s) \/ CleanUpFails(s) \/ Die(s)
  PROVE  FilesKept'
<1>1. deaths' \in 0 .. MaxDeaths /\ jobs' = [jobs EXCEPT ![s] = NoReq]
      /\ UNCHANGED <<files, links, beside>>
  <2>1. deaths \in 0 .. MaxDeaths /\ MaxDeaths \in Nat
    BY DocumentsAssumption DEF FilesKept, FilesTyped, TypeOK
  <2>2. CASE CleanUp(s)
    BY <2>1, <2>2 DEF CleanUp
  <2>3. CASE CleanUpFails(s)
    <3>1. /\ deaths < MaxDeaths /\ deaths' = deaths + 1 /\ jobs' = [jobs EXCEPT ![s] = NoReq]
          /\ UNCHANGED <<files, links, beside>>
      BY <2>3 DEF CleanUpFails, Lose
    <3> QED
      BY <2>1, <3>1
  <2>4. CASE Die(s)
    BY <2>1, <2>4 DEF Die
  <2> QED
    BY <2>2, <2>3, <2>4
<1>2. CASE CleanUp(s)
  <2>1. Stored(s)
    BY <1>2 DEF CleanUp, At, Stored
  <2> QED
    BY <1>1, <1>2, <2>1, UploadGivesUp DEF CleanUp
<1>3. CASE CleanUpFails(s)
  <2>1. Stored(s)
    BY <1>3 DEF CleanUpFails, At, Stored
  <2> QED
    BY <1>1, <1>3, <2>1, UploadGivesUp DEF CleanUpFails, Lose
<1>4. CASE Die(s)
  <2>1. CASE Stored(s)
    <3>1. objects' = objects /\ abandoned' = abandoned \cup {jobs[s].key}
      BY <1>4, <2>1 DEF Die, Stored
    <3> QED
      BY <1>1, <2>1, <3>1, UploadGivesUp
  <2>2. CASE ~Stored(s)
    <3>1. objects' = objects /\ abandoned' = abandoned
      BY <1>4, <2>2, StoredIsUpload DEF Die, Stored, FilesKept, IsUpload
    <3>2. ~Stored(s)'
      BY <1>1, OthersStay DEF FilesKept, Stored, Idle
    <3> QED
      BY <1>1, <2>2, <3>1, <3>2, QuietStep
  <2> QED
    BY <2>1, <2>2
<1> QED
  BY <1>2, <1>3, <1>4

\* The row of a file and every link to it become inactive together.
LEMMA DeactivateStep ==
  ASSUME FilesKept, NEW s \in Staff, Deactivate(s)
  PROVE  FilesKept'
<1> DEFINE r == [jobs[s] EXCEPT !.phase = "audit"]
<1> DEFINE K == jobs[s].key
<1>1. /\ jobs' = [jobs EXCEPT ![s] = r]
      /\ files' = [files EXCEPT ![K].active = FALSE]
      /\ links' = [k \in DOMAIN links |-> [links[k] EXCEPT !.active = @ /\ k # K]]
      /\ UNCHANGED <<objects, beside, abandoned, deaths>>
  BY DEF Deactivate
<1>2. ~Idle(s) /\ IsDelete(jobs[s])
  BY StoredIsUpload DEF Deactivate, At, FilesKept
<1>3. IsDelete(r) /\ r.op = "delete" /\ jobs[s].op = "delete"
  BY <1>2 DEF IsDelete
<1> HIDE DEF r
<1>4. /\ jobs' = [t \in Staff |-> jobs'[t]] /\ jobs'[s] = r
      /\ \A t \in Staff : t # s => /\ jobs'[t] = jobs[t] /\ Idle(t)' = Idle(t)
                                   /\ Stored(t)' = Stored(t) /\ Replaces(t)' = Replaces(t)
  BY <1>1, OthersStay DEF FilesKept
<1>5. ~Stored(s) /\ ~Stored(s)' /\ ~Replaces(s) /\ ~Replaces(s)'
  BY <1>3, <1>4 DEF Stored, Replaces
<1>6. /\ DOMAIN files' = DOMAIN files
      /\ \A k \in DOMAIN files : /\ files'[k] \in [active : BOOLEAN, by : Staff]
                                 /\ k # K => files'[k].active = files[k].active
  BY <1>1 DEF FilesKept, FilesTyped, TypeOK
<1>7. \A k \in DOMAIN links :
        /\ links'[k] \in [type : DocTypes, active : BOOLEAN, verified : BOOLEAN]
        /\ links'[k].type = links[k].type
        /\ links'[k].active => links[k].active /\ k # K
  <2> SUFFICES ASSUME NEW k \in DOMAIN links
               PROVE  /\ links'[k] \in [type : DocTypes, active : BOOLEAN, verified : BOOLEAN]
                      /\ links'[k].type = links[k].type
                      /\ links'[k].active => links[k].active /\ k # K
    OBVIOUS
  <2>1. links[k] \in [type : DocTypes, active : BOOLEAN, verified : BOOLEAN]
    BY DEF FilesKept, FilesTyped, TypeOK
  <2>2. links'[k] = [links[k] EXCEPT !.active = links[k].active /\ k # K]
    BY <1>1, <2>1
  <2>3. CASE k = K
    <3>1. links'[k] = [links[k] EXCEPT !.active = FALSE]
      BY <2>2, <2>3
    <3> QED
      BY <2>1, <3>1
  <2>4. CASE k # K
    <3>1. links'[k] = [links[k] EXCEPT !.active = links[k].active]
      BY <2>1, <2>2, <2>4
    <3> QED
      BY <2>1, <2>4, <3>1
  <2> QED
    BY <2>3, <2>4
<1>8. DOMAIN links' = DOMAIN links
  BY <1>1
<1> HIDE DEF K
<1>9. FilesTyped'
  <2>1. TypeOK'
    BY <1>1, <1>6, <1>7, <1>8 DEF FilesKept, FilesTyped, TypeOK
  <2> QED
    BY <1>3, <1>4, <2>1 DEF FilesKept, FilesTyped, Idle
<1>10. StoredApart'
  BY <1>1, <1>4, <1>5, <1>6 DEF FilesKept, StoredApart
<1>11. RowsOpen'
  <2>1. DOMAIN files' \subseteq objects' \cup abandoned'
    BY <1>1, <1>6 DEF FilesKept, RowsOpen
  <2>2. ASSUME NEW k \in DOMAIN links', links'[k].active PROVE files'[k].active
    <3>1. k \in DOMAIN links /\ k \in DOMAIN files /\ links[k].active /\ k # K
      BY <1>7, <1>8, <2>2 DEF FilesKept, FilesTyped, TypeOK
    <3>2. files[k].active
      BY <3>1 DEF FilesKept, RowsOpen
    <3> QED
      BY <1>6, <3>1, <3>2
  <2> QED
    BY <2>1, <2>2 DEF RowsOpen
<1>12. OneFilePerTypeUnlessOverlapped'
  <2> SUFFICES ASSUME NEW j \in DOMAIN links, NEW k \in DOMAIN links,
                      j # k, links'[j].active, links'[k].active,
                      links'[j].type = links'[k].type
               PROVE  {j, k} \in beside
    BY <1>1, <1>8 DEF OneFilePerTypeUnlessOverlapped
  <2>1. links[j].active /\ links[k].active /\ links[j].type = links[k].type
    BY <1>7
  <2> QED
    BY <2>1 DEF FilesKept, OneFilePerTypeUnlessOverlapped
<1>13. ReplacesOrOverlaps'
  <2>1. SUFFICES ASSUME NEW t \in Staff, t # s, Replaces(t), jobs[t].type # Other
        PROVE  /\ \A k \in DOMAIN links : links'[k].active /\ links'[k].type = jobs[t].type =>
                    k \in jobs[t].retires \/ {k, jobs[t].key} \in beside
               /\ \A u \in Staff : u # s /\ Replaces(u) /\ u # t /\ jobs[u].type = jobs[t].type =>
                    {jobs[u].key, jobs[t].key} \in beside
    BY <1>1, <1>4, <1>5, <1>8 DEF ReplacesOrOverlaps
  <2>2. /\ \A k \in DOMAIN links : links[k].active /\ links[k].type = jobs[t].type =>
             k \in jobs[t].retires \/ {k, jobs[t].key} \in beside
        /\ \A u \in Staff : Replaces(u) /\ u # t /\ jobs[u].type = jobs[t].type =>
             {jobs[u].key, jobs[t].key} \in beside
    BY <2>1 DEF FilesKept, ReplacesOrOverlaps
  <2> QED
    BY <1>7, <2>2
<1>14. HeldKeys' = HeldKeys
  BY <1>4, <1>5 DEF HeldKeys
<1>15. StoreAccounted'
  BY <1>1, <1>6, <1>14 DEF FilesKept, StoreAccounted
<1> QED
  BY <1>9, <1>10, <1>11, <1>12, <1>13, <1>15 DEF FilesKept

\* Every step of the documents keeps the invariant.
LEMMA NextFiles == FilesKept /\ [Next]_vars => FilesKept'
<1> SUFFICES ASSUME FilesKept, [Next]_vars PROVE FilesKept'
  OBVIOUS
<1>1. CASE Next
  <2>1. PICK s \in Staff :
          \/ \E type \in DocTypes \cup {Other}, c \in Contents : Upload(s, type, c)
          \/ \E k \in Keys : Delete(s, k) \/ PutObject(s, k) \/ PutUnheard(s, k)
          \/ RefuseUpload(s) \/ PutFails(s) \/ Retire(s) \/ LockRetired(s)
          \/ Commit(s) \/ CommitUnheard(s) \/ RollBack(s) \/ CleanUp(s) \/ CleanUpFails(s)
          \/ ReadMetadata(s) \/ RefuseDelete(s) \/ Deactivate(s)
          \/ Answer(s) \/ Die(s)
    BY <1>1 DEF Next
  <2> QED
    BY <2>1, QuietActions, PutObjectStep, PutUnheardStep, RetireStep, LockRetiredStep, CommitStep,
       RollBackStep, EndActions, DeactivateStep
<1>2. CASE UNCHANGED vars
  <2>1. FilesTyped' /\ RowsOpen' /\ OneFilePerTypeUnlessOverlapped'
    BY <1>2
       DEF vars, FilesKept, FilesTyped, TypeOK, Idle, RowsOpen,
           OneFilePerTypeUnlessOverlapped
  <2>2. \A s \in Staff : Stored(s)' = Stored(s) /\ Replaces(s)' = Replaces(s)
    BY <1>2 DEF vars, Stored, Replaces, Idle
  <2>3. StoredApart' /\ ReplacesOrOverlaps'
    BY <1>2, <2>2 DEF vars, FilesKept, StoredApart, ReplacesOrOverlaps
  <2>4. StoreAccounted'
    BY <1>2, <2>2 DEF vars, FilesKept, StoreAccounted, HeldKeys
  <2> QED
    BY <2>1, <2>3, <2>4 DEF FilesKept
<1> QED
  BY <1>1, <1>2

\* What an upload or a deletion has done so far and what it still has to do.
LEMMA FilesKeptAlways == Spec => []FilesKept
<1> QED
  BY InitFiles, NextFiles, PTL DEF Spec

\* What is under way in the store is what the uploads hold.
LEMMA KeysAccountForObjects ==
  FilesKept => ListedDocumentsOpen /\ ObjectsAreAccountedFor
<1> SUFFICES ASSUME FilesKept PROVE ListedDocumentsOpen /\ ObjectsAreAccountedFor
  OBVIOUS
<1>1. ListedDocumentsOpen
  BY DEF FilesKept, FilesTyped, TypeOK, RowsOpen, ListedDocumentsOpen, Listed, Unheard
<1>2. UnderWay = HeldKeys
  BY DEF UnderWay, HeldKeys, Stored
<1>3. HeldKeys \subseteq objects
  BY DEF HeldKeys, FilesKept, StoredApart
<1> QED
  BY <1>1, <1>2, <1>3 DEF FilesKept, RowsOpen, StoreAccounted, ObjectsAreAccountedFor, Unheard

\* Documents that are listed open, two of a type come only from uploads that
\* overlapped, and every object has a row, an upload under way, or a death, a
\* failure or an answer that was lost to blame, which also is all that leaves a
\* row without its object (upload and softDelete of DocumentService).
THEOREM DocumentsAreKeptAlways == Spec => []DocumentsAreKept
<1>1. FilesKept => DocumentsAreKept
  BY KeysAccountForObjects DEF FilesKept, FilesTyped, DocumentsAreKept
<1> QED
  BY <1>1, FilesKeptAlways, PTL

-----------------------------------------------------------------------------
(* The page of a loan. *)

\* What a list of refusals amounts to.
LEMMA FirstOf ==
  ASSUME NEW codes, DOMAIN codes \subseteq Nat
  PROVE  \/ Desk!First(codes) = "ok" /\ \A i \in DOMAIN codes : codes[i] = "ok"
         \/ \E i \in DOMAIN codes : Desk!First(codes) = codes[i] /\ codes[i] # "ok"
<1> DEFINE R == {i \in DOMAIN codes : codes[i] # "ok"}
<1>1. CASE R = {}
  BY <1>1 DEF Desk!First
<1>2. CASE R # {}
  <2>1. R \subseteq Nat
    OBVIOUS
  <2>2. \E x \in R : \A y \in R : x <= y
    BY <1>2, <2>1, LeastElement
  <2>3. (CHOOSE x \in R : \A y \in R : x <= y) \in R
    BY <2>2
  <2>4. Desk!First(codes) = codes[CHOOSE x \in R : \A y \in R : x <= y]
    BY <1>2 DEF Desk!First
  <2> QED
    BY <2>3, <2>4
<1> QED
  BY <1>1, <1>2

\* Two codes.
LEMMA FirstOfTwo ==
  ASSUME NEW a, NEW b
  PROVE  /\ Desk!First(<<a, b>>) = "ok" <=> a = "ok" /\ b = "ok"
         /\ Desk!First(<<a, b>>) \in {"ok", a, b}
<1>1. DOMAIN <<a, b>> = {1, 2} /\ <<a, b>>[1] = a /\ <<a, b>>[2] = b
  OBVIOUS
<1> QED
  BY <1>1, FirstOf

\* Three codes.
LEMMA FirstOfThree ==
  ASSUME NEW a, NEW b, NEW c
  PROVE  /\ Desk!First(<<a, b, c>>) = "ok" <=> a = "ok" /\ b = "ok" /\ c = "ok"
         /\ Desk!First(<<a, b, c>>) \in {"ok", a, b, c}
<1>1. DOMAIN <<a, b, c>> = {1, 2, 3} /\ <<a, b, c>>[1] = a /\ <<a, b, c>>[2] = b /\ <<a, b, c>>[3] = c
  OBVIOUS
<1> QED
  BY <1>1, FirstOf

\* Six codes.
LEMMA FirstOfSix ==
  ASSUME NEW a, NEW b, NEW c, NEW d, NEW e, NEW f, Desk!First(<<a, b, c, d, e, f>>) = "ok"
  PROVE  a = "ok" /\ b = "ok" /\ c = "ok" /\ d = "ok" /\ e = "ok" /\ f = "ok"
<1>1. /\ DOMAIN <<a, b, c, d, e, f>> = {1, 2, 3, 4, 5, 6}
      /\ <<a, b, c, d, e, f>>[1] = a /\ <<a, b, c, d, e, f>>[2] = b
      /\ <<a, b, c, d, e, f>>[3] = c /\ <<a, b, c, d, e, f>>[4] = d
      /\ <<a, b, c, d, e, f>>[5] = e /\ <<a, b, c, d, e, f>>[6] = f
  OBVIOUS
<1> QED
  BY <1>1, FirstOf

-----------------------------------------------------------------------------
\* A loan that has not been paid out, and what a page may ask for.
Undecided == {"draft", "submitted", "under_review", "approved", "rejected"}
Actions == Desk!Offered \union {"execute"}

\* A quote has expired.
SomeExpired == \E i \in DOMAIN quotes : quotes[i].expired

QuoteRecord ==
  [dues : Nat, rebate : Nat, by : {"me", "other"}, status : {"quote", "settled"}, expired : BOOLEAN]

DeskTyped ==
  /\ Desk!TypeOK
  /\ quotes \in Seq(QuoteRecord)
  /\ desk \in [dialog : {"none", "quote", "execute"} \union Desk!WithDialog, quote : Nat,
               expired : BOOLEAN, rebate : Nat]
  /\ request \in [action : {"none"} \union Actions, quote : Nat, rebate : Nat]
  /\ request.action = "none" => request = Desk!NoRequest
  /\ request.action = "execute" => request.quote \in DOMAIN quotes

\* What follows from the status of a loan, and what a dialog or a request was
\* offered for: what a payment took off the schedule may come back to it, and
\* nothing takes a payment back but its reversal.
LoanHistory ==
  /\ loan.status \in Undecided => loan.rows = "none"
  /\ loan.owed + loan.paid <= MaxOwed
  /\ view.rows # "none" \/ desk.dialog = "reverse" \/ request.action = "reverse" => loan.rows # "none"

\* Where a rebate may come from.
RebateHistory ==
  /\ Desk!QuoteShown /\ desk.expired => quotes[desk.quote].expired
  /\ desk.rebate > 0 => Desk!QuoteShown \/ SomeExpired
  /\ request.action = "quote" /\ request.rebate > 0 => SomeExpired

DeskInv ==
  /\ DeskTyped /\ LoanHistory /\ Desk!OneSettlement /\ RebateHistory /\ Desk!RebateNeedsAnExpiredQuote

\* A page that is opened has nothing shown, asked or sent.
LEMMA DeskInit == Desk!Init => DeskInv
<1> SUFFICES ASSUME Desk!Init PROVE DeskInv
  OBVIOUS
<1>1. DeskTyped
  BY PagesAssumption DEF PagesAssumption, Desk!LoanDeskAssumption, Desk!Init, DeskTyped,
     Desk!TypeOK, Desk!Submitters, Desk!Managers, Desk!Shown, Desk!Hidden, Desk!Statuses,
     Desk!FreshDesk, Desk!NoRequest, Desk!QuoteShown, QuoteRecord
<1>2. LoanHistory
  BY PagesAssumption DEF PagesAssumption, Desk!LoanDeskAssumption, Desk!Init, LoanHistory,
     Undecided, Desk!FreshDesk, Desk!NoRequest
<1>3. Desk!OneSettlement
  BY DEF Desk!Init, Desk!OneSettlement
<1>4. RebateHistory
  BY DEF Desk!Init, RebateHistory, Desk!FreshDesk, Desk!NoRequest, Desk!QuoteShown
<1>5. Desk!RebateNeedsAnExpiredQuote
  BY DEF Desk!Init, Desk!RebateNeedsAnExpiredQuote
<1> QED
  BY <1>1, <1>2, <1>3, <1>4, <1>5 DEF DeskInv

\* What a loan owes, with its penalty.
LEMMA DuesTyped ==
  ASSUME NEW l \in Desk!Shown
  PROVE  /\ Desk!Dues(l) \in Nat
         /\ l.penalty # "pending" => Desk!Dues(l) = l.owed
<1>1. Fine \in Nat /\ MaxOwed \in Nat
  BY PagesAssumption DEF PagesAssumption, Desk!LoanDeskAssumption
<1>2. l.owed \in Nat
  BY <1>1 DEF Desk!Shown
<1>3. CASE l.penalty = "pending"
  BY <1>1, <1>2, <1>3 DEF Desk!Dues
<1>4. CASE l.penalty # "pending"
  BY <1>2, <1>4 DEF Desk!Dues
<1> QED
  BY <1>3, <1>4

\* A page whose view is current offers only what the server accepts, but for
\* what the page is not told, and for the last paisa of an installment.
LEMMA CurrentPageIsAccepted == DeskInv => Desk!OfferedIsAccepted
<1> SUFFICES ASSUME DeskInv, view = loan, NEW action \in Desk!Offered, Desk!Offers(action)
             PROVE  Desk!Refusal([action |-> action, quote |-> 0, rebate |-> 0])
                      \in {"ok"} \union Desk!NotOnThePage(action)
  BY DEF Desk!OfferedIsAccepted
<1> DEFINE req == [action |-> action, quote |-> 0, rebate |-> 0]
<1>0. req.action = action /\ req.rebate = 0
  OBVIOUS
<1>1. CASE action = "submit"
  <2>1. Desk!TransitionFrom("draft") = "ok"
    BY <1>1 DEF Desk!Offers, Desk!CanSubmit, Desk!TransitionFrom, Desk!InStatus
  <2>2. Desk!Refusal(req) = Desk!SubmitRefusal
    BY <1>1 DEF Desk!Refusal
  <2>3. Desk!SubmitRefusal \in {"ok", "CUSTOMER_NOT_FIT"}
    BY <2>1, FirstOfTwo DEF Desk!SubmitRefusal, Desk!Unless
  <2> QED
    BY <1>1, <2>2, <2>3 DEF Desk!NotOnThePage
<1>2. CASE action = "review"
  <2>1. Desk!TransitionFrom("submitted") = "ok"
    BY <1>2 DEF Desk!Offers, Desk!CanReview, Desk!TransitionFrom, Desk!InStatus
  <2> QED
    BY <1>2, <2>1 DEF Desk!Refusal, Desk!ReviewRefusal
<1>3. CASE action = "approve"
  <2>1. Desk!TransitionFrom("under_review") = "ok"
    BY <1>3 DEF Desk!Offers, Desk!CanApproveReject, Desk!TransitionFrom, Desk!InStatus
  <2>2. Desk!Refusal(req) = Desk!ApproveRefusal
    BY <1>3 DEF Desk!Refusal
  <2>3. Desk!ApproveRefusal \in {"ok", "MAKER_CHECKER_VIOLATION"}
    BY <2>1, FirstOfTwo DEF Desk!ApproveRefusal, Desk!MakerChecker, Desk!Unless
  <2> QED
    BY <1>3, <2>2, <2>3 DEF Desk!NotOnThePage
<1>4. CASE action = "reject"
  <2>1. Desk!TransitionFrom("under_review") = "ok"
    BY <1>4 DEF Desk!Offers, Desk!CanApproveReject, Desk!TransitionFrom, Desk!InStatus
  <2> QED
    BY <1>4, <2>1 DEF Desk!Refusal, Desk!RejectRefusal
<1>5. CASE action = "disburse"
  <2>1. Desk!InStatus({"approved"}, "LOAN_NOT_APPROVED") = "ok"
    BY <1>5 DEF Desk!Offers, Desk!CanDisburse, Desk!InStatus
  <2>2. Desk!Refusal(req) = Desk!DisburseRefusal
    BY <1>5 DEF Desk!Refusal
  <2>3. Desk!DisburseRefusal \in {"ok", "KYC_DOCS_MISSING", "MAKER_CHECKER_VIOLATION"}
    BY <2>1, FirstOfThree DEF Desk!DisburseRefusal, Desk!MakerChecker, Desk!Unless
  <2> QED
    BY <1>5, <2>2, <2>3 DEF Desk!NotOnThePage
<1>6. CASE action = "close"
  <2>1. /\ loan.status \in {"active", "overdue"} /\ loan.penalty # "pending"
        /\ Desk!Dues(loan) <= 1
    BY <1>6 DEF Desk!Offers, Desk!CanClose, Desk!Running
  <2>2. Desk!InStatus({"active", "overdue"}, "INVALID_STATUS_TRANSITION") = "ok"
    BY <2>1 DEF Desk!InStatus
  <2>3. loan.owed = 0 \/ loan.owed = 1
    <3>1. loan \in Desk!Shown
      BY DEF DeskInv, DeskTyped, Desk!TypeOK
    <3>2. Desk!Dues(loan) \in Nat /\ Desk!Dues(loan) = loan.owed
      BY <2>1, <3>1, DuesTyped
    <3> QED
      BY <2>1, <3>2
  <2>4. Desk!Refusal(req) = Desk!CloseRefusal
    BY <1>6 DEF Desk!Refusal
  <2>5. CASE loan.owed = 0
    <3>1. Desk!CloseRefusal = "ok"
      BY <2>1, <2>2, <2>5, FirstOfTwo DEF Desk!CloseRefusal, Desk!Unless
    <3> QED
      BY <2>4, <3>1
  <2>6. CASE loan.owed = 1
    <3>1. Desk!CloseRefusal \in {"ok", "CLOSURE_PREREQUISITES_NOT_MET"}
      BY <2>2, FirstOfTwo DEF Desk!CloseRefusal, Desk!Unless
    <3>2. Desk!NotOnThePage(action) = {"CLOSURE_PREREQUISITES_NOT_MET"}
      BY <1>6, <2>6 DEF Desk!NotOnThePage
    <3> QED
      BY <2>4, <3>1, <3>2
  <2> QED
    BY <2>3, <2>5, <2>6
<1>7. CASE action = "regenerate"
  <2>1. loan.status \in {"approved", "active"} /\ loan.rows = "none"
    BY <1>7 DEF Desk!Offers, Desk!CanChangeEmiDate, DeskInv, LoanHistory, Undecided
  <2>2. Desk!InStatus({"approved", "active"}, "INVALID_LOAN_STATUS_FOR_REGENERATION") = "ok"
    BY <2>1 DEF Desk!InStatus
  <2>3. Desk!RegenerateRefusal = "ok"
    BY <2>1, <2>2, FirstOfTwo DEF Desk!RegenerateRefusal, Desk!Unless
  <2> QED
    BY <1>7, <2>3 DEF Desk!Refusal
<1>8. CASE action = "waive"
  <2>1. loan.penalty = "pending"
    BY <1>8 DEF Desk!Offers, Desk!CanWaive
  <2>2. Desk!WaiveRefusal = "ok"
    BY <2>1, FirstOfTwo DEF Desk!WaiveRefusal, Desk!Unless
  <2> QED
    BY <1>8, <2>2 DEF Desk!Refusal
<1>9. CASE action = "reverse"
  <2>1. loan.rows = "payment"
    BY <1>9 DEF Desk!Offers, Desk!CanReverse
  <2> QED
    BY <1>9, <2>1 DEF Desk!Refusal, Desk!ReverseRefusal, Desk!Unless
<1>10. CASE action = "reverseReversal"
  BY <1>10 DEF Desk!Refusal, Desk!ReverseReversalRefusal, Desk!NotOnThePage
<1>11. CASE action = "quote"
  <2>1. loan.status \in {"active", "overdue"}
    BY <1>11 DEF Desk!Offers, Desk!CanForeclose, Desk!Running
  <2>2. Desk!Dues(loan) \in Nat
    BY DuesTyped DEF DeskInv, DeskTyped, Desk!TypeOK
  <2>3. Desk!InStatus({"active", "overdue"}, "INVALID_LOAN_STATUS_FOR_FORECLOSURE") = "ok"
    BY <2>1 DEF Desk!InStatus
  <2>4. Desk!Unless(0 > Desk!Dues(loan), "REBATE_EXCEEDS_DUES") = "ok"
    BY <2>2 DEF Desk!Unless
  <2>5. Desk!QuoteRefusal(0) = "ok"
    BY <2>3, <2>4, FirstOfTwo DEF Desk!QuoteRefusal
  <2> QED
    BY <1>11, <2>5 DEF Desk!Refusal
<1> QED
  BY <1>1, <1>2, <1>3, <1>4, <1>5, <1>6, <1>7, <1>8, <1>9, <1>10, <1>11
  DEF Desk!Offered, Desk!Immediate, Desk!WithDialog
-----------------------------------------------------------------------------
\* Neither the loan nor its quotes change at a step of the page.
PageKeeps == UNCHANGED <<role, loan, hidden, quotes>>

\* Then what is said of the quotes alone stays true.
LEMMA PageKeepsTheServer ==
  ASSUME DeskInv, PageKeeps
  PROVE  Desk!OneSettlement' /\ Desk!RebateNeedsAnExpiredQuote' /\ (SomeExpired' <=> SomeExpired)
<1>1. Desk!OneSettlement'
  BY DEF DeskInv, Desk!OneSettlement, PageKeeps
<1>2. Desk!RebateNeedsAnExpiredQuote'
  BY DEF DeskInv, Desk!RebateNeedsAnExpiredQuote, PageKeeps
<1>3. SomeExpired' <=> SomeExpired
  BY DEF SomeExpired, PageKeeps
<1> QED
  BY <1>1, <1>2, <1>3

\* The newest of some quotes is one of them.
LEMMA LatestIsOne ==
  ASSUME NEW S, S # {}, NEW n \in Nat, S \subseteq 1..n
  PROVE  Desk!Latest(S) \in S
<1> DEFINE T == {n - i : i \in S}
<1>1. T \subseteq Nat /\ T # {}
  <2>1. \A i \in S : n - i \in Nat
    <3> SUFFICES ASSUME NEW i \in S PROVE n - i \in Nat
      OBVIOUS
    <3>1. i \in Int /\ i <= n
      OBVIOUS
    <3> QED
      BY <3>1
  <2>2. PICK i \in S : TRUE
    OBVIOUS
  <2> QED
    BY <2>1, <2>2
<1>2. PICK x \in T : \A y \in T : x <= y
  BY <1>1, LeastElement
<1>3. PICK i \in S : x = n - i
  BY <1>2
<1>4. \A j \in S : j <= i
  <2> SUFFICES ASSUME NEW j \in S PROVE j <= i
    OBVIOUS
  <2>1. n - j \in T
    OBVIOUS
  <2>2. n - i <= n - j
    BY <1>2, <1>3, <2>1
  <2> QED
    BY <2>2
<1> QED
  BY <1>4 DEF Desk!Latest

\* The pending quote is one of the quotes, or none.
LEMMA PendingQuoteExists ==
  ASSUME DeskTyped
  PROVE  Desk!PendingQuote \in 0..Len(quotes)
<1> DEFINE O == {i \in DOMAIN quotes : quotes[i].status = "quote" /\ ~ quotes[i].expired}
<1>1. Len(quotes) \in Nat /\ DOMAIN quotes = 1..Len(quotes)
  BY DEF DeskTyped
<1>2. CASE O = {}
  BY <1>1, <1>2 DEF Desk!PendingQuote
<1>3. CASE O # {}
  <2>1. Desk!Latest(O) \in O
    BY <1>1, <1>3, LatestIsOne
  <2>2. Desk!PendingQuote = Desk!Latest(O)
    BY <1>3 DEF Desk!PendingQuote
  <2> QED
    BY <1>1, <2>1, <2>2
<1> QED
  BY <1>2, <1>3

\* What the desk and the request may be after a step of the page, and why.
LEMMA PageStep ==
  ASSUME DeskInv, PageKeeps, DeskTyped', LoanHistory', RebateHistory'
  PROVE  DeskInv'
BY PageKeepsTheServer DEF DeskInv

\* A button without a dialog sends its request.
LEMMA PressImmediateKeeps ==
  ASSUME DeskInv, NEW action \in Desk!Immediate, Desk!PressImmediate(action)
  PROVE  DeskInv'
<1>0. action \in {"submit", "review"}
  BY DEF Desk!Immediate
<1>1. /\ PageKeeps /\ UNCHANGED <<desk, view, pending>>
      /\ request' = [action |-> action, quote |-> 0, rebate |-> 0]
  BY DEF Desk!PressImmediate, Desk!Send, PageKeeps
<1>2. DeskTyped'
  BY <1>0, <1>1 DEF DeskInv, DeskTyped, Desk!TypeOK, Desk!QuoteShown, PageKeeps, Actions,
     Desk!Offered, Desk!Immediate
<1>3. LoanHistory'
  BY <1>0, <1>1 DEF DeskInv, LoanHistory, PageKeeps
<1>4. RebateHistory'
  BY <1>0, <1>1, PageKeepsTheServer DEF DeskInv, RebateHistory, Desk!QuoteShown, PageKeeps
<1> QED
  BY <1>1, <1>2, <1>3, <1>4, PageStep

\* A dialog opens for what the page offers.
LEMMA OpenDialogKeeps ==
  ASSUME DeskInv, NEW action \in Desk!WithDialog, Desk!OpenDialog(action)
  PROVE  DeskInv'
<1>0. action \notin {"none", "quote", "execute"} /\ action \in Desk!WithDialog
  BY DEF Desk!WithDialog
<1>1. /\ PageKeeps /\ UNCHANGED <<request, view, pending>>
      /\ desk' = [desk EXCEPT !.dialog = action] /\ desk.dialog = "none"
      /\ Desk!Offers(action)
  BY DEF Desk!OpenDialog, PageKeeps
<1>2. desk'.dialog = action /\ desk'.quote = desk.quote /\ desk'.expired = desk.expired
      /\ desk'.rebate = desk.rebate
  BY <1>1 DEF DeskInv, DeskTyped
<1>3. ~ Desk!QuoteShown /\ ~ Desk!QuoteShown'
  BY <1>0, <1>1, <1>2 DEF Desk!QuoteShown
<1>4. DeskTyped'
  BY <1>0, <1>1, <1>2, <1>3 DEF DeskInv, DeskTyped, Desk!TypeOK, PageKeeps
<1>5. LoanHistory'
  <2>1. action = "reverse" => view.rows # "none"
    BY <1>1 DEF Desk!Offers, Desk!CanReverse
  <2> QED
    BY <1>0, <1>1, <1>2, <2>1 DEF DeskInv, LoanHistory, PageKeeps
<1>6. RebateHistory'
  BY <1>0, <1>1, <1>2, <1>3, PageKeepsTheServer DEF DeskInv, RebateHistory, PageKeeps
<1> QED
  BY <1>1, <1>4, <1>5, <1>6, PageStep

\* A dialog is confirmed, and what it was opened for is sent.
LEMMA ConfirmKeeps ==
  ASSUME DeskInv, Desk!Confirm
  PROVE  DeskInv'
<1>1. /\ PageKeeps /\ UNCHANGED <<desk, view, pending>>
      /\ request' = [action |-> desk.dialog, quote |-> 0, rebate |-> 0]
      /\ desk.dialog \in Desk!WithDialog
  BY DEF Desk!Confirm, Desk!Send, PageKeeps
<1>2. DeskTyped'
  BY <1>1 DEF DeskInv, DeskTyped, Desk!TypeOK, Desk!QuoteShown, PageKeeps, Actions,
     Desk!Offered, Desk!WithDialog
<1>3. LoanHistory'
  BY <1>1 DEF DeskInv, LoanHistory, PageKeeps
<1>4. RebateHistory'
  BY <1>1, PageKeepsTheServer DEF DeskInv, RebateHistory, Desk!QuoteShown, PageKeeps,
     Desk!WithDialog
<1> QED
  BY <1>1, <1>2, <1>3, <1>4, PageStep

\* The button of foreclosure shows the pending quote, or asks for one.
LEMMA PressForeclosureKeeps ==
  ASSUME DeskInv, Desk!PressForeclosure
  PROVE  DeskInv'
<1>1. PageKeeps /\ UNCHANGED <<view, pending>> /\ desk.dialog = "none" /\ ~ Desk!QuoteShown
  BY DEF Desk!PressForeclosure, PageKeeps, Desk!QuoteShown
<1>2. CASE pending # 0
  <2>1. /\ desk' = [dialog |-> "quote", quote |-> pending, expired |-> FALSE, rebate |-> desk.rebate]
        /\ UNCHANGED request
    BY <1>2 DEF Desk!PressForeclosure, DeskInv, DeskTyped
  <2>2. /\ desk'.dialog = "quote" /\ desk'.quote = pending /\ desk'.expired = FALSE
        /\ desk'.rebate = desk.rebate
        /\ pending \in 0..Len(quotes) /\ Len(quotes) \in Nat
    BY <2>1 DEF DeskInv, DeskTyped, Desk!TypeOK
  <2>3. DeskTyped'
    BY <1>1, <1>2, <2>1, <2>2 DEF DeskInv, DeskTyped, Desk!TypeOK, Desk!QuoteShown, PageKeeps
  <2>4. LoanHistory'
    BY <1>1, <2>1, <2>2 DEF DeskInv, LoanHistory, PageKeeps
  <2>5. RebateHistory'
    BY <1>1, <2>1, <2>2, PageKeepsTheServer DEF DeskInv, RebateHistory, Desk!QuoteShown, PageKeeps
  <2> QED
    BY <1>1, <2>3, <2>4, <2>5, PageStep
<1>3. CASE pending = 0
  <2>1. UNCHANGED desk /\ request' = [action |-> "quote", quote |-> 0, rebate |-> desk.rebate]
    BY <1>3 DEF Desk!PressForeclosure, Desk!Send
  <2>2. DeskTyped'
    BY <1>1, <2>1 DEF DeskInv, DeskTyped, Desk!TypeOK, Desk!QuoteShown, PageKeeps, Actions,
       Desk!Offered
  <2>3. LoanHistory'
    BY <1>1, <2>1 DEF DeskInv, LoanHistory, PageKeeps
  <2>4. RebateHistory'
    BY <1>1, <2>1, PageKeepsTheServer DEF DeskInv, RebateHistory, Desk!QuoteShown, PageKeeps
  <2> QED
    BY <1>1, <2>2, <2>3, <2>4, PageStep
<1> QED
  BY <1>2, <1>3

\* Steps that change nothing but the desk, and keep its quote and its dialog or
\* put it away.
LEMMA TimerFiresKeeps ==
  ASSUME DeskInv, Desk!TimerFires
  PROVE  DeskInv'
<1>1. /\ PageKeeps /\ UNCHANGED <<request, view, pending>> /\ Desk!QuoteShown
      /\ desk' = [desk EXCEPT !.expired = TRUE] /\ quotes[desk.quote].expired
  BY DEF Desk!TimerFires, PageKeeps
<1>2. /\ desk'.dialog = desk.dialog /\ desk'.quote = desk.quote /\ desk'.expired = TRUE
      /\ desk'.rebate = desk.rebate
  BY <1>1 DEF DeskInv, DeskTyped
<1>3. DeskTyped'
  BY <1>1, <1>2 DEF DeskInv, DeskTyped, Desk!TypeOK, Desk!QuoteShown, PageKeeps
<1>4. LoanHistory'
  BY <1>1, <1>2 DEF DeskInv, LoanHistory, PageKeeps
<1>5. RebateHistory'
  BY <1>1, <1>2, PageKeepsTheServer DEF DeskInv, RebateHistory, Desk!QuoteShown, PageKeeps
<1> QED
  BY <1>1, <1>3, <1>4, <1>5, PageStep

\* The button under a quote that is shown: executing it, or another quote for the
\* one that expired.
LEMMA PressQuoteButtonKeeps ==
  ASSUME DeskInv, Desk!PressQuoteButton
  PROVE  DeskInv'
<1>1. PageKeeps /\ UNCHANGED <<request, view, pending>> /\ Desk!QuoteShown /\ desk.dialog = "quote"
  BY DEF Desk!PressQuoteButton, PageKeeps, Desk!QuoteShown
<1>2. CASE desk.expired
  <2>1. /\ desk'.dialog = "none" /\ desk'.quote = 0 /\ desk'.expired = desk.expired
        /\ desk'.rebate = desk.rebate
        /\ desk' = [dialog |-> "none", quote |-> 0, expired |-> desk.expired, rebate |-> desk.rebate]
    BY <1>2 DEF Desk!PressQuoteButton, DeskInv, DeskTyped
  <2>2. SomeExpired
    BY <1>1, <1>2 DEF DeskInv, RebateHistory, SomeExpired, DeskTyped, Desk!TypeOK
  <2>3. DeskTyped'
    BY <1>1, <2>1 DEF DeskInv, DeskTyped, Desk!TypeOK, Desk!QuoteShown, PageKeeps
  <2>4. LoanHistory'
    BY <1>1, <2>1 DEF DeskInv, LoanHistory, PageKeeps
  <2>5. RebateHistory'
    BY <1>1, <2>1, <2>2, PageKeepsTheServer DEF DeskInv, RebateHistory, Desk!QuoteShown, PageKeeps
  <2> QED
    BY <1>1, <2>3, <2>4, <2>5, PageStep
<1>3. CASE ~ desk.expired
  <2>1. /\ desk'.dialog = "execute" /\ desk'.quote = desk.quote /\ desk'.expired = desk.expired
        /\ desk'.rebate = desk.rebate
        /\ desk' = [desk EXCEPT !.dialog = "execute"]
    BY <1>3 DEF Desk!PressQuoteButton, DeskInv, DeskTyped
  <2>3. DeskTyped'
    BY <1>1, <2>1 DEF DeskInv, DeskTyped, Desk!TypeOK, Desk!QuoteShown, PageKeeps
  <2>4. LoanHistory'
    BY <1>1, <2>1 DEF DeskInv, LoanHistory, PageKeeps
  <2>5. RebateHistory'
    BY <1>1, <1>3, <2>1, PageKeepsTheServer DEF DeskInv, RebateHistory, Desk!QuoteShown, PageKeeps
  <2> QED
    BY <1>1, <2>3, <2>4, <2>5, PageStep
<1> QED
  BY <1>2, <1>3

\* A rebate is typed into the dialog of the execution.
LEMMA TypeRebateKeeps ==
  ASSUME DeskInv, Desk!TypeRebate
  PROVE  DeskInv'
<1>1. PICK rebate \in 0..MaxOwed :
        /\ PageKeeps /\ UNCHANGED <<request, view, pending>> /\ desk.dialog = "execute"
        /\ desk' = [desk EXCEPT !.rebate = rebate]
  BY DEF Desk!TypeRebate, PageKeeps
<1>2. /\ desk'.dialog = desk.dialog /\ desk'.quote = desk.quote /\ desk'.expired = desk.expired
      /\ desk'.rebate = rebate /\ rebate \in Nat
  BY <1>1, PagesAssumption DEF PagesAssumption, DeskInv, DeskTyped, Desk!LoanDeskAssumption
<1>3. DeskTyped'
  BY <1>1, <1>2 DEF DeskInv, DeskTyped, Desk!TypeOK, Desk!QuoteShown, PageKeeps
<1>4. LoanHistory'
  BY <1>1, <1>2 DEF DeskInv, LoanHistory, PageKeeps
<1>5. RebateHistory'
  BY <1>1, <1>2, PageKeepsTheServer DEF DeskInv, RebateHistory, Desk!QuoteShown, PageKeeps
<1> QED
  BY <1>1, <1>3, <1>4, <1>5, PageStep

\* An execution is sent for the quote that is shown, with the rebate typed.
LEMMA PressExecuteKeeps ==
  ASSUME DeskInv, Desk!PressExecute
  PROVE  DeskInv'
<1>1. /\ PageKeeps /\ UNCHANGED <<desk, view, pending>> /\ Desk!QuoteShown
      /\ request' = [action |-> "execute", quote |-> desk.quote, rebate |-> desk.rebate]
  BY DEF Desk!PressExecute, Desk!Send, PageKeeps, Desk!QuoteShown
<1>2. desk.quote \in DOMAIN quotes
  BY <1>1 DEF DeskInv, DeskTyped, Desk!TypeOK
<1>3. DeskTyped'
  BY <1>1, <1>2 DEF DeskInv, DeskTyped, Desk!TypeOK, Desk!QuoteShown, PageKeeps, Actions
<1>4. LoanHistory'
  BY <1>1 DEF DeskInv, LoanHistory, PageKeeps
<1>5. RebateHistory'
  BY <1>1, PageKeepsTheServer DEF DeskInv, RebateHistory, Desk!QuoteShown, PageKeeps
<1> QED
  BY <1>1, <1>3, <1>4, <1>5, PageStep

\* A dialog is closed, and what was typed into it may stay.
LEMMA CloseDialogKeeps ==
  ASSUME DeskInv, Desk!CloseDialog
  PROVE  DeskInv'
<1>1. PageKeeps /\ UNCHANGED <<request, view, pending>>
  BY DEF Desk!CloseDialog, PageKeeps
<1>2. CASE desk.dialog = "execute"
  <2>1. /\ desk' = [desk EXCEPT !.dialog = "quote"]
        /\ desk'.dialog = "quote" /\ desk'.quote = desk.quote /\ desk'.expired = desk.expired
        /\ desk'.rebate = desk.rebate
    BY <1>2 DEF Desk!CloseDialog, DeskInv, DeskTyped
  <2>2. DeskTyped'
    BY <1>1, <1>2, <2>1 DEF DeskInv, DeskTyped, Desk!TypeOK, Desk!QuoteShown, PageKeeps
  <2>3. LoanHistory'
    BY <1>1, <2>1 DEF DeskInv, LoanHistory, PageKeeps
  <2>4. RebateHistory'
    BY <1>1, <1>2, <2>1, PageKeepsTheServer DEF DeskInv, RebateHistory, Desk!QuoteShown, PageKeeps
  <2> QED
    BY <1>1, <2>2, <2>3, <2>4, PageStep
<1>3. CASE desk.dialog = "quote"
  <2>1. desk' = [dialog |-> "none", quote |-> 0, expired |-> FALSE, rebate |-> 0]
    BY <1>3 DEF Desk!CloseDialog, Desk!FreshDesk
  <2>2. DeskTyped'
    BY <1>1, <2>1 DEF DeskInv, DeskTyped, Desk!TypeOK, Desk!QuoteShown, PageKeeps
  <2>3. LoanHistory'
    BY <1>1, <2>1 DEF DeskInv, LoanHistory, PageKeeps
  <2>4. RebateHistory'
    BY <1>1, <2>1, PageKeepsTheServer DEF DeskInv, RebateHistory, Desk!QuoteShown, PageKeeps
  <2> QED
    BY <1>1, <2>2, <2>3, <2>4, PageStep
<1>4. CASE desk.dialog \notin {"execute", "quote"}
  <2>1. /\ desk' = [desk EXCEPT !.dialog = "none"]
        /\ desk'.dialog = "none" /\ desk'.quote = desk.quote /\ desk'.expired = desk.expired
        /\ desk'.rebate = desk.rebate
    BY <1>4 DEF Desk!CloseDialog, DeskInv, DeskTyped
  <2>2. DeskTyped'
    BY <1>1, <2>1 DEF DeskInv, DeskTyped, Desk!TypeOK, Desk!QuoteShown, PageKeeps
  <2>3. LoanHistory'
    BY <1>1, <2>1 DEF DeskInv, LoanHistory, PageKeeps
  <2>4. RebateHistory'
    BY <1>1, <1>4, <2>1, PageKeepsTheServer DEF DeskInv, RebateHistory, Desk!QuoteShown, PageKeeps
  <2> QED
    BY <1>1, <2>2, <2>3, <2>4, PageStep
<1> QED
  BY <1>2, <1>3, <1>4

\* A request is refused, and nothing but the page learns of it.
LEMMA RefusedKeeps ==
  ASSUME DeskInv, Desk!Refused
  PROVE  DeskInv'
<1>1. PageKeeps /\ UNCHANGED <<desk, view, pending>>
      /\ request' = [action |-> "none", quote |-> 0, rebate |-> 0]
  BY DEF Desk!Refused, PageKeeps, Desk!NoRequest
<1>2. DeskTyped'
  BY <1>1 DEF DeskInv, DeskTyped, Desk!TypeOK, Desk!QuoteShown, PageKeeps, Desk!NoRequest
<1>3. LoanHistory'
  BY <1>1 DEF DeskInv, LoanHistory, PageKeeps
<1>4. RebateHistory'
  BY <1>1, PageKeepsTheServer DEF DeskInv, RebateHistory, Desk!QuoteShown, PageKeeps
<1> QED
  BY <1>1, <1>2, <1>3, <1>4, PageStep

\* The page loads the loan, or its pending quote.
LEMMA LoadKeeps ==
  ASSUME DeskInv, Desk!LoadLoan \/ Desk!LoadPending
  PROVE  DeskInv'
<1>1. /\ PageKeeps /\ UNCHANGED <<desk, request>> /\ view' \in {view, loan}
      /\ pending' \in {pending, Desk!PendingQuote}
  BY DEF Desk!LoadLoan, Desk!LoadPending, PageKeeps
<1>2. DeskTyped'
  BY <1>1, PendingQuoteExists DEF DeskInv, DeskTyped, Desk!TypeOK, Desk!QuoteShown, PageKeeps
<1>3. LoanHistory'
  BY <1>1 DEF DeskInv, LoanHistory, PageKeeps
<1>4. RebateHistory'
  BY <1>1, PageKeepsTheServer DEF DeskInv, RebateHistory, Desk!QuoteShown, PageKeeps
<1> QED
  BY <1>1, <1>2, <1>3, <1>4, PageStep
-----------------------------------------------------------------------------
(* What happens on the server. *)

\* A quote is kept, and once expired it stays so.
QuotesGrow ==
  /\ quotes' \in Seq(QuoteRecord) /\ Len(quotes) <= Len(quotes')
  /\ \A i \in DOMAIN quotes : quotes[i].expired => quotes'[i].expired

\* A quote that expired stays so.
LEMMA ExpiredStays ==
  ASSUME DeskTyped, QuotesGrow
  PROVE  /\ SomeExpired => SomeExpired'
         /\ DOMAIN quotes \subseteq DOMAIN quotes'
<1>1. /\ DOMAIN quotes = 1..Len(quotes) /\ DOMAIN quotes' = 1..Len(quotes')
      /\ Len(quotes) \in Nat /\ Len(quotes') \in Nat /\ Len(quotes) <= Len(quotes')
  BY DEF DeskTyped, QuotesGrow
<1>2. DOMAIN quotes \subseteq DOMAIN quotes'
  BY <1>1
<1> QED
  BY <1>2 DEF SomeExpired, QuotesGrow

\* The page keeps what it knows while the server moves on.
LEMMA ServerStep ==
  ASSUME DeskInv, UNCHANGED <<role, view, pending, desk, request>>,
         QuotesGrow, \A i \in DOMAIN quotes' : quotes'[i].rebate <= quotes'[i].dues,
         loan' \in Desk!Shown, hidden' \in Desk!Hidden, LoanHistory', Desk!OneSettlement', Desk!RebateNeedsAnExpiredQuote'
  PROVE  DeskInv'
<1>1. /\ Len(quotes) \in Nat /\ Len(quotes') \in Nat /\ Len(quotes) <= Len(quotes')
      /\ DOMAIN quotes \subseteq DOMAIN quotes'
  BY ExpiredStays DEF DeskInv, DeskTyped, QuotesGrow
<1>2. DeskTyped'
  BY <1>1 DEF DeskInv, DeskTyped, Desk!TypeOK, Desk!QuoteShown, QuotesGrow
<1>3. RebateHistory'
  <2>1. Desk!QuoteShown => desk.quote \in DOMAIN quotes
    BY DEF DeskInv, DeskTyped, Desk!TypeOK
  <2>2. Desk!QuoteShown /\ desk.expired => quotes'[desk.quote].expired
    BY <2>1 DEF DeskInv, RebateHistory, QuotesGrow
  <2>3. SomeExpired => SomeExpired'
    BY ExpiredStays DEF DeskInv
  <2> QED
    BY <2>2, <2>3 DEF DeskInv, RebateHistory, Desk!QuoteShown
<1> QED
  BY <1>2, <1>3 DEF DeskInv

\* Nothing is to be shown of quotes that do not change.
LEMMA QuotesStay ==
  ASSUME DeskInv, UNCHANGED quotes
  PROVE  /\ QuotesGrow /\ Desk!RebateNeedsAnExpiredQuote'
         /\ \A i \in DOMAIN quotes' : quotes'[i].rebate <= quotes'[i].dues
BY DEF DeskInv, DeskTyped, Desk!TypeOK, QuotesGrow, Desk!RebateNeedsAnExpiredQuote

\* A quote is appended.
LEMMA QuoteAppended ==
  ASSUME DeskInv, NEW who \in {"me", "other"}, NEW rebate \in Nat, rebate <= Desk!Dues(loan),
         rebate > 0 => SomeExpired,
         quotes' = Append(quotes, Desk!NewQuote(rebate, who)), UNCHANGED loan
  PROVE  /\ QuotesGrow /\ Desk!RebateNeedsAnExpiredQuote' /\ Desk!OneSettlement'
         /\ \A i \in DOMAIN quotes' : quotes'[i].rebate <= quotes'[i].dues
         /\ Len(quotes') = Len(quotes) + 1
<1>1. PICK q : q = Desk!NewQuote(rebate, who)
  OBVIOUS
<1>2. /\ q \in QuoteRecord /\ q.rebate = rebate /\ q.status = "quote" /\ q.rebate <= q.dues
  <2>1. Desk!Dues(loan) \in Nat
    BY DuesTyped DEF DeskInv, DeskTyped, Desk!TypeOK
  <2> QED
    BY <1>1, <2>1 DEF Desk!NewQuote, QuoteRecord
<1>3. PICK n \in Nat : n = Len(quotes)
  BY DEF DeskInv, DeskTyped
<1>4. /\ quotes' \in Seq(QuoteRecord) /\ Len(quotes') = n + 1
      /\ DOMAIN quotes = 1..n /\ DOMAIN quotes' = 1..(n + 1)
      /\ quotes'[n + 1] = q /\ \A i \in 1..n : quotes'[i] = quotes[i]
  BY <1>1, <1>2, <1>3 DEF DeskInv, DeskTyped
<1>5. QuotesGrow
  BY <1>3, <1>4 DEF QuotesGrow
<1>6. Desk!RebateNeedsAnExpiredQuote'
  <2> SUFFICES ASSUME NEW i \in 1..(n + 1), quotes'[i].rebate > 0
               PROVE  \E j \in 1..(i - 1) : quotes'[j].expired
    BY <1>4 DEF Desk!RebateNeedsAnExpiredQuote
  <2>1. CASE i \in 1..n
    <3>1. PICK j \in 1..(i - 1) : quotes[j].expired
      BY <1>4, <2>1 DEF DeskInv, Desk!RebateNeedsAnExpiredQuote
    <3> QED
      BY <1>4, <2>1, <3>1
  <2>2. CASE i = n + 1
    <3>1. PICK j \in 1..n : quotes[j].expired
      BY <1>2, <1>4, <2>2 DEF SomeExpired
    <3> QED
      BY <1>4, <2>2, <3>1
  <2>3. i \in 1..n \/ i = n + 1
    OBVIOUS
  <2> QED
    BY <2>1, <2>2, <2>3
<1>7. Desk!OneSettlement'
  <2>1. {i \in DOMAIN quotes' : quotes'[i].status = "settled"}
        = {i \in DOMAIN quotes : quotes[i].status = "settled"}
    <3>1. \A i \in 1..(n + 1) : i \in 1..n \/ i = n + 1
      OBVIOUS
    <3> QED
      BY <1>2, <1>4, <3>1
  <2> QED
    BY <2>1 DEF DeskInv, Desk!OneSettlement
<1>8. \A i \in DOMAIN quotes' : quotes'[i].rebate <= quotes'[i].dues
  <2>1. \A i \in 1..(n + 1) : i \in 1..n \/ i = n + 1
    OBVIOUS
  <2> QED
    BY <1>2, <1>4, <2>1 DEF DeskInv, DeskTyped, Desk!TypeOK
<1> QED
  BY <1>3, <1>4, <1>5, <1>6, <1>7, <1>8

\* A quote is executed against a loan that runs.
LEMMA QuoteExecuted ==
  ASSUME DeskInv, Desk!Running(loan), NEW q \in DOMAIN quotes,
         quotes' = [quotes EXCEPT ![q].status = "settled"], loan' = Desk!After("execute"),
         view' = view, desk'.dialog \in {desk.dialog, "none"}, request' \in {request, Desk!NoRequest}
  PROVE  /\ QuotesGrow /\ Desk!RebateNeedsAnExpiredQuote' /\ Desk!OneSettlement'
         /\ \A i \in DOMAIN quotes' : quotes'[i].rebate <= quotes'[i].dues
         /\ loan' \in Desk!Shown /\ LoanHistory'
<1>1. /\ loan'.status = "foreclosed" /\ loan'.rows = "payment"
      /\ loan'.owed + loan'.paid <= MaxOwed /\ loan' \in Desk!Shown
  <2>1. loan \in Desk!Shown /\ MaxOwed \in Nat /\ loan.owed \in 0..MaxOwed /\ 0 \in 0..MaxOwed
    BY PagesAssumption DEF PagesAssumption, DeskInv, DeskTyped, Desk!TypeOK, Desk!Shown,
       Desk!LoanDeskAssumption
  <2>2. loan' = [status |-> "foreclosed", owed |-> 0, rows |-> "payment", paid |-> loan.owed,
                 penalty |-> IF loan.penalty = "pending" THEN "paid" ELSE loan.penalty]
    BY <2>1 DEF Desk!After, Desk!Shown
  <2>3. loan'.owed + loan'.paid <= MaxOwed
    BY <2>1, <2>2
  <2> QED
    BY <2>1, <2>2, <2>3 DEF Desk!Shown, Desk!Statuses
<1>2. /\ quotes' \in Seq(QuoteRecord) /\ Len(quotes') = Len(quotes) /\ DOMAIN quotes' = DOMAIN quotes
      /\ \A i \in DOMAIN quotes : /\ quotes'[i].expired = quotes[i].expired
                                  /\ quotes'[i].rebate = quotes[i].rebate
                                  /\ quotes'[i].dues = quotes[i].dues
                                  /\ quotes'[i].status = IF i = q THEN "settled" ELSE quotes[i].status
      /\ Len(quotes) \in Nat
  <2>1. /\ quotes \in Seq(QuoteRecord) /\ DOMAIN quotes = 1..Len(quotes) /\ Len(quotes) \in Nat
        /\ quotes \in [1..Len(quotes) -> QuoteRecord]
    BY DEF DeskInv, DeskTyped
  <2>2. quotes' = [quotes EXCEPT ![q] = [quotes[q] EXCEPT !.status = "settled"]]
    OBVIOUS
  <2>3. PICK x : x = [quotes[q] EXCEPT !.status = "settled"]
    OBVIOUS
  <2>4. /\ x \in QuoteRecord /\ x.status = "settled" /\ x.expired = quotes[q].expired
        /\ x.rebate = quotes[q].rebate /\ x.dues = quotes[q].dues
    BY <2>1, <2>3 DEF QuoteRecord
  <2>5. quotes' = [quotes EXCEPT ![q] = x]
    BY <2>2, <2>3
  <2>6. quotes' \in [1..Len(quotes) -> QuoteRecord]
    BY <2>1, <2>4, <2>5
  <2>7. quotes' \in Seq(QuoteRecord) /\ Len(quotes') = Len(quotes)
    BY <2>1, <2>6
  <2> QED
    BY <2>1, <2>4, <2>5, <2>6, <2>7
<1>3. QuotesGrow
  BY <1>2 DEF QuotesGrow
<1>4. Desk!RebateNeedsAnExpiredQuote'
  <2> SUFFICES ASSUME NEW i \in DOMAIN quotes, quotes[i].rebate > 0
               PROVE  \E j \in 1..(i - 1) : quotes'[j].expired
    BY <1>2 DEF Desk!RebateNeedsAnExpiredQuote
  <2>1. PICK j \in 1..(i - 1) : quotes[j].expired
    BY DEF DeskInv, Desk!RebateNeedsAnExpiredQuote
  <2>2. j \in DOMAIN quotes
    BY <2>1 DEF DeskInv, DeskTyped
  <2> QED
    BY <1>2, <2>1, <2>2
<1>5. Desk!OneSettlement'
  <2>1. \A i \in DOMAIN quotes : quotes[i].status # "settled"
    BY DEF Desk!Running, DeskInv, Desk!OneSettlement
  <2> QED
    BY <1>1, <1>2, <2>1 DEF Desk!OneSettlement
<1>6. LoanHistory'
  BY <1>1 DEF LoanHistory, Undecided
<1>7. \A i \in DOMAIN quotes' : quotes'[i].rebate <= quotes'[i].dues
  BY <1>2 DEF DeskInv, DeskTyped, Desk!TypeOK
<1> QED
  BY <1>1, <1>3, <1>4, <1>5, <1>6, <1>7

\* Somebody else decides on the loan.
LEMMA OthersDecideKeeps ==
  ASSUME DeskInv, NEW action \in {"submit", "review", "approve", "disburse"}, Desk!OthersDecide(action)
  PROVE  DeskInv'
<1>1. /\ UNCHANGED <<role, quotes, view, pending, desk, request>> /\ loan' = Desk!After(action)
      /\ hidden' = Desk!HiddenAfter(action, "other")
      /\ loan.status \in {"draft", "submitted", "under_review", "approved"}
  BY DEF Desk!OthersDecide
<1>2. /\ loan' \in Desk!Shown /\ loan'.status \in {"submitted", "under_review", "approved", "active"}
      /\ loan'.rows = loan.rows /\ loan'.owed = loan.owed /\ loan'.paid = loan.paid
  BY <1>1 DEF Desk!After, DeskInv, DeskTyped, Desk!TypeOK, Desk!Shown, Desk!Statuses
<1>3. hidden' \in Desk!Hidden
  BY <1>1 DEF Desk!HiddenAfter, DeskInv, DeskTyped, Desk!TypeOK, Desk!Hidden
<1>4. LoanHistory'
  BY <1>1, <1>2 DEF DeskInv, LoanHistory, Undecided
<1>5. Desk!OneSettlement'
  BY <1>1 DEF DeskInv, Desk!OneSettlement
<1> QED
  BY <1>1, <1>2, <1>3, <1>4, <1>5, QuotesStay, ServerStep

\* A payment is recorded elsewhere.
LEMMA PaymentLandsKeeps ==
  ASSUME DeskInv, Desk!PaymentLands
  PROVE  DeskInv'
<1>1. /\ UNCHANGED <<role, hidden, quotes, view, pending, desk, request>> /\ Desk!Running(loan)
  BY DEF Desk!PaymentLands, Desk!OthersChange
<1>2. /\ loan' \in Desk!Shown /\ loan'.status \in {loan.status, "closed", "active"}
      /\ loan'.rows = "payment" /\ loan'.owed + loan'.paid <= MaxOwed
  <2>1. MaxOwed \in Nat /\ loan.owed \in 0..MaxOwed /\ loan \in Desk!Shown
    BY PagesAssumption DEF PagesAssumption, DeskInv, DeskTyped, Desk!TypeOK, Desk!Shown,
       Desk!LoanDeskAssumption
  <2>2. PICK a \in 1..loan.owed :
          loan' = [[loan EXCEPT !.owed = @ - a, !.rows = "payment", !.paid = a]
                    EXCEPT !.status = Desk!StatusOwing([loan EXCEPT !.owed = @ - a, !.rows = "payment",
                                                                    !.paid = a])]
    BY DEF Desk!PaymentLands, Desk!OthersChange
  <2>3. /\ loan.owed - a \in 0..MaxOwed /\ a \in 0..MaxOwed /\ (loan.owed - a) + a <= MaxOwed
    BY <2>1
  <2>4. PICK st : st = Desk!StatusOwing([loan EXCEPT !.owed = @ - a, !.rows = "payment", !.paid = a])
    OBVIOUS
  <2>5. st \in {loan.status, "closed", "active"}
    BY <2>1, <2>4 DEF Desk!StatusOwing, Desk!Shown
  <2>6. loan' = [status |-> st, owed |-> loan.owed - a, penalty |-> loan.penalty, rows |-> "payment",
                 paid |-> a]
    BY <2>1, <2>2, <2>4 DEF Desk!Shown
  <2>7. st \in Desk!Statuses /\ loan.penalty \in {"none", "pending", "waived", "paid"}
    BY <2>1, <2>5 DEF Desk!Shown, Desk!Statuses
  <2>8. loan' \in Desk!Shown
    BY <2>3, <2>6, <2>7 DEF Desk!Shown
  <2> QED
    BY <2>3, <2>5, <2>6, <2>8
<1>3. LoanHistory'
  BY <1>1, <1>2 DEF LoanHistory, Desk!Running, Undecided
<1>4. Desk!OneSettlement'
  BY <1>1 DEF DeskInv, Desk!OneSettlement, Desk!Running
<1>5. hidden' \in Desk!Hidden
  BY <1>1 DEF DeskInv, DeskTyped, Desk!TypeOK
<1> QED
  BY <1>1, <1>2, <1>3, <1>4, <1>5, QuotesStay, ServerStep

\* The nightly job posts a penalty.
LEMMA PenaltyPostedKeeps ==
  ASSUME DeskInv, Desk!PenaltyPosted
  PROVE  DeskInv'
<1>1. /\ UNCHANGED <<role, hidden, quotes, view, pending, desk, request>> /\ Desk!Running(loan)
      /\ loan' = [loan EXCEPT !.penalty = "pending", !.status = "overdue"]
  BY DEF Desk!PenaltyPosted, Desk!OthersChange
<1>2. /\ loan' \in Desk!Shown /\ loan'.status = "overdue" /\ loan'.rows = loan.rows
      /\ loan'.owed = loan.owed /\ loan'.paid = loan.paid
  BY <1>1 DEF DeskInv, DeskTyped, Desk!TypeOK, Desk!Shown, Desk!Statuses
<1>3. LoanHistory'
  BY <1>1, <1>2 DEF DeskInv, LoanHistory, Undecided
<1>4. Desk!OneSettlement'
  BY <1>1 DEF DeskInv, Desk!OneSettlement, Desk!Running
<1>5. hidden' \in Desk!Hidden
  BY <1>1 DEF DeskInv, DeskTyped, Desk!TypeOK
<1> QED
  BY <1>1, <1>2, <1>3, <1>4, <1>5, QuotesStay, ServerStep

\* Somebody else asks for a quote.
LEMMA OthersQuoteKeeps ==
  ASSUME DeskInv, Desk!OthersQuote
  PROVE  DeskInv'
<1>1. /\ UNCHANGED <<role, loan, hidden, view, pending, desk, request>>
      /\ quotes' = Append(quotes, Desk!NewQuote(0, "other"))
  BY DEF Desk!OthersQuote
<1>2. 0 <= Desk!Dues(loan)
  <2>1. Desk!Dues(loan) \in Nat
    BY DuesTyped DEF DeskInv, DeskTyped, Desk!TypeOK
  <2> QED
    BY <2>1
<1>3. /\ QuotesGrow /\ Desk!RebateNeedsAnExpiredQuote' /\ Desk!OneSettlement'
      /\ \A i \in DOMAIN quotes' : quotes'[i].rebate <= quotes'[i].dues
  BY <1>1, <1>2, QuoteAppended
<1>4. LoanHistory' /\ loan' \in Desk!Shown /\ hidden' \in Desk!Hidden
  BY <1>1 DEF DeskInv, LoanHistory, DeskTyped, Desk!TypeOK
<1> QED
  BY <1>1, <1>3, <1>4, ServerStep

\* Somebody else executes a quote.
LEMMA OthersExecuteKeeps ==
  ASSUME DeskInv, Desk!OthersExecute
  PROVE  DeskInv'
<1>1. /\ UNCHANGED <<role, hidden, view, pending, desk, request>> /\ Desk!Running(loan)
      /\ loan' = Desk!After("execute")
  BY DEF Desk!OthersExecute
<1>2. PICK i \in DOMAIN quotes : quotes' = [quotes EXCEPT ![i].status = "settled"]
  BY DEF Desk!OthersExecute
<1>3. /\ QuotesGrow /\ Desk!RebateNeedsAnExpiredQuote' /\ Desk!OneSettlement'
      /\ \A j \in DOMAIN quotes' : quotes'[j].rebate <= quotes'[j].dues
      /\ loan' \in Desk!Shown /\ LoanHistory'
  BY <1>1, <1>2, QuoteExecuted
<1>4. hidden' \in Desk!Hidden
  BY <1>1 DEF DeskInv, DeskTyped, Desk!TypeOK
<1> QED
  BY <1>1, <1>3, <1>4, ServerStep

\* A quote expires.
LEMMA QuoteExpiresKeeps ==
  ASSUME DeskInv, Desk!QuoteExpires
  PROVE  DeskInv'
<1>1. UNCHANGED <<role, loan, hidden, view, pending, desk, request>>
  BY DEF Desk!QuoteExpires
<1>2. PICK q \in DOMAIN quotes : quotes' = [quotes EXCEPT ![q].expired = TRUE]
  BY DEF Desk!QuoteExpires
<1>3. /\ quotes \in Seq(QuoteRecord) /\ DOMAIN quotes = 1..Len(quotes) /\ Len(quotes) \in Nat
      /\ quotes \in [1..Len(quotes) -> QuoteRecord]
  BY DEF DeskInv, DeskTyped
<1>4. PICK x : x = [quotes[q] EXCEPT !.expired = TRUE]
  OBVIOUS
<1>5. /\ x \in QuoteRecord /\ x.status = quotes[q].status /\ x.expired = TRUE
      /\ x.rebate = quotes[q].rebate /\ x.dues = quotes[q].dues
  BY <1>3, <1>4 DEF QuoteRecord
<1>6. quotes' = [quotes EXCEPT ![q] = x]
  BY <1>2, <1>4
<1>7. quotes' \in [1..Len(quotes) -> QuoteRecord]
  BY <1>3, <1>5, <1>6
<1>8. quotes' \in Seq(QuoteRecord) /\ Len(quotes') = Len(quotes) /\ DOMAIN quotes' = DOMAIN quotes
  BY <1>3, <1>7
<1>9. \A i \in DOMAIN quotes : /\ quotes[i].expired => quotes'[i].expired
                               /\ quotes'[i].rebate = quotes[i].rebate
                               /\ quotes'[i].dues = quotes[i].dues
                               /\ quotes'[i].status = quotes[i].status
  BY <1>3, <1>5, <1>6
<1>10. QuotesGrow
  BY <1>3, <1>8, <1>9 DEF QuotesGrow
<1>11. Desk!RebateNeedsAnExpiredQuote'
  <2> SUFFICES ASSUME NEW i \in DOMAIN quotes, quotes[i].rebate > 0
               PROVE  \E j \in 1..(i - 1) : quotes'[j].expired
    BY <1>8, <1>9 DEF Desk!RebateNeedsAnExpiredQuote
  <2>1. PICK j \in 1..(i - 1) : quotes[j].expired
    BY DEF DeskInv, Desk!RebateNeedsAnExpiredQuote
  <2>2. j \in DOMAIN quotes
    BY <1>3, <2>1
  <2> QED
    BY <1>9, <2>1, <2>2
<1>12. Desk!OneSettlement'
  BY <1>1, <1>8, <1>9 DEF DeskInv, Desk!OneSettlement
<1>13. /\ \A i \in DOMAIN quotes' : quotes'[i].rebate <= quotes'[i].dues
       /\ LoanHistory' /\ loan' \in Desk!Shown /\ hidden' \in Desk!Hidden
  BY <1>1, <1>8, <1>9 DEF DeskInv, LoanHistory, DeskTyped, Desk!TypeOK
<1> QED
  BY <1>1, <1>10, <1>11, <1>12, <1>13, ServerStep
-----------------------------------------------------------------------------
(* The answer to a request of the page. *)

\* An accepted request that neither makes nor executes a quote.
LEMMA AcceptedChange ==
  ASSUME DeskInv, Desk!Accepted, request.action \notin {"quote", "execute"}
  PROVE  DeskInv'
<1> DEFINE a == request.action
<1>1. /\ a \in Desk!Offered /\ a # "quote" /\ a # "execute"
      /\ UNCHANGED <<role, view, pending, quotes>> /\ request' = Desk!NoRequest
      /\ loan' = Desk!After(a) /\ hidden' = Desk!HiddenAfter(a, "me")
      /\ desk' = [desk EXCEPT !.dialog = IF @ = a THEN "none" ELSE @]
      /\ Desk!Refusal(request) = "ok"
  BY DEF Desk!Accepted, Desk!Idle, DeskInv, DeskTyped, Actions, Desk!QuotesAfter
<1>2. /\ loan \in Desk!Shown /\ hidden \in Desk!Hidden
      /\ loan.owed + loan.paid <= MaxOwed
      /\ loan.status \in Undecided => loan.rows = "none"
      /\ MaxOwed \in Nat
  BY PagesAssumption DEF PagesAssumption, DeskInv, DeskTyped, Desk!TypeOK, LoanHistory,
     Desk!LoanDeskAssumption
<1>3. /\ loan' \in Desk!Shown /\ (loan.rows # "none" => loan'.rows # "none")
      /\ loan'.owed + loan'.paid <= MaxOwed
      /\ loan'.status \in Undecided => loan'.rows = "none"
      /\ loan.status = "foreclosed" => loan'.status = "foreclosed"
  <2>1. CASE a = "submit"
    <3>1. loan.status = "draft"
      BY <1>1, <2>1, FirstOfTwo DEF Desk!Refusal, Desk!SubmitRefusal, Desk!TransitionFrom,
         Desk!InStatus
    <3>2. loan' = [loan EXCEPT !.status = "submitted"]
      BY <1>1, <2>1 DEF Desk!After
    <3> QED
      BY <1>2, <3>1, <3>2 DEF Desk!Shown, Desk!Statuses, Undecided
  <2>2. CASE a = "review"
    <3>1. loan.status = "submitted"
      BY <1>1, <2>2 DEF Desk!Refusal, Desk!ReviewRefusal, Desk!TransitionFrom, Desk!InStatus
    <3>2. loan' = [loan EXCEPT !.status = "under_review"]
      BY <1>1, <2>2 DEF Desk!After
    <3> QED
      BY <1>2, <3>1, <3>2 DEF Desk!Shown, Desk!Statuses, Undecided
  <2>3. CASE a = "approve"
    <3>1. loan.status = "under_review"
      BY <1>1, <2>3, FirstOfTwo DEF Desk!Refusal, Desk!ApproveRefusal, Desk!TransitionFrom,
         Desk!InStatus
    <3>2. loan' = [loan EXCEPT !.status = "approved"]
      BY <1>1, <2>3 DEF Desk!After
    <3> QED
      BY <1>2, <3>1, <3>2 DEF Desk!Shown, Desk!Statuses, Undecided
  <2>4. CASE a = "reject"
    <3>1. loan.status = "under_review"
      BY <1>1, <2>4 DEF Desk!Refusal, Desk!RejectRefusal, Desk!TransitionFrom, Desk!InStatus
    <3>2. loan' = [loan EXCEPT !.status = "rejected"]
      BY <1>1, <2>4 DEF Desk!After
    <3> QED
      BY <1>2, <3>1, <3>2 DEF Desk!Shown, Desk!Statuses, Undecided
  <2>5. CASE a = "disburse"
    <3>1. loan.status = "approved"
      BY <1>1, <2>5, FirstOfThree DEF Desk!Refusal, Desk!DisburseRefusal, Desk!InStatus
    <3>2. loan' = [loan EXCEPT !.status = "active"]
      BY <1>1, <2>5 DEF Desk!After
    <3> QED
      BY <1>2, <3>1, <3>2 DEF Desk!Shown, Desk!Statuses, Undecided
  <2>6. CASE a = "close"
    <3>1. loan.status \in {"active", "overdue"}
      BY <1>1, <2>6, FirstOfTwo DEF Desk!Refusal, Desk!CloseRefusal, Desk!InStatus
    <3>2. loan' = [loan EXCEPT !.status = "closed"]
      BY <1>1, <2>6 DEF Desk!After
    <3> QED
      BY <1>2, <3>1, <3>2 DEF Desk!Shown, Desk!Statuses, Undecided
  <2>7. CASE a = "waive"
    <3>1. PICK st : st = IF loan.status = "overdue" /\ loan.owed = 0 THEN "active" ELSE loan.status
      OBVIOUS
    <3>2. loan' = [loan EXCEPT !.penalty = "waived", !.status = st]
      BY <1>1, <2>7, <3>1 DEF Desk!After
    <3> QED
      BY <1>2, <3>1, <3>2 DEF Desk!Shown, Desk!Statuses, Undecided
  <2>8. CASE a = "reverse"
    <3>1. loan.rows # "reversed"
      BY <1>1, <2>8 DEF Desk!Refusal, Desk!ReverseRefusal, Desk!Unless
    <3>2. loan.rows = "payment"
      BY <1>2, <2>8, <3>1 DEF DeskInv, LoanHistory, Desk!Shown
    <3>3. loan' = [status |-> loan.status, owed |-> loan.owed + loan.paid, penalty |-> loan.penalty,
                   rows |-> "reversed", paid |-> 0]
      BY <1>1, <1>2, <2>8 DEF Desk!After, Desk!Shown
    <3>4. /\ loan.owed + loan.paid \in 0..MaxOwed /\ 0 \in 0..MaxOwed
          /\ (loan.owed + loan.paid) + 0 <= MaxOwed
      BY <1>2 DEF Desk!Shown
    <3> QED
      BY <1>2, <3>2, <3>3, <3>4 DEF Desk!Shown
  <2>9. CASE a \in {"regenerate", "reverseReversal"}
    <3>1. loan' = loan
      BY <1>1, <2>9 DEF Desk!After
    <3> QED
      BY <1>2, <3>1
  <2> QED
    BY <1>1, <2>1, <2>2, <2>3, <2>4, <2>5, <2>6, <2>7, <2>8, <2>9
    DEF Desk!Offered, Desk!Immediate, Desk!WithDialog
<1>4. hidden' \in Desk!Hidden
  BY <1>1, <1>2 DEF Desk!HiddenAfter, Desk!Hidden
<1>5. /\ desk'.quote = desk.quote /\ desk'.expired = desk.expired /\ desk'.rebate = desk.rebate
      /\ desk'.dialog = IF desk.dialog = a THEN "none" ELSE desk.dialog
      /\ desk' = [dialog |-> desk'.dialog, quote |-> desk.quote, expired |-> desk.expired,
                  rebate |-> desk.rebate]
  BY <1>1 DEF DeskInv, DeskTyped
<1>6. Desk!QuoteShown' <=> Desk!QuoteShown
  BY <1>1, <1>5 DEF Desk!QuoteShown
<1>7. DeskTyped'
  BY <1>1, <1>3, <1>4, <1>5, <1>6 DEF DeskInv, DeskTyped, Desk!TypeOK, Desk!NoRequest
<1>8. LoanHistory'
  BY <1>1, <1>3, <1>5 DEF DeskInv, LoanHistory, Desk!NoRequest
<1>9. Desk!OneSettlement'
  BY <1>1, <1>3 DEF DeskInv, Desk!OneSettlement
<1>10. RebateHistory'
  <2>1. SomeExpired' <=> SomeExpired
    BY <1>1 DEF SomeExpired
  <2> QED
    BY <1>1, <1>5, <1>6, <2>1 DEF DeskInv, RebateHistory, Desk!NoRequest
<1>11. Desk!RebateNeedsAnExpiredQuote'
  BY <1>1 DEF DeskInv, Desk!RebateNeedsAnExpiredQuote
<1> QED
  BY <1>7, <1>8, <1>9, <1>10, <1>11 DEF DeskInv

\* A quote is made for the page, and shown.
LEMMA AcceptedQuote ==
  ASSUME DeskInv, Desk!Accepted, request.action = "quote"
  PROVE  DeskInv'
<1>1. /\ UNCHANGED <<role, view, pending, loan, hidden>> /\ request' = Desk!NoRequest
      /\ quotes' = Append(quotes, Desk!NewQuote(request.rebate, "me"))
      /\ desk' = [desk EXCEPT !.dialog = "quote", !.quote = Len(quotes) + 1, !.expired = FALSE]
      /\ Desk!QuoteRefusal(request.rebate) = "ok"
  BY DEF Desk!Accepted, Desk!After, Desk!HiddenAfter, Desk!QuotesAfter, Desk!DeskAfter, Desk!Refusal
<1>2. desk' = [dialog |-> "quote", quote |-> Len(quotes) + 1, expired |-> FALSE, rebate |-> desk.rebate]
  BY <1>1 DEF DeskInv, DeskTyped
<1>3. request.rebate \in Nat /\ (request.rebate > 0 => SomeExpired)
  BY DEF DeskInv, DeskTyped, RebateHistory
<1>4. request.rebate <= Desk!Dues(loan)
  <2>1. Desk!Unless(request.rebate > Desk!Dues(loan), "REBATE_EXCEEDS_DUES") = "ok"
    BY <1>1, FirstOfTwo DEF Desk!QuoteRefusal
  <2>2. Desk!Dues(loan) \in Nat
    BY DuesTyped DEF DeskInv, DeskTyped, Desk!TypeOK
  <2> QED
    BY <1>3, <2>1, <2>2 DEF Desk!Unless
<1>5. /\ QuotesGrow /\ Desk!RebateNeedsAnExpiredQuote' /\ Desk!OneSettlement'
      /\ \A i \in DOMAIN quotes' : quotes'[i].rebate <= quotes'[i].dues
      /\ Len(quotes') = Len(quotes) + 1
  BY <1>1, <1>3, <1>4, QuoteAppended
<1>6. /\ SomeExpired => SomeExpired'
      /\ Len(quotes) \in Nat /\ desk.rebate \in Nat
  BY <1>5, ExpiredStays DEF DeskInv, DeskTyped
<1>7. DeskTyped'
  <2>1. PICK n \in Nat : n = Len(quotes)
    BY <1>6
  <2>2. /\ Len(quotes') = n + 1 /\ desk'.quote = n + 1 /\ desk'.dialog = "quote"
        /\ desk' \in [dialog : {"quote"}, quote : Nat, expired : BOOLEAN, rebate : Nat]
    BY <1>2, <1>5, <1>6, <2>1
  <2>3. pending' \in 0..(n + 1) /\ desk'.quote \in 0..(n + 1)
    BY <1>1, <2>1, <2>2 DEF DeskInv, DeskTyped, Desk!TypeOK
  <2>4. Desk!TypeOK'
    BY <1>1, <1>5, <2>2, <2>3 DEF DeskInv, DeskTyped, Desk!TypeOK, Desk!QuoteShown
  <2>5. quotes' \in Seq(QuoteRecord)
    BY <1>5 DEF QuotesGrow
  <2>6. /\ request' \in [action : {"none"} \union Actions, quote : Nat, rebate : Nat]
        /\ request'.action = "none"
    BY <1>1 DEF Desk!NoRequest
  <2> QED
    BY <1>1, <2>2, <2>4, <2>5, <2>6 DEF DeskTyped
<1>8. LoanHistory'
  BY <1>1, <1>2 DEF DeskInv, LoanHistory, Desk!NoRequest
<1>9. RebateHistory'
  BY <1>1, <1>2, <1>6 DEF DeskInv, RebateHistory, Desk!QuoteShown, Desk!NoRequest
<1> QED
  BY <1>5, <1>7, <1>8, <1>9 DEF DeskInv

\* A quote is executed for the page: it settles the loan, and no other quote has.
LEMMA AcceptedExecute ==
  ASSUME DeskInv, Desk!Accepted, request.action = "execute"
  PROVE  DeskInv'
<1>1. /\ UNCHANGED <<role, view, pending, hidden>> /\ request' = Desk!NoRequest
      /\ quotes' = [quotes EXCEPT ![request.quote].status = "settled"]
      /\ loan' = Desk!After("execute") /\ desk' = Desk!FreshDesk
      /\ Desk!ExecuteRefusal(quotes[request.quote], request.rebate) = "ok"
      /\ request.quote \in DOMAIN quotes
  BY DEF Desk!Accepted, Desk!HiddenAfter, Desk!QuotesAfter, Desk!DeskAfter, Desk!Refusal,
     DeskInv, DeskTyped
<1>2. Desk!Running(loan)
  <2>1. Desk!InStatus({"active", "overdue"}, "INVALID_LOAN_STATUS_FOR_FORECLOSURE") = "ok"
    BY <1>1, FirstOfSix DEF Desk!ExecuteRefusal
  <2> QED
    BY <2>1 DEF Desk!InStatus, Desk!Running
<1>3. /\ QuotesGrow /\ Desk!RebateNeedsAnExpiredQuote' /\ Desk!OneSettlement'
      /\ \A j \in DOMAIN quotes' : quotes'[j].rebate <= quotes'[j].dues
      /\ loan' \in Desk!Shown /\ LoanHistory'
  BY <1>1, <1>2, QuoteExecuted DEF Desk!FreshDesk
<1>4. /\ Len(quotes) \in Nat /\ Len(quotes') \in Nat /\ Len(quotes) <= Len(quotes')
  BY <1>3 DEF DeskInv, DeskTyped, QuotesGrow
<1>5. DeskTyped'
  BY <1>1, <1>3, <1>4 DEF DeskInv, DeskTyped, Desk!TypeOK, Desk!QuoteShown, QuotesGrow,
     Desk!NoRequest, Desk!FreshDesk
<1>6. RebateHistory'
  BY <1>1 DEF RebateHistory, Desk!QuoteShown, Desk!NoRequest, Desk!FreshDesk
<1> QED
  BY <1>3, <1>5, <1>6 DEF DeskInv

\* Every step keeps what the page and the server know of each other.
LEMMA DeskNext == DeskInv /\ [Desk!Next]_(Desk!vars) => DeskInv'
<1> SUFFICES ASSUME DeskInv, [Desk!Next]_(Desk!vars) PROVE DeskInv'
  OBVIOUS
<1>1. ASSUME NEW action \in Desk!Immediate, Desk!PressImmediate(action) PROVE DeskInv'
  BY <1>1, PressImmediateKeeps
<1>2. ASSUME NEW action \in Desk!WithDialog, Desk!OpenDialog(action) PROVE DeskInv'
  BY <1>2, OpenDialogKeeps
<1>3. CASE Desk!Confirm \/ Desk!PressForeclosure \/ Desk!TimerFires \/ Desk!PressQuoteButton \/ Desk!TypeRebate
  BY <1>3, ConfirmKeeps, PressForeclosureKeeps, TimerFiresKeeps, PressQuoteButtonKeeps,
     TypeRebateKeeps
<1>4. CASE Desk!PressExecute \/ Desk!CloseDialog \/ Desk!Refused \/ Desk!LoadLoan \/ Desk!LoadPending
  BY <1>4, PressExecuteKeeps, CloseDialogKeeps, RefusedKeeps, LoadKeeps
<1>5. CASE Desk!Accepted
  BY <1>5, AcceptedChange, AcceptedQuote, AcceptedExecute
<1>6. ASSUME NEW action \in {"submit", "review", "approve", "disburse"}, Desk!OthersDecide(action)
      PROVE  DeskInv'
  BY <1>6, OthersDecideKeeps
<1>7. CASE Desk!PaymentLands \/ Desk!PenaltyPosted \/ Desk!OthersQuote \/ Desk!OthersExecute \/ Desk!QuoteExpires
  BY <1>7, PaymentLandsKeeps, PenaltyPostedKeeps, OthersQuoteKeeps, OthersExecuteKeeps,
     QuoteExpiresKeeps
<1>8. CASE UNCHANGED Desk!vars
  BY <1>8 DEF Desk!vars, DeskInv, DeskTyped, Desk!TypeOK, Desk!QuoteShown, LoanHistory,
     Desk!OneSettlement, RebateHistory, SomeExpired, Desk!RebateNeedsAnExpiredQuote
<1> QED
  BY <1>1, <1>2, <1>3, <1>4, <1>5, <1>6, <1>7, <1>8 DEF Desk!Next

-----------------------------------------------------------------------------
(* The settings page *)

Edit == [key : SettingKeys, text : Form!Texts]

FormState ==
  [hydrated : BOOLEAN, original : [SettingKeys -> Form!Texts \cup {""}],
   current : [SettingKeys -> Form!Texts \cup {""}], saving : Seq(Edit), fetching : BOOLEAN]

ListState ==
  [loaded : BOOLEAN, shown : SUBSET Days, fetching : BOOLEAN, put : {"none", "add", "remove"},
   days : SUBSET Days, day : Days \cup {0}, removing : Days \cup {0}]

FormTyped ==
  /\ values \in [SettingKeys -> Form!Values] /\ holidays \in SUBSET Days
  /\ form \in [Tabs -> FormState] /\ list \in [Tabs -> ListState]
  /\ typed \in [Tabs -> SUBSET SettingKeys]

\* Before the first answer a form is empty; after it, it holds texts.
Filled(f) ==
  IF f.hydrated THEN f.current \in [SettingKeys -> Form!Texts]
  ELSE f.current = f.original /\ f.saving = <<>>

\* What is being saved was typed, and no key is saved twice.
SavesOnce(f, ty) ==
  \A i \in 1..Len(f.saving) :
    /\ f.saving[i].key \in ty
    /\ \A j \in 1..Len(f.saving) : f.saving[i].key = f.saving[j].key => i = j

\* What differs from what the server said was typed.
DirtyIsTyped(f, ty) == \A k \in SettingKeys : f.current[k] # f.original[k] => k \in ty

FormOf(f, ty) == Filled(f) /\ SavesOnce(f, ty) /\ DirtyIsTyped(f, ty)

FormInv ==
  FormTyped /\ (\A t \in Tabs : FormOf(form[t], typed[t])) /\ Form!TableIsTheCalendar

\* Finite sets are the same in the page's module.
LEMMA SameFinite == \A S : Form!IsFiniteSet(S) = IsFiniteSet(S)
  BY DEF Form!IsFiniteSet, IsFiniteSet

\* So are their sizes.
LEMMA SameSize == \A S : Form!Cardinality(S) = Cardinality(S)
  BY SameFinite DEF Form!Cardinality, Cardinality

\* It has no place.
LEMMA NoPlace == \A i \in 1..Len(<<>>) : FALSE
<1>1. Len(<<>>) = 0
  OBVIOUS
<1>2. \A i \in 1..0 : FALSE
  OBVIOUS
<1> QED
  BY <1>1, <1>2

\* The invariant holds when the page is opened.
LEMMA FormInit ==
  ASSUME Form!Init
  PROVE  FormInv
<1> USE DEF Form!Init
<1>1. PICK blank : blank = [k \in SettingKeys |-> ""]
  OBVIOUS
<1>2. blank \in [SettingKeys -> Form!Texts \cup {""}]
  BY <1>1
<1>3. <<>> \in Seq(Edit)
  BY EmptySeq
<1>4. PICK f : f = [hydrated |-> FALSE, original |-> blank, current |-> blank,
                    saving |-> <<>>, fetching |-> TRUE]
  OBVIOUS
<1>5. f \in FormState
  BY <1>2, <1>3, <1>4 DEF FormState
<1>6. form = [t \in Tabs |-> f]
  BY <1>1, <1>4
<1>7. list \in [Tabs -> ListState] /\ \A t \in Tabs : list[t].fetching
  BY DEF ListState
<1>8. typed \in [Tabs -> SUBSET SettingKeys] /\ values \in [SettingKeys -> Form!Values]
  OBVIOUS
<1>9. FormTyped
  BY <1>5, <1>6, <1>7, <1>8 DEF FormTyped
<1>10. \A ty : FormOf(f, ty)
  <2>1. /\ f.hydrated = FALSE /\ f.original = blank /\ f.current = blank
        /\ f.saving = <<>>
    BY <1>4
  <2>2. Filled(f)
    BY <2>1 DEF Filled
  <2>3. \A i \in 1..Len(f.saving) : FALSE
    BY <2>1, NoPlace
  <2>4. \A ty : SavesOnce(f, ty)
    BY <2>3 DEF SavesOnce
  <2>5. \A ty : DirtyIsTyped(f, ty)
    BY <2>1 DEF DirtyIsTyped
  <2> QED
    BY <2>2, <2>4, <2>5 DEF FormOf
<1>11. Form!TableIsTheCalendar
  BY <1>7 DEF Form!TableIsTheCalendar
<1> QED
  BY <1>6, <1>9, <1>10, <1>11 DEF FormInv

\* A step that changes the form of one tab, and what was typed into it.
LEMMA OneForm ==
  ASSUME FormInv, NEW t \in Tabs, NEW f \in FormState, NEW ty \in SUBSET SettingKeys, FormOf(f, ty),
         form' = [form EXCEPT ![t] = f], typed' = [typed EXCEPT ![t] = ty],
         values' \in [SettingKeys -> Form!Values],
         UNCHANGED <<holidays, elsewhere>>,
         list' = list \/ list' = [list EXCEPT ![t].fetching = TRUE]
  PROVE  FormInv'
<1>1. /\ form' \in [Tabs -> FormState] /\ typed' \in [Tabs -> SUBSET SettingKeys]
      /\ \A u \in Tabs : FormOf(form'[u], typed'[u])
  BY DEF FormInv, FormTyped
<1>2. /\ list' \in [Tabs -> ListState]
      /\ \A u \in Tabs : list'[u].shown = list[u].shown /\ (list[u].fetching => list'[u].fetching)
  <2>1. list \in [Tabs -> ListState]
    BY DEF FormInv, FormTyped
  <2>2. CASE list' = list
    BY <2>1, <2>2
  <2>3. CASE list' = [list EXCEPT ![t].fetching = TRUE]
    <3>1. PICK l \in ListState : l = list[t]
      BY <2>1
    <3>2. PICK m : m = [l EXCEPT !.fetching = TRUE]
      OBVIOUS
    <3>3. m \in ListState /\ m.shown = l.shown /\ m.fetching
      BY <3>2 DEF ListState
    <3>4. list' = [list EXCEPT ![t] = m]
      BY <2>3, <3>1, <3>2
    <3>5. list' \in [Tabs -> ListState] /\ list'[t] = m /\ \A u \in Tabs \ {t} : list'[u] = list[u]
      BY <2>1, <3>3, <3>4
    <3> QED
      BY <3>1, <3>3, <3>5
  <2> QED
    BY <2>2, <2>3
<1>4. Form!TableIsTheCalendar'
  BY <1>2 DEF FormInv, Form!TableIsTheCalendar
<1> QED
  BY <1>1, <1>2, <1>4 DEF FormInv, FormTyped

\* A step that changes the table of one tab, and not the calendar.
LEMMA OneList ==
  ASSUME FormInv, NEW t \in Tabs, NEW l \in ListState,
         list' = [list EXCEPT ![t] = l],
         UNCHANGED <<holidays, form, values, typed>>,
         \/ UNCHANGED elsewhere /\ (l.fetching \/ ~ list[t].fetching) /\ l.shown = list[t].shown
         \/ elsewhere' = elsewhere \ {t} /\ l.shown = holidays
  PROVE  FormInv'
<1>1. list' \in [Tabs -> ListState] /\ list'[t] = l /\ \A u \in Tabs \ {t} : list'[u] = list[u]
  BY DEF FormInv, FormTyped
<1>2. \A u \in Tabs \ {t} : u \notin elsewhere' => u \notin elsewhere
  OBVIOUS
<1>3. ~ l.fetching /\ t \notin elsewhere' => l.shown = holidays
  BY DEF FormInv, Form!TableIsTheCalendar
<1>4. Form!TableIsTheCalendar'
  BY <1>1, <1>2, <1>3 DEF FormInv, Form!TableIsTheCalendar
<1> QED
  BY <1>1, <1>4 DEF FormInv, FormTyped

\* The first answer fills a form; a later one changes nothing in it.
LEMMA SettingsArriveKeep ==
  ASSUME FormInv, NEW t \in Tabs, Form!SettingsArrive(t), PagesAssumption
  PROVE  FormInv'
<1>1. PICK f \in FormState : f = form[t] /\ FormOf(f, typed[t])
  BY DEF FormInv, FormTyped
<1>2. PICK ty \in SUBSET SettingKeys : ty = typed[t]
  BY DEF FormInv, FormTyped
<1>3. PICK texts : texts = [k \in SettingKeys |-> Stringified[values[k]]]
  OBVIOUS
<1>4. texts \in [SettingKeys -> Form!Texts]
  <2>1. \A k \in SettingKeys : values[k] \in Form!Values
    BY DEF FormInv, FormTyped
  <2>2. \A v \in Form!Values : Stringified[v] \in Form!Texts
    BY DEF PagesAssumption, Form!SettingsPageAssumption, Form!Texts
  <2> QED
    BY <1>3, <2>1, <2>2
<1>5. PICK h : h = IF f.hydrated THEN f
                   ELSE [f EXCEPT !.hydrated = TRUE, !.original = texts, !.current = texts]
  OBVIOUS
<1>6. PICK g : g = [h EXCEPT !.fetching = FALSE]
  OBVIOUS
<1>7. form' = [form EXCEPT ![t] = g]
  BY <1>1, <1>3, <1>5, <1>6 DEF Form!SettingsArrive, Form!SetForm, Form!Hydrated
<1>71. texts \in [SettingKeys -> Form!Texts \cup {""}]
  BY <1>4
<1>72. /\ h \in FormState /\ h.hydrated /\ h.saving = f.saving
       /\ f.hydrated => h.current = f.current /\ h.original = f.original
       /\ ~ f.hydrated => h.current = texts /\ h.original = texts
  BY <1>5, <1>71 DEF FormState
<1>73. /\ g \in FormState /\ g.hydrated /\ g.saving = f.saving
       /\ g.current = h.current /\ g.original = h.original
  BY <1>6, <1>72 DEF FormState
<1>8. FormOf(g, ty)
  <2>1. CASE f.hydrated
    <3>1. /\ g.hydrated /\ g.current = f.current /\ g.original = f.original /\ g.saving = f.saving
      BY <1>72, <1>73, <2>1
    <3> QED
      BY <1>1, <1>2, <2>1, <3>1 DEF FormOf, Filled, SavesOnce, DirtyIsTyped
  <2>2. CASE ~ f.hydrated
    <3>1. g.hydrated /\ g.current = texts /\ g.original = texts /\ g.saving = <<>>
      BY <1>1, <1>72, <1>73, <2>2 DEF FormOf, Filled
    <3> QED
      BY <1>4, <3>1 DEF FormOf, Filled, SavesOnce, DirtyIsTyped
  <2> QED
    BY <2>1, <2>2
<1>9. UNCHANGED <<values, typed, holidays, list, elsewhere>>
  BY DEF Form!SettingsArrive, Form!listVars
<1>10. typed' = [typed EXCEPT ![t] = ty] /\ values' \in [SettingKeys -> Form!Values]
  BY <1>2, <1>9 DEF FormInv, FormTyped
<1> QED
  BY <1>7, <1>73, <1>8, <1>9, <1>10, OneForm

\* Whatever is typed is typed.
LEMMA TypeKeep ==
  ASSUME FormInv, NEW t \in Tabs, NEW k \in SettingKeys, NEW text \in Form!Texts, Form!Type(t, k, text)
  PROVE  FormInv'
<1>1. PICK f \in FormState : f = form[t] /\ FormOf(f, typed[t])
  BY DEF FormInv, FormTyped
<1>2. PICK ty \in SUBSET SettingKeys : ty = typed[t] \cup {k}
  BY DEF FormInv, FormTyped
<1>3. PICK cur : cur = [f.current EXCEPT ![k] = text]
  OBVIOUS
<1>4. PICK g : g = [f EXCEPT !.current = cur]
  OBVIOUS
<1>5. form' = [form EXCEPT ![t] = g] /\ typed' = [typed EXCEPT ![t] = ty] /\ f.hydrated
  BY <1>1, <1>2, <1>3, <1>4 DEF Form!Type, Form!SetForm
<1>6. f.current \in [SettingKeys -> Form!Texts]
  BY <1>1, <1>5 DEF FormOf, Filled
<1>7. cur \in [SettingKeys -> Form!Texts] /\ cur[k] = text /\ \A x \in SettingKeys \ {k} : cur[x] = f.current[x]
  BY <1>3, <1>6
<1>8. /\ g \in FormState /\ g.hydrated /\ g.current = cur /\ g.original = f.original /\ g.saving = f.saving
  <2>1. cur \in [SettingKeys -> Form!Texts \cup {""}]
    BY <1>7
  <2> QED
    BY <1>4, <1>5, <2>1 DEF FormState
<1>9. FormOf(g, ty)
  BY <1>1, <1>2, <1>7, <1>8 DEF FormOf, Filled, SavesOnce, DirtyIsTyped
<1>10. UNCHANGED <<values, holidays, list, elsewhere>>
  BY DEF Form!Type, Form!listVars
<1>11. values' \in [SettingKeys -> Form!Values]
  BY <1>10 DEF FormInv, FormTyped
<1> QED
  BY <1>5, <1>8, <1>9, <1>10, <1>11, OneForm

\* The image of a finite set is finite.
LEMMA ImageOf ==
  ASSUME NEW S, IsFiniteSet(S), NEW f
  PROVE  IsFiniteSet({f[x] : x \in S})
<1> DEFINE T == {f[x] : x \in S}
<1>1. [x \in S |-> f[x]] \in Surjection(S, T)
  BY DEF Surjection
<1> QED
  BY <1>1, FS_Surjection

\* The edits of the changed keys, one for each of them.
LEMMA EditsOfChanges ==
  ASSUME NEW K \in SUBSET SettingKeys, IsFiniteSet(SettingKeys), NEW cur \in [SettingKeys -> Form!Texts],
         NEW s, s = SetToSeq({[key |-> k, text |-> cur[k]] : k \in K})
  PROVE  /\ s \in Seq(Edit)
         /\ \A i \in 1..Len(s) :
              /\ s[i].key \in K
              /\ \A j \in 1..Len(s) : s[i].key = s[j].key => i = j
<1>1. PICK E : E = {[key |-> k, text |-> cur[k]] : k \in K}
  OBVIOUS
<1>2. IsFiniteSet(K)
  BY FS_Subset
<1>3. IsFiniteSet(E)
  <2>1. PICK edit : edit = [k \in SettingKeys |-> [key |-> k, text |-> cur[k]]]
    OBVIOUS
  <2>2. E = {edit[k] : k \in K}
    BY <1>1, <2>1
  <2> QED
    BY <1>2, <2>2, ImageOf
<1>4. PICK n \in Nat : n = Cardinality(E)
  BY <1>3, FS_CardinalityType
<1>5. /\ s \in [1..n -> E]
      /\ \A i, j \in 1..n : s[i] = s[j] => i = j
  BY <1>1, <1>3, <1>4, InTheList
<1>6. \A e \in E : e \in Edit /\ e.key \in K /\ e.text = cur[e.key]
  BY <1>1 DEF Edit
<1>7. \A e, d \in E : e.key = d.key => e = d
  BY <1>1
<1>8. s \in Seq(E) /\ Len(s) = n
  BY <1>5
<1>9. s \in Seq(Edit)
  BY <1>5, <1>6
<1>10. \A i \in 1..n : s[i] \in E
  BY <1>5
<1>11. \A i, j \in 1..n : s[i].key = s[j].key => i = j
  BY <1>5, <1>7, <1>10
<1>12. \A i \in 1..n : s[i].key \in K
  BY <1>6, <1>10
<1> QED
  BY <1>8, <1>9, <1>11, <1>12

\* Saving starts with the changed keys, and they were typed.
LEMMA PressSaveKeep ==
  ASSUME FormInv, NEW t \in Tabs, Form!PressSave(t), PagesAssumption
  PROVE  FormInv'
<1>1. PICK f \in FormState : f = form[t] /\ FormOf(f, typed[t])
  BY DEF FormInv, FormTyped
<1>2. PICK ty \in SUBSET SettingKeys : ty = typed[t]
  BY DEF FormInv, FormTyped
<1>3. PICK K \in SUBSET SettingKeys : K = {k \in SettingKeys : f.current[k] # f.original[k]}
  OBVIOUS
<1>4. K # {} /\ K \subseteq ty
  <2>1. Form!Changed(t) = K
    BY <1>1, <1>3 DEF Form!Changed
  <2>2. K # {}
    BY <2>1 DEF Form!PressSave
  <2> QED
    BY <1>1, <1>2, <1>3, <2>2 DEF FormOf, DirtyIsTyped
<1>5. f.hydrated /\ f.current \in [SettingKeys -> Form!Texts]
  BY <1>1, <1>3, <1>4 DEF FormOf, Filled
<1>6. PICK s : s = SetToSeq({[key |-> k, text |-> f.current[k]] : k \in K})
  OBVIOUS
<1>7. /\ s \in Seq(Edit)
      /\ \A i \in 1..Len(s) :
           /\ s[i].key \in K
           /\ \A j \in 1..Len(s) : s[i].key = s[j].key => i = j
  <2>1. IsFiniteSet(SettingKeys)
    BY SameFinite DEF PagesAssumption, Form!SettingsPageAssumption
  <2>2. PICK cur \in [SettingKeys -> Form!Texts] : cur = f.current
    BY <1>5
  <2>3. s = SetToSeq({[key |-> k, text |-> cur[k]] : k \in K})
    BY <1>6, <2>2
  <2> QED
    BY <2>1, <2>3, EditsOfChanges
<1>8. PICK g : g = [f EXCEPT !.saving = s]
  OBVIOUS
<1>9. form' = [form EXCEPT ![t] = g]
  <2>1. Form!ToSave(t) = K
    BY <1>1, <1>3 DEF Form!ToSave, Form!Changed
  <2>2. form' = [form EXCEPT ![t] = [f EXCEPT
                   !.saving = Form!SetToSeq({[key |-> k, text |-> f.current[k]] : k \in K})]]
    BY <1>1, <2>1 DEF Form!PressSave, Form!SetForm
  <2>3. \A C : Form!SetToSeq(C) = SetToSeq(C)
    BY SameSize DEF Form!SetToSeq, SetToSeq, Form!IsInjective, IsInjective
  <2>4. s = Form!SetToSeq({[key |-> k, text |-> f.current[k]] : k \in K})
    BY <1>6, <2>3
  <2> QED
    BY <1>8, <2>2, <2>4
<1>10. /\ g \in FormState /\ g.hydrated /\ g.current = f.current /\ g.original = f.original /\ g.saving = s
  BY <1>5, <1>7, <1>8 DEF FormState
<1>11. FormOf(g, ty)
  <2>1. Filled(g)
    BY <1>5, <1>10 DEF Filled
  <2>2. SavesOnce(g, ty)
    BY <1>4, <1>7, <1>10 DEF SavesOnce
  <2>3. DirtyIsTyped(g, ty)
    BY <1>1, <1>2, <1>10 DEF FormOf, DirtyIsTyped
  <2> QED
    BY <2>1, <2>2, <2>3 DEF FormOf
<1>12. UNCHANGED <<values, typed, holidays, list, elsewhere>>
  BY DEF Form!PressSave, Form!listVars
<1>13. typed' = [typed EXCEPT ![t] = ty] /\ values' \in [SettingKeys -> Form!Values]
  BY <1>2, <1>12 DEF FormInv, FormTyped
<1> QED
  BY <1>9, <1>10, <1>11, <1>12, <1>13, OneForm

\* The rest of a sequence that is not empty.
LEMMA RestOf ==
  ASSUME NEW S, NEW s \in Seq(S), s # <<>>
  PROVE  /\ 1 \in 1..Len(s) /\ Head(s) = s[1] /\ s[1] \in S
         /\ Tail(s) \in Seq(S) /\ Len(Tail(s)) = Len(s) - 1
         /\ \A i \in 1..Len(Tail(s)) : i + 1 \in 1..Len(s) /\ Tail(s)[i] = s[i + 1]
  OBVIOUS

\* A save writes what was typed, and leaves dirty only what is typed still.
LEMMA SaveNextKeep ==
  ASSUME FormInv, NEW t \in Tabs, Form!SaveNext(t), PagesAssumption
  PROVE  /\ FormInv'
         /\ \A k \in SettingKeys : values'[k] # values[k] =>
              \E text \in DOMAIN Parsed :
                /\ k \in typed[t] /\ values'[k] = Parsed[text]
                /\ \E i \in DOMAIN form[t].saving : form[t].saving[i] = [key |-> k, text |-> text]
<1>1. PICK f \in FormState : f = form[t] /\ FormOf(f, typed[t])
  BY DEF FormInv, FormTyped
<1>2. PICK was \in SUBSET SettingKeys : was = typed[t]
  BY DEF FormInv, FormTyped
<1>3. PICK s \in Seq(Edit) : s = f.saving
  BY DEF FormState
<1>4. s # <<>>
  BY <1>1, <1>3 DEF Form!SaveNext
<1>5. PICK e : e = Head(s)
  OBVIOUS
<1>6. PICK r : r = Tail(s)
  OBVIOUS
<1>7. /\ 1 \in 1..Len(s) /\ e = s[1] /\ e \in Edit
      /\ r \in Seq(Edit)
      /\ \A i \in 1..Len(r) : i + 1 \in 1..Len(s) /\ r[i] = s[i + 1]
  BY <1>3, <1>4, <1>5, <1>6, RestOf
<1>8. \A i \in 1..Len(s) :
        /\ s[i].key \in was
        /\ \A j \in 1..Len(s) : s[i].key = s[j].key => i = j
  BY <1>1, <1>2, <1>3 DEF FormOf, SavesOnce
<1>9. e.key \in was /\ e.key \in SettingKeys /\ e.text \in Form!Texts
  BY <1>7, <1>8 DEF Edit
<1>10. e.text \in DOMAIN Parsed /\ values' = [values EXCEPT ![e.key] = Parsed[e.text]]
  BY <1>1, <1>3, <1>5 DEF Form!SaveNext, Form!ParsedValue
<1>11. Parsed[e.text] \in Form!Values
  BY <1>10 DEF PagesAssumption, Form!SettingsPageAssumption
<1>12. values' \in [SettingKeys -> Form!Values]
  BY <1>9, <1>10, <1>11 DEF FormInv, FormTyped
<1>13. PICK o : o = [f.original EXCEPT ![e.key] = e.text]
  OBVIOUS
<1>14. PICK ty : ty = IF f.current[e.key] = e.text THEN was \ {e.key} ELSE was
  OBVIOUS
<1>15. PICK g : g = [f EXCEPT !.original = o, !.saving = r, !.fetching = TRUE]
  OBVIOUS
<1>16. f.original \in [SettingKeys -> Form!Texts \cup {""}]
  BY DEF FormState
<1>17. /\ o \in [SettingKeys -> Form!Texts \cup {""}]
       /\ o[e.key] = e.text /\ \A k \in SettingKeys \ {e.key} : o[k] = f.original[k]
  BY <1>9, <1>13, <1>16
<1>18. /\ g \in FormState /\ g.hydrated = f.hydrated /\ g.current = f.current
       /\ g.original = o /\ g.saving = r /\ ty \in SUBSET SettingKeys
  BY <1>7, <1>14, <1>15, <1>17 DEF FormState
<1>19. form' = [form EXCEPT ![t] = g]
  BY <1>1, <1>3, <1>5, <1>6, <1>13, <1>15 DEF Form!SaveNext, Form!SetForm, Form!Saved
<1>20. typed' = [typed EXCEPT ![t] = ty]
  BY <1>1, <1>2, <1>3, <1>5, <1>14 DEF Form!SaveNext, FormInv, FormTyped
<1>21. FormOf(g, ty)
  <2>1. f.hydrated /\ f.current \in [SettingKeys -> Form!Texts]
    BY <1>1, <1>3, <1>4 DEF FormOf, Filled
  <2>2. Filled(g)
    BY <1>18, <2>1 DEF Filled
  <2>3. \A i \in 1..Len(r) : r[i].key \in was /\ r[i].key # e.key
    BY <1>7, <1>8
  <2>4. \A i \in 1..Len(r) : r[i].key \in ty
    BY <1>14, <2>3
  <2>5. \A i, j \in 1..Len(r) : r[i].key = r[j].key => i = j
    BY <1>7, <1>8
  <2>6. SavesOnce(g, ty)
    BY <1>18, <2>4, <2>5 DEF SavesOnce
  <2>7. \A k \in SettingKeys : f.current[k] # f.original[k] => k \in was
    BY <1>1, <1>2 DEF FormOf, DirtyIsTyped
  <2>8. \A k \in SettingKeys : f.current[k] # o[k] => k \in ty
    <3>1. TAKE k \in SettingKeys
    <3>2. CASE k = e.key
      BY <1>9, <1>14, <1>17, <3>2
    <3>3. CASE k # e.key
      BY <1>14, <1>17, <2>7, <3>3
    <3> QED
      BY <3>2, <3>3
  <2>9. DirtyIsTyped(g, ty)
    BY <1>18, <2>8 DEF DirtyIsTyped
  <2> QED
    BY <2>2, <2>6, <2>9 DEF FormOf
<1>22. UNCHANGED <<holidays, elsewhere>> /\ list' = [list EXCEPT ![t].fetching = TRUE]
  BY DEF Form!SaveNext
<1>23. FormInv'
  BY <1>12, <1>18, <1>19, <1>20, <1>21, <1>22, OneForm
<1>24. \A k \in SettingKeys : values'[k] # values[k] => k = e.key /\ values'[k] = Parsed[e.text]
  BY <1>9, <1>10 DEF FormInv, FormTyped
<1>25. \E i \in DOMAIN s : s[i] = [key |-> e.key, text |-> e.text]
  <2>1. e = [key |-> e.key, text |-> e.text]
    BY <1>7 DEF Edit
  <2> QED
    BY <1>7, <2>1
<1> QED
  BY <1>1, <1>2, <1>3, <1>9, <1>10, <1>23, <1>24, <1>25

\* A save that fails leaves what was typed dirty.
LEMMA SaveFailsKeep ==
  ASSUME FormInv, NEW t \in Tabs, Form!SaveFails(t)
  PROVE  FormInv'
<1>1. PICK f \in FormState : f = form[t] /\ FormOf(f, typed[t])
  BY DEF FormInv, FormTyped
<1>2. PICK ty \in SUBSET SettingKeys : ty = typed[t]
  BY DEF FormInv, FormTyped
<1>3. <<>> \in Seq(Edit)
  BY EmptySeq
<1>4. PICK g : g = [f EXCEPT !.saving = <<>>]
  OBVIOUS
<1>5. /\ g \in FormState /\ g.hydrated = f.hydrated /\ g.current = f.current
      /\ g.original = f.original /\ g.saving = <<>>
  BY <1>3, <1>4 DEF FormState
<1>6. FormOf(g, ty)
  BY <1>1, <1>2, <1>5 DEF FormOf, Filled, SavesOnce, DirtyIsTyped
<1>7. form' = [form EXCEPT ![t] = g] /\ UNCHANGED <<values, typed, holidays, list, elsewhere>>
  BY <1>1, <1>4 DEF Form!SaveFails, Form!SetForm, Form!listVars
<1>8. typed' = [typed EXCEPT ![t] = ty] /\ values' \in [SettingKeys -> Form!Values]
  BY <1>2, <1>7 DEF FormInv, FormTyped
<1> QED
  BY <1>5, <1>6, <1>7, <1>8, OneForm

\* An answer shows the calendar as it is.
LEMMA HolidaysArriveKeep ==
  ASSUME FormInv, NEW t \in Tabs, Form!HolidaysArrive(t)
  PROVE  FormInv'
<1>1. PICK l \in ListState : l = list[t]
  BY DEF FormInv, FormTyped
<1>2. PICK m : m = [l EXCEPT !.loaded = TRUE, !.fetching = FALSE, !.shown = holidays]
  OBVIOUS
<1>3. holidays \in SUBSET Days
  BY DEF FormInv, FormTyped
<1>4. m \in ListState /\ m.shown = holidays
  BY <1>2, <1>3 DEF ListState
<1>6. list' = [list EXCEPT ![t] = m]
  BY <1>1, <1>2 DEF Form!HolidaysArrive, Form!SetList
<1>7. elsewhere' = elsewhere \ {t} /\ UNCHANGED <<holidays, form, values, typed>>
  BY DEF Form!HolidaysArrive, Form!formVars
<1> QED
  BY <1>4, <1>6, <1>7, OneList

\* A step that changes the table of a tab in all but its rows.
SameRows(t, l) ==
  \E m \in ListState :
    /\ list' = [list EXCEPT ![t] = m] /\ m.shown = l.shown /\ m.fetching = l.fetching
    /\ UNCHANGED <<holidays, form, values, typed, elsewhere>>

\* Adding, asking, cancelling, confirming and failing change no row of the table.
LEMMA DialogKeep ==
  ASSUME FormInv, NEW t \in Tabs,
         \/ \E d \in Days : Form!AddHoliday(t, d) \/ Form!AskRemoval(t, d)
         \/ Form!CancelRemoval(t) \/ Form!ConfirmRemoval(t) \/ Form!PutFails(t)
  PROVE  FormInv'
<1>1. PICK l \in ListState : l = list[t]
  BY DEF FormInv, FormTyped
<1>2. SameRows(t, l)
  <2>1. l.shown \in SUBSET Days /\ l.removing \in Days \cup {0}
    BY DEF ListState
  <2>2. ASSUME NEW r \in Days \cup {0}, NEW m, m = [l EXCEPT !.removing = r]
        PROVE  m \in ListState /\ m.shown = l.shown /\ m.fetching = l.fetching
    BY <2>2 DEF ListState
  <2>3. ASSUME NEW d \in Days, Form!AddHoliday(t, d)
        PROVE  SameRows(t, l)
    <3>1. PICK ds \in SUBSET Days : ds = l.shown \cup {d}
      BY <2>1
    <3>2. PICK m : m = [l EXCEPT !.put = "add", !.days = ds, !.day = d]
      OBVIOUS
    <3>3. /\ list' = [list EXCEPT ![t] = m]
          /\ UNCHANGED <<holidays, form, values, typed, elsewhere>>
      BY <1>1, <2>3, <3>1, <3>2 DEF Form!AddHoliday, Form!Put, Form!SetList, Form!formVars
    <3>4. m \in ListState /\ m.shown = l.shown /\ m.fetching = l.fetching
      BY <3>2 DEF ListState
    <3> QED
      BY <3>3, <3>4 DEF SameRows
  <2>4. ASSUME NEW d \in Days, Form!AskRemoval(t, d)
        PROVE  SameRows(t, l)
    <3>1. PICK m : m = [l EXCEPT !.removing = d]
      OBVIOUS
    <3>2. /\ list' = [list EXCEPT ![t] = m]
          /\ UNCHANGED <<holidays, form, values, typed, elsewhere>>
      BY <1>1, <2>4, <3>1 DEF Form!AskRemoval, Form!SetList, Form!formVars
    <3> QED
      BY <2>2, <3>1, <3>2 DEF SameRows
  <2>5. ASSUME Form!CancelRemoval(t)
        PROVE  SameRows(t, l)
    <3>1. PICK m : m = [l EXCEPT !.removing = 0]
      OBVIOUS
    <3>2. /\ list' = [list EXCEPT ![t] = m]
          /\ UNCHANGED <<holidays, form, values, typed, elsewhere>>
      BY <1>1, <2>5, <3>1 DEF Form!CancelRemoval, Form!SetList, Form!formVars
    <3> QED
      BY <2>2, <3>1, <3>2 DEF SameRows
  <2>6. ASSUME Form!ConfirmRemoval(t)
        PROVE  SameRows(t, l)
    <3>1. PICK ds \in SUBSET Days : ds = l.shown \ {l.removing}
      BY <2>1
    <3>2. PICK m : m = [l EXCEPT !.put = "remove", !.days = ds, !.day = l.removing]
      OBVIOUS
    <3>3. /\ list' = [list EXCEPT ![t] = m]
          /\ UNCHANGED <<holidays, form, values, typed, elsewhere>>
      BY <1>1, <2>6, <3>1, <3>2 DEF Form!ConfirmRemoval, Form!Put, Form!SetList, Form!formVars
    <3>4. m \in ListState /\ m.shown = l.shown /\ m.fetching = l.fetching
      BY <2>1, <3>2 DEF ListState
    <3> QED
      BY <3>3, <3>4 DEF SameRows
  <2>7. ASSUME Form!PutFails(t)
        PROVE  SameRows(t, l)
    <3>1. PICK m : m = [l EXCEPT !.put = "none"]
      OBVIOUS
    <3>2. /\ list' = [list EXCEPT ![t] = m]
          /\ UNCHANGED <<holidays, form, values, typed, elsewhere>>
      BY <1>1, <2>7, <3>1 DEF Form!PutFails, Form!SetList, Form!formVars
    <3>3. m \in ListState /\ m.shown = l.shown /\ m.fetching = l.fetching
      BY <3>1 DEF ListState
    <3> QED
      BY <3>2, <3>3 DEF SameRows
  <2> QED
    BY <2>3, <2>4, <2>5, <2>6, <2>7
<1>3. PICK m \in ListState :
        /\ list' = [list EXCEPT ![t] = m] /\ m.shown = l.shown /\ m.fetching = l.fetching
        /\ UNCHANGED <<holidays, form, values, typed, elsewhere>>
  BY <1>2 DEF SameRows
<1> QED
  BY <1>1, <1>3, OneList

\* A replaced calendar is fetched by the tab that replaced it, and the other one
\* knows nothing of it.
LEMMA PutArrivesKeep ==
  ASSUME FormInv, NEW t \in Tabs, Form!PutArrives(t)
  PROVE  FormInv'
<1>1. PICK l \in ListState : l = list[t]
  BY DEF FormInv, FormTyped
<1>2. PICK m : m = [l EXCEPT !.put = "none", !.removing = 0, !.fetching = TRUE]
  OBVIOUS
<1>3. m \in ListState /\ m.fetching
  BY <1>2 DEF ListState
<1>5. list' = [list EXCEPT ![t] = m]
  BY <1>1, <1>2 DEF Form!PutArrives, Form!SetList, Form!Refreshed
<1>6. holidays' = l.days /\ l.days \in SUBSET Days
  BY <1>1 DEF Form!PutArrives, ListState
<1>7. PICK f \in FormState : f = form[t] /\ FormOf(f, typed[t])
  BY DEF FormInv, FormTyped
<1>8. PICK g : g = [f EXCEPT !.fetching = TRUE]
  OBVIOUS
<1>9. form' = [form EXCEPT ![t] = g] /\ UNCHANGED <<values, typed>>
  BY <1>7, <1>8 DEF Form!PutArrives
<1>10. /\ g \in FormState /\ g.hydrated = f.hydrated /\ g.current = f.current
       /\ g.original = f.original /\ g.saving = f.saving
  BY <1>8 DEF FormState
<1>11. FormOf(g, typed[t])
  BY <1>7, <1>10 DEF FormOf, Filled, SavesOnce, DirtyIsTyped
<1>12. form' \in [Tabs -> FormState] /\ \A u \in Tabs : FormOf(form'[u], typed'[u])
  BY <1>9, <1>10, <1>11 DEF FormInv, FormTyped
<1>13. list' \in [Tabs -> ListState] /\ list'[t] = m
  BY <1>3, <1>5 DEF FormInv, FormTyped
<1>14. \A u \in Tabs : u # t => u \in elsewhere'
  BY DEF Form!PutArrives
<1>15. Form!TableIsTheCalendar'
  BY <1>3, <1>13, <1>14 DEF Form!TableIsTheCalendar
<1> QED
  BY <1>6, <1>9, <1>12, <1>13, <1>15 DEF FormInv, FormTyped

\* After an import of holidays no table is told.
LEMMA ImportHolidaysKeep ==
  ASSUME FormInv, NEW days \in SUBSET Days, Form!ImportHolidays(days)
  PROVE  FormInv'
<1>1. holidays' \in SUBSET Days /\ elsewhere' = Tabs /\ UNCHANGED <<list, form, values, typed>>
  BY DEF Form!ImportHolidays, Form!formVars, FormInv, FormTyped
<1>2. Form!TableIsTheCalendar'
  BY <1>1 DEF Form!TableIsTheCalendar
<1> QED
  BY <1>1, <1>2 DEF FormInv, FormTyped

\* What SavesWriteEdits says of a step.
Honest ==
  \A k \in SettingKeys : values'[k] # values[k] =>
    \E t \in Tabs, text \in DOMAIN Parsed :
      /\ k \in typed[t] /\ values'[k] = Parsed[text]
      /\ \E i \in DOMAIN form[t].saving : form[t].saving[i] = [key |-> k, text |-> text]

\* No other step of a tab writes a setting.
LEMMA OthersWriteNothing ==
  ASSUME NEW t \in Tabs,
         \/ Form!SettingsArrive(t) \/ Form!PressSave(t) \/ Form!SaveFails(t)
         \/ \E k \in SettingKeys, text \in Form!Texts : Form!Type(t, k, text)
         \/ Form!HolidaysArrive(t) \/ Form!CancelRemoval(t) \/ Form!ConfirmRemoval(t)
         \/ Form!PutArrives(t) \/ Form!PutFails(t)
         \/ \E d \in Days : Form!AddHoliday(t, d) \/ Form!AskRemoval(t, d)
  PROVE  values' = values
  BY DEF Form!SettingsArrive, Form!PressSave, Form!SaveFails, Form!Type, Form!HolidaysArrive,
         Form!CancelRemoval, Form!ConfirmRemoval, Form!PutArrives, Form!PutFails,
         Form!AddHoliday, Form!AskRemoval, Form!formVars

\* Every step of the page keeps the invariant, and writes only what was typed.
LEMMA FormNext ==
  ASSUME FormInv, Form!Next, PagesAssumption
  PROVE  FormInv' /\ Honest
<1>1. ASSUME NEW t \in Tabs, Form!SaveNext(t)
      PROVE  FormInv' /\ Honest
  BY <1>1, SaveNextKeep DEF Honest
<1>2. ASSUME NEW t \in Tabs,
             \/ Form!SettingsArrive(t) \/ Form!PressSave(t) \/ Form!SaveFails(t)
             \/ \E k \in SettingKeys, text \in Form!Texts : Form!Type(t, k, text)
             \/ Form!HolidaysArrive(t) \/ Form!CancelRemoval(t) \/ Form!ConfirmRemoval(t)
             \/ Form!PutArrives(t) \/ Form!PutFails(t)
             \/ \E d \in Days : Form!AddHoliday(t, d) \/ Form!AskRemoval(t, d)
      PROVE  FormInv' /\ Honest
  <2>1. Honest
    BY <1>2, OthersWriteNothing DEF Honest
  <2>2. FormInv'
    BY <1>2, SettingsArriveKeep, PressSaveKeep, SaveFailsKeep, TypeKeep, HolidaysArriveKeep,
       DialogKeep, PutArrivesKeep
  <2> QED
    BY <2>1, <2>2
<1>3. ASSUME NEW days \in SUBSET Days, Form!ImportHolidays(days)
      PROVE  FormInv' /\ Honest
  <2>1. values' = values
    BY <1>3 DEF Form!ImportHolidays, Form!formVars
  <2> QED
    BY <1>3, <2>1, ImportHolidaysKeep DEF Honest
<1>4. \/ \E t \in Tabs : Form!SaveNext(t)
      \/ \E t \in Tabs :
           \/ Form!SettingsArrive(t) \/ Form!PressSave(t) \/ Form!SaveFails(t)
           \/ \E k \in SettingKeys, text \in Form!Texts : Form!Type(t, k, text)
           \/ Form!HolidaysArrive(t) \/ Form!CancelRemoval(t) \/ Form!ConfirmRemoval(t)
           \/ Form!PutArrives(t) \/ Form!PutFails(t)
           \/ \E d \in Days : Form!AddHoliday(t, d) \/ Form!AskRemoval(t, d)
      \/ \E days \in SUBSET Days : Form!ImportHolidays(days)
  BY DEF Form!Next
<1> QED
  BY <1>1, <1>2, <1>3, <1>4

\* What the invariant says of the page.
LEMMA FormShows ==
  ASSUME FormInv
  PROVE  Form!TypeOK /\ Form!OnlyEditsAreDirty /\ Form!TableIsTheCalendar
<1>1. ASSUME NEW t \in Tabs
      PROVE  /\ form[t].hydrated => form[t].current \in [SettingKeys -> Form!Texts]
             /\ list[t].shown \subseteq Days /\ list[t].days \subseteq Days
             /\ Form!Changed(t) \subseteq typed[t]
  <2>1. list[t] \in ListState /\ FormOf(form[t], typed[t])
    BY DEF FormInv, FormTyped
  <2>2. list[t].shown \subseteq Days /\ list[t].days \subseteq Days
    BY <2>1 DEF ListState
  <2> QED
    BY <2>1, <2>2 DEF FormOf, Filled, DirtyIsTyped, Form!Changed
<1> QED
  BY <1>1 DEF FormInv, FormTyped, Form!TypeOK, Form!OnlyEditsAreDirty

-----------------------------------------------------------------------------
(* The import of settings. *)

\* What a sheet of settings can hold: texts of values, and the rest.
SheetCells ==
  [form : {"digits", "word", "brackets"}, of : {"0", "1"}]
    \cup [form : {"blank", "note", "label", "name"},
          of : {"", "key", "value", "description"} \cup DOMAIN Kind]

Sheets == Seq(Seq(SheetCells))

\* Settings of their types.
SettingStates ==
  {s \in [DOMAIN Kind -> [type : Import!Types, of : {"0", "1"}]] :
     \A k \in DOMAIN Kind : s[k].type = Kind[k]}

NamesListed == Cardinality(DOMAIN Kind)

\* An export without the lines above its header, and with them.
BareSheet(was) ==
  [i \in 1 .. NamesListed + 1 |->
     IF i = 1
     THEN <<Import!Label("key"), Import!Label("value"), Import!Label("description")>>
     ELSE <<Import!Cell("name", Import!Listed[i - 1]), Import!Printed(was[Import!Listed[i - 1]]),
            Import!Blank>>]

FullSheet(was) ==
  [i \in 1 .. NamesListed + 4 |->
     IF i <= 2 THEN <<Import!Note, Import!Note, Import!Note>>
     ELSE IF i = 3 THEN <<>> ELSE BareSheet(was)[i - 3]]

\* Where the sheet at hand comes from, and what that makes of it.
Origins == {"nothing", "export", "template", "edited"}

HandTyped ==
  /\ hand \in [from : Origins, rows : Sheets, edits : 0 .. MaxEdits, was : {hand.was}]
  /\ hand.from = "export" =>
       hand.was \in SettingStates /\ hand.rows \in {FullSheet(hand.was), BareSheet(hand.was)}

\* What a draft holds is what its sheet says, and an export can be read only
\* without the lines above its header.
DraftOf(d) ==
  /\ d.id \in 1 .. uploaded /\ d.seen \in Nat /\ d.sheet \in Sheets
  /\ ~Import!Refused(d.sheet, Import!Schema)
  /\ d.parsed = Import!ParseToRows(d.sheet, Import!Schema)
  /\ d.from = "export" => d.was \in SettingStates /\ d.sheet = BareSheet(d.was)

\* The imports logged when a draft was made are among those of the log now, and
\* one of its own sheet and day was announced if the look-up reached it.
Announced(d) ==
  /\ d.seen \in 0 .. Len(trail)
  /\ \A j \in 1 .. Len(trail) :
       /\ d.seen - (Len(trail) - j) \in 1 .. LookBack
       /\ trail[j].sheet = d.sheet /\ trail[j].day = d.day /\ d.looked
       => d.warned

UploadOf(q) == q \in [ask : {"upload"}, draft : 0 .. uploaded, from : Origins, late : BOOLEAN]

RefusedOf(q) == q \in [ask : {"commit"}, n : 1 .. uploaded, step : {"refused"}, heard : BOOLEAN]

\* A commit that is past some rows of an export has written what they say.
CommitOf(q) ==
  /\ q \in [ask : {"commit"}, n : 1 .. uploaded, body : {q.body}, next : Nat \ {0}, wrote : {q.wrote},
            skipped : {q.skipped}, step : {"rows", "done"}, heard : BOOLEAN]
  /\ q.body.id = q.n /\ DraftOf(q.body) /\ Announced(q.body)
  /\ q.next <= Len(q.body.parsed.valid) + 1
  /\ q.step = "done" => q.next = Len(q.body.parsed.valid) + 1
  /\ q.body.from = "export" =>
       q.wrote = {<<Import!Listed[i], q.body.was[Import!Listed[i]]>> : i \in 1 .. q.next - 1}

ImportTyped ==
  /\ settings \in SettingStates /\ HandTyped
  /\ modal \in [open : BOOLEAN, busy : {"no", "uploading", "committing"}, draft : 0 .. uploaded]
  /\ uploaded \in Nat /\ trouble \in BOOLEAN
  /\ \A d \in previews : DraftOf(d) /\ Announced(d)
  /\ \A d, e \in previews : d.id = e.id => d = e
  /\ \A q \in sent : UploadOf(q) \/ RefusedOf(q) \/ CommitOf(q)
  /\ trail \in Seq({trail[i] : i \in DOMAIN trail})

Uploading == {q \in sent : q.ask = "upload"}
Committing == {q \in sent : q.ask = "commit"}

\* What an upload, a commit and the modal know of each other as long as every
\* answer came, and came to the modal that asked.
UploadsApart ==
  /\ \A q \in Uploading : ~q.late => modal.open /\ modal.busy = "uploading"
  /\ \A q, r \in Uploading : ~q.late /\ ~r.late => q = r
  /\ \A q \in Uploading : q.draft # 0 => q.draft # modal.draft /\ \E d \in previews : d.id = q.draft
  /\ \A q, r \in Uploading : q.draft = r.draft /\ q.draft # 0 => q = r
  /\ \A q \in Uploading : \A r \in Committing : q.draft # r.n

OneCommitEach(requests) ==
  /\ \A q \in requests : q.step # "refused" /\ q.heard
  /\ \A q, r \in requests : q.n = r.n => q = r

ModalKnows ==
  /\ \A q \in Committing : q.n = modal.draft => modal.busy = "committing"
  /\ modal.draft # 0 /\ modal.busy # "committing" => \E d \in previews : d.id = modal.draft
  /\ ~modal.open => modal = Import!Closed

Untroubled == UploadsApart /\ OneCommitEach(Committing) /\ ModalKnows

ImportInv == ImportTyped /\ Import!SecondImportIsAnnounced /\ (~trouble => Untroubled)

\* Finite sets and their sizes are the same in the module of the imports.
LEMMA CountableSame == \A S : Import!IsFiniteSet(S) = IsFiniteSet(S)
  BY DEF Import!IsFiniteSet, IsFiniteSet

\* So are their sizes.
LEMMA SameCount == \A S : Import!Cardinality(S) = Cardinality(S)
  BY CountableSame DEF Import!Cardinality, Cardinality

\* The place of a row among some rows.
Rank(S, i) == Cardinality({j \in S : j <= i})

\* Places go from 1 to the number of rows, each is taken, and by one row.
LEMMA RanksCount ==
  ASSUME NEW S \in SUBSET Nat, IsFiniteSet(S)
  PROVE  /\ Cardinality(S) \in Nat
         /\ \A i \in S : Rank(S, i) \in 1 .. Cardinality(S)
         /\ \A i, k \in S : Rank(S, i) = Rank(S, k) => i = k
         /\ \A n \in 1 .. Cardinality(S) : \E i \in S : Rank(S, i) = n
<1> DEFINE R(i) == {j \in S : j <= i}
<1>1. Cardinality(S) \in Nat
  BY FS_CardinalityType
<1>2. PICK n \in Nat : n = Cardinality(S)
  BY <1>1
<1>3. \A i : IsFiniteSet(R(i)) /\ Cardinality(R(i)) \in Nat /\ Cardinality(R(i)) <= n
  <2>1. \A i : R(i) \in SUBSET S
    OBVIOUS
  <2> QED
    BY <1>2, <2>1, FS_Subset, FS_CardinalityType
<1>4. \A i \in S : Cardinality(R(i)) # 0
  BY <1>3, FS_EmptySet
<1>5. ASSUME NEW i \in S, NEW k \in S, i < k PROVE Cardinality(R(i)) < Cardinality(R(k))
  <2>1. R(i) \in SUBSET R(k) /\ R(i) # R(k)
    <3>1. i \in Nat /\ k \in Nat /\ \A j \in S : j \in Nat
      OBVIOUS
    <3>2. \A j \in S : j <= i => j <= k
      BY <1>5, <3>1
    <3>3. k \in R(k) /\ k \notin R(i)
      BY <1>5, <3>1
    <3> QED
      BY <3>2, <3>3
  <2>2. Cardinality(R(i)) <= Cardinality(R(k)) /\ Cardinality(R(k)) # Cardinality(R(i))
    BY <1>3, <2>1, FS_Subset
  <2> QED
    BY <1>3, <2>2
<1>6. \A i, k \in S : Cardinality(R(i)) = Cardinality(R(k)) => i = k
  <2> SUFFICES ASSUME NEW i \in S, NEW k \in S, Cardinality(R(i)) = Cardinality(R(k)), i # k
               PROVE  FALSE
    OBVIOUS
  <2>1. i < k \/ k < i
    OBVIOUS
  <2>2. Cardinality(R(i)) \in Nat /\ Cardinality(R(k)) \in Nat
    BY <1>3
  <2> QED
    BY <1>5, <2>1, <2>2
<1>7. PICK f : f = [i \in S |-> Cardinality(R(i))]
  OBVIOUS
<1>8. f \in Injection(S, 1 .. n)
  <2>1. f \in [S -> 1 .. n]
    BY <1>3, <1>4, <1>7
  <2> QED
    BY <1>6, <1>7, <2>1 DEF Injection, IsInjective
<1>9. IsFiniteSet(1 .. n) /\ Cardinality(1 .. n) = n
  BY FS_Interval
<1>10. f \in Surjection(S, 1 .. n)
  BY <1>2, <1>8, <1>9, FS_Injection
<1>11. \A m \in 1 .. n : \E i \in S : Cardinality(R(i)) = m
  <2>1. \A m \in 1 .. n : \E i \in S : f[i] = m
    BY <1>10 DEF Surjection
  <2>2. \A i \in S : f[i] = Cardinality(R(i))
    BY <1>7
  <2> QED
    BY <2>1, <2>2
<1>12. \A i \in S : Cardinality(R(i)) \in 1 .. n
  BY <1>3, <1>4
<1>13. \A i : Rank(S, i) = Cardinality(R(i))
  BY DEF Rank
<1> HIDE DEF R
<1> QED
  BY <1>2, <1>6, <1>11, <1>12, <1>13

\* The k-th row is the one at place k.
LEMMA KthIs ==
  ASSUME NEW S \in SUBSET Nat, IsFiniteSet(S)
  PROVE  /\ \A k \in 1 .. Cardinality(S) : Import!Kth(S, k) \in S /\ Rank(S, Import!Kth(S, k)) = k
         /\ \A i \in S : Import!Kth(S, Rank(S, i)) = i
<1>1. \A i : Import!Cardinality({j \in S : j <= i}) = Rank(S, i)
  BY SameCount DEF Rank
<1>2. \A k : Import!Kth(S, k) = CHOOSE i \in S : Rank(S, i) = k
  BY <1>1 DEF Import!Kth
<1>3. ASSUME NEW k \in 1 .. Cardinality(S)
      PROVE  Import!Kth(S, k) \in S /\ Rank(S, Import!Kth(S, k)) = k
  <2>1. \E i \in S : Rank(S, i) = k
    BY RanksCount
  <2> QED
    BY <1>2, <2>1
<1>4. ASSUME NEW i \in S PROVE Import!Kth(S, Rank(S, i)) = i
  <2>1. Rank(S, i) \in 1 .. Cardinality(S)
    BY RanksCount
  <2>2. PICK k : k = Import!Kth(S, Rank(S, i))
    OBVIOUS
  <2>3. k \in S /\ Rank(S, k) = Rank(S, i)
    BY <1>3, <2>1, <2>2
  <2>4. \A j, h \in S : Rank(S, j) = Rank(S, h) => j = h
    BY RanksCount
  <2> QED
    BY <2>2, <2>3, <2>4
<1> QED
  BY <1>3, <1>4

\* What a parse owes its sheet.
Accounted(parsed) ==
  LET good == {parsed.valid[i].index : i \in DOMAIN parsed.valid}
      bad == {e.index : e \in parsed.errors}
  IN  /\ good \cup bad = 1 .. parsed.total /\ good \cap bad = {}
      /\ \A i \in DOMAIN parsed.valid : \A key \in Import!Schema :
           ~Import!IsBlank(parsed.valid[i].cells[key])

\* The rows that are parsed are rows of the sheet.
LEMMA DataRowsFinite ==
  ASSUME NEW sheet \in Sheets
  PROVE  Import!DataRows(sheet) \in SUBSET Nat /\ IsFiniteSet(Import!DataRows(sheet))
<1>1. Len(sheet) \in Nat /\ DOMAIN sheet = 1 .. Len(sheet)
  BY DEF Sheets
<1>2. Import!DataRows(sheet) \in SUBSET (1 .. Len(sheet))
  BY <1>1 DEF Import!DataRows, Import!Rows
<1>3. IsFiniteSet(1 .. Len(sheet))
  BY <1>1, FS_Interval
<1> QED
  BY <1>1, <1>2, <1>3, FS_Subset

\* The rows that are not complete, and the parse with these named.
Faulty(sheet) == {i \in Import!DataRows(sheet) : Import!RowFaulty(sheet, i, Import!Schema)}

Parse(sheet, D, F) ==
  [total |-> Import!Cardinality(D),
   valid |-> [k \in 1 .. Import!Cardinality(D \ F) |->
                [index |-> Import!RowIndex(sheet, Import!Kth(D \ F, k)),
                 cells |-> [key \in Import!Schema |->
                              Import!ReadCell(sheet, Import!Kth(D \ F, k), key)]]],
   errors |-> UNION {{[index |-> Import!RowIndex(sheet, i), column |-> key] :
                        key \in {c \in Import!Schema : Import!IsBlank(Import!ReadCell(sheet, i, c))}} :
                       i \in F}]

\* The parse of a sheet, its definition opened once.
LEMMA ParseUnfolds ==
  \A sheet : Import!ParseToRows(sheet, Import!Schema) =
               Parse(sheet, Import!DataRows(sheet), Faulty(sheet))
  BY Zenon DEF Import!ParseToRows, Parse, Faulty

\* What parseToRows makes of the rows under the header.
ParsedAs(parsed, sheet, D, F) ==
  /\ parsed.total = Cardinality(D)
  /\ DOMAIN parsed.valid = 1 .. Cardinality(D \ F)
  /\ parsed.valid = [k \in DOMAIN parsed.valid |-> parsed.valid[k]]
  /\ \A k \in 1 .. Cardinality(D \ F) :
       /\ parsed.valid[k].index = Rank(D, Import!Kth(D \ F, k))
       /\ parsed.valid[k].cells =
            [key \in Import!Schema |-> Import!ReadCell(sheet, Import!Kth(D \ F, k), key)]
  /\ {e.index : e \in parsed.errors} = {Rank(D, i) : i \in F}

\* The total, the complete rows in their order, and the rows named as faulty.
LEMMA ParseIs ==
  ASSUME NEW sheet \in Sheets, NEW parsed, parsed = Import!ParseToRows(sheet, Import!Schema),
         NEW D, D = Import!DataRows(sheet),
         NEW F, F = {i \in D : Import!RowFaulty(sheet, i, Import!Schema)}
  PROVE  ParsedAs(parsed, sheet, D, F)
<1> DEFINE Faults(i) == {c \in Import!Schema : Import!IsBlank(Import!ReadCell(sheet, i, c))}
           Incomplete == UNION {{[index |-> Import!RowIndex(sheet, i), column |-> key] :
                               key \in Faults(i)} : i \in F}
<1>1. \A i : Import!RowIndex(sheet, i) = Rank(D, i)
  BY SameCount DEF Import!RowIndex, Rank
<1>2. /\ parsed.total = Cardinality(D) /\ parsed.errors = Incomplete
      /\ parsed = Parse(sheet, D, F) /\ Import!Cardinality(D \ F) = Cardinality(D \ F)
  <2>1. F = Faulty(sheet)
    BY DEF Faulty
  <2>2. parsed = Parse(sheet, D, F)
    BY <2>1, ParseUnfolds
  <2>3. Import!Cardinality(D) = Cardinality(D) /\ Import!Cardinality(D \ F) = Cardinality(D \ F)
    BY SameCount
  <2>4. parsed.total = Cardinality(D)
    BY <2>2, <2>3 DEF Parse
  <2>5. parsed.errors = Incomplete
    BY <2>2 DEF Parse
  <2> QED
    BY <2>2, <2>3, <2>4, <2>5
<1>3. \A i \in F : Faults(i) # {}
  BY DEF Import!RowFaulty
<1>4. {e.index : e \in Incomplete} = {Rank(D, i) : i \in F}
  <2>1. ASSUME NEW e \in Incomplete PROVE \E i \in F : e.index = Rank(D, i)
    <3>1. PICK i \in F : e \in {[index |-> Import!RowIndex(sheet, i), column |-> key] :
                                  key \in Faults(i)}
      OBVIOUS
    <3>2. e.index = Import!RowIndex(sheet, i)
      BY <3>1
    <3> QED
      BY <1>1, <3>2
  <2>2. ASSUME NEW i \in F PROVE \E e \in Incomplete : e.index = Rank(D, i)
    <3>1. PICK key : key \in Faults(i)
      BY <1>3
    <3>2. PICK e : e = [index |-> Import!RowIndex(sheet, i), column |-> key]
      OBVIOUS
    <3>3. e \in Incomplete
      BY <3>1, <3>2
    <3> QED
      BY <1>1, <3>2, <3>3
  <2> HIDE DEF Incomplete
  <2> QED
    BY <2>1, <2>2
<1>5. /\ DOMAIN parsed.valid = 1 .. Cardinality(D \ F)
      /\ parsed.valid = [k \in DOMAIN parsed.valid |-> parsed.valid[k]]
      /\ \A k \in 1 .. Cardinality(D \ F) :
           /\ parsed.valid[k].index = Import!RowIndex(sheet, Import!Kth(D \ F, k))
           /\ parsed.valid[k].cells =
                [key \in Import!Schema |-> Import!ReadCell(sheet, Import!Kth(D \ F, k), key)]
  <2> DEFINE Cells(k) == [index |-> Import!RowIndex(sheet, Import!Kth(D \ F, k)),
                        cells |-> [key \in Import!Schema |->
                                     Import!ReadCell(sheet, Import!Kth(D \ F, k), key)]]
  <2>1. parsed.valid = [k \in 1 .. Import!Cardinality(D \ F) |-> Cells(k)]
    BY <1>2 DEF Parse
  <2>2. \A k : /\ Cells(k).index = Import!RowIndex(sheet, Import!Kth(D \ F, k))
               /\ Cells(k).cells = [key \in Import!Schema |->
                                     Import!ReadCell(sheet, Import!Kth(D \ F, k), key)]
    OBVIOUS
  <2> HIDE DEF Cells
  <2>3. PICK n : n = Import!Cardinality(D \ F)
    OBVIOUS
  <2>4. parsed.valid = [k \in 1 .. n |-> Cells(k)] /\ n = Cardinality(D \ F)
    BY <1>2, <2>1, <2>3
  <2>5. DOMAIN parsed.valid = 1 .. n /\ \A k \in 1 .. n : parsed.valid[k] = Cells(k)
    BY <2>4
  <2>6. parsed.valid = [k \in DOMAIN parsed.valid |-> parsed.valid[k]]
    BY <2>4
  <2> QED
    BY <2>2, <2>4, <2>5, <2>6
<1> HIDE DEF Incomplete
<1> QED
  BY <1>1, <1>2, <1>4, <1>5 DEF ParsedAs

\* Every row that is not empty is complete or faulty.
LEMMA AllAccounted ==
  ASSUME NEW sheet \in Sheets
  PROVE  Accounted(Import!ParseToRows(sheet, Import!Schema))
<1>1. PICK parsed, D, F :
        /\ parsed = Import!ParseToRows(sheet, Import!Schema) /\ D = Import!DataRows(sheet)
        /\ F = {i \in D : Import!RowFaulty(sheet, i, Import!Schema)}
  OBVIOUS
<1>2. D \in SUBSET Nat /\ IsFiniteSet(D)
  BY <1>1, DataRowsFinite
<1>3. D \ F \in SUBSET D /\ D \ F \in SUBSET Nat /\ IsFiniteSet(D \ F) /\ F \in SUBSET D
  BY <1>1, <1>2, FS_Subset
<1>4. PICK n \in Nat, m \in Nat : n = Cardinality(D) /\ m = Cardinality(D \ F)
  BY <1>2, <1>3, FS_CardinalityType
<1> DEFINE K(k) == Import!Kth(D \ F, k)
<1>5. (\A k \in 1 .. m : K(k) \in D \ F) /\ (\A i \in D \ F : K(Rank(D \ F, i)) = i)
  BY <1>3, <1>4, KthIs
<1>6. \A i \in D \ F : Rank(D \ F, i) \in 1 .. m
  BY <1>3, <1>4, RanksCount
<1>7. /\ \A i \in D : Rank(D, i) \in 1 .. n
      /\ \A i, k \in D : Rank(D, i) = Rank(D, k) => i = k
      /\ \A j \in 1 .. n : \E i \in D : Rank(D, i) = j
  BY <1>2, <1>4, RanksCount
<1>8. /\ parsed.total = n /\ DOMAIN parsed.valid = 1 .. m
      /\ \A k \in 1 .. m :
           /\ parsed.valid[k].index = Rank(D, K(k))
           /\ parsed.valid[k].cells = [key \in Import!Schema |-> Import!ReadCell(sheet, K(k), key)]
      /\ {e.index : e \in parsed.errors} = {Rank(D, i) : i \in F}
  <2>1. ParsedAs(parsed, sheet, D, F)
    BY <1>1, ParseIs, Zenon
  <2> QED
    BY <1>4, <2>1 DEF ParsedAs
<1>9. {parsed.valid[k].index : k \in DOMAIN parsed.valid} = {Rank(D, i) : i \in D \ F}
  <2>1. ASSUME NEW k \in 1 .. m PROVE \E i \in D \ F : parsed.valid[k].index = Rank(D, i)
    BY <1>5, <1>8
  <2>2. ASSUME NEW i \in D \ F PROVE \E k \in 1 .. m : parsed.valid[k].index = Rank(D, i)
    <3>1. PICK k \in 1 .. m : K(k) = i
      BY <1>5, <1>6
    <3>2. parsed.valid[k].index = Rank(D, K(k))
      BY <1>8
    <3> QED
      BY <3>1, <3>2
  <2>3. DOMAIN parsed.valid = 1 .. m
    BY <1>8
  <2> QED
    BY <2>1, <2>2, <2>3
<1>10. \A k \in 1 .. m : \A key \in Import!Schema : ~Import!IsBlank(parsed.valid[k].cells[key])
  <2> SUFFICES ASSUME NEW k \in 1 .. m, NEW key \in Import!Schema
               PROVE  ~Import!IsBlank(parsed.valid[k].cells[key])
    OBVIOUS
  <2>1. K(k) \in D /\ K(k) \notin F
    BY <1>5
  <2>2. ~Import!RowFaulty(sheet, K(k), Import!Schema)
    BY <1>1, <2>1
  <2>3. ~Import!IsBlank(Import!ReadCell(sheet, K(k), key))
    BY <2>2 DEF Import!RowFaulty
  <2>4. parsed.valid[k].cells[key] = Import!ReadCell(sheet, K(k), key)
    BY <1>8
  <2> QED
    BY <2>3, <2>4
<1> HIDE DEF K
<1>11. {Rank(D, i) : i \in D \ F} \cup {Rank(D, i) : i \in F} = 1 .. n
  BY <1>3, <1>7
<1>12. {Rank(D, i) : i \in D \ F} \cap {Rank(D, i) : i \in F} = {}
  BY <1>3, <1>7
<1>13. /\ {parsed.valid[k].index : k \in DOMAIN parsed.valid} \cup {e.index : e \in parsed.errors}
           = 1 .. parsed.total
       /\ {parsed.valid[k].index : k \in DOMAIN parsed.valid} \cap {e.index : e \in parsed.errors} = {}
  BY <1>8, <1>9, <1>11, <1>12
<1>14. \A k \in DOMAIN parsed.valid : \A key \in Import!Schema :
         ~Import!IsBlank(parsed.valid[k].cells[key])
  BY <1>8, <1>10
<1>15. Accounted(parsed)
  BY <1>13, <1>14, Zenon DEF Accounted
<1> QED
  BY <1>1, <1>15

\* Every setting is listed once.
LEMMA ListedIs ==
  /\ NamesListed \in Nat \ {0} /\ DOMAIN Import!Listed = 1 .. NamesListed
  /\ \A i \in 1 .. NamesListed : Import!Listed[i] \in DOMAIN Kind
  /\ \A k \in DOMAIN Kind : \E i \in 1 .. NamesListed : Import!Listed[i] = k
<1>1. IsFiniteSet(DOMAIN Kind) /\ DOMAIN Kind # {}
  BY PagesAssumption, CountableSame
     DEF PagesAssumption, Import!ImportsAssumption, Import!SettingNames
<1>2. PICK s : s = SetToSeq(DOMAIN Kind)
  OBVIOUS
<1>3. Import!Listed = s
  <2>1. \A C : Import!SetToSeq(C) = SetToSeq(C)
    BY SameCount DEF Import!SetToSeq, SetToSeq, Import!IsInjective, IsInjective
  <2> QED
    BY <1>2, <2>1 DEF Import!Listed, Import!SettingNames
<1>4. PICK n \in Nat : n = NamesListed
  BY <1>1, FS_CardinalityType DEF NamesListed
<1>5. s \in [1 .. n -> DOMAIN Kind] /\ \A i, j \in 1 .. n : s[i] = s[j] => i = j
  BY <1>1, <1>2, <1>4, InTheList DEF NamesListed
<1>6. s \in Injection(1 .. n, DOMAIN Kind)
  BY <1>5 DEF Injection, IsInjective
<1>7. IsFiniteSet(1 .. n) /\ Cardinality(1 .. n) = n
  BY FS_Interval
<1>8. s \in Surjection(1 .. n, DOMAIN Kind)
  BY <1>1, <1>4, <1>6, <1>7, FS_Injection DEF NamesListed
<1>9. n # 0
  BY <1>1, <1>4, FS_EmptySet DEF NamesListed
<1> QED
  BY <1>3, <1>4, <1>5, <1>8, <1>9 DEF Surjection

\* What is printed of a value is one of the texts that can be read.
LEMMA PrintedIs ==
  ASSUME NEW v \in [type : Import!Types, of : {"0", "1"}]
  PROVE  /\ Import!Printed(v).form \in {"digits", "word", "brackets"}
         /\ Import!Printed(v).of = v.of
         /\ Import!Printed(v) = Import!Cell(Import!Printed(v).form, v.of)
         /\ Import!Printed(v) \in SheetCells
         /\ Import!Readable(Import!Printed(v), v.type)
         /\ Import!Coerced(Import!Printed(v), v.type) = v
<1>1. PICK t \in Import!Types, o \in {"0", "1"} : v = [type |-> t, of |-> o]
  OBVIOUS
<1>2. PICK f : f = Import!Form[t]
  OBVIOUS
<1>3. \/ t = "number" /\ f = "digits"
      \/ t = "boolean" /\ f = "word"
      \/ t = "array" /\ f = "brackets"
  BY <1>2 DEF Import!Form, Import!Types
<1>4. PICK p : p = Import!Printed(v)
  OBVIOUS
<1>5. p = [form |-> f, of |-> o] /\ v.type = t /\ v.of = o
  BY <1>1, <1>2, <1>4 DEF Import!Printed, Import!Cell
<1>6. p.form = f /\ p.of = o /\ p = Import!Cell(p.form, v.of)
  BY <1>5 DEF Import!Cell
<1>7. p \in SheetCells
  BY <1>3, <1>5 DEF SheetCells
<1>8. Import!Readable(p, v.type)
  BY <1>3, <1>5, <1>6 DEF Import!Readable
<1>9. Import!Coerced(p, v.type) = v
  BY <1>1, <1>5, <1>6 DEF Import!Coerced, Import!Value
<1> QED
  BY <1>3, <1>4, <1>5, <1>6, <1>7, <1>8, <1>9

\* The cells of a sheet that are no texts of values.
LEMMA OtherCells ==
  /\ Import!Note \in SheetCells /\ Import!Blank \in SheetCells
  /\ \A k \in {"key", "value", "description"} : Import!Label(k) \in SheetCells
  /\ \A k \in DOMAIN Kind : Import!Cell("name", k) \in SheetCells
  BY DEF Import!Note, Import!Blank, Import!Label, Import!Cell, SheetCells

\* An export holds such cells.
LEMMA ExportTyped ==
  ASSUME NEW was \in SettingStates
  PROVE  BareSheet(was) \in Sheets /\ FullSheet(was) \in Sheets
<1>1. PICK n \in Nat : n = NamesListed
  BY ListedIs
<1>2. \A i \in 1 .. n : /\ Import!Cell("name", Import!Listed[i]) \in SheetCells
                        /\ Import!Printed(was[Import!Listed[i]]) \in SheetCells
  <2>1. \A i \in 1 .. n : Import!Listed[i] \in DOMAIN Kind
    BY <1>1, ListedIs
  <2>2. \A k \in DOMAIN Kind : was[k] \in [type : Import!Types, of : {"0", "1"}]
    BY DEF SettingStates
  <2> QED
    BY <2>1, <2>2, PrintedIs, OtherCells
<1>3. \A i \in 1 .. n + 1 : i # 1 => i - 1 \in 1 .. n
  OBVIOUS
<1>4. \A i \in 1 .. n + 1 : BareSheet(was)[i] \in Seq(SheetCells)
  <2> SUFFICES ASSUME NEW i \in 1 .. n + 1 PROVE BareSheet(was)[i] \in Seq(SheetCells)
    OBVIOUS
  <2>1. CASE i = 1
    BY <1>1, <2>1, OtherCells DEF BareSheet
  <2>2. CASE i # 1
    <3>1. BareSheet(was)[i] =
            <<Import!Cell("name", Import!Listed[i - 1]),
              Import!Printed(was[Import!Listed[i - 1]]), Import!Blank>>
      BY <1>1, <2>2 DEF BareSheet
    <3> QED
      BY <1>2, <1>3, <2>2, <3>1, OtherCells
  <2> QED
    BY <2>1, <2>2
<1>5. BareSheet(was) \in [1 .. n + 1 -> Seq(SheetCells)]
  BY <1>1, <1>4 DEF BareSheet
<1>6. \A i \in 1 .. n + 4 : FullSheet(was)[i] \in Seq(SheetCells)
  <2> SUFFICES ASSUME NEW i \in 1 .. n + 4 PROVE FullSheet(was)[i] \in Seq(SheetCells)
    OBVIOUS
  <2>1. CASE i <= 2
    BY <1>1, <2>1, OtherCells DEF FullSheet
  <2>2. CASE i = 3
    BY <1>1, <2>2 DEF FullSheet
  <2>3. CASE i > 3
    <3>1. FullSheet(was)[i] = BareSheet(was)[i - 3]
      BY <1>1, <2>3 DEF FullSheet
    <3> QED
      BY <1>4, <2>3, <3>1
  <2> QED
    BY <2>1, <2>2, <2>3
<1>7. FullSheet(was) \in [1 .. n + 4 -> Seq(SheetCells)]
  BY <1>1, <1>6 DEF FullSheet
<1> QED
  BY <1>5, <1>7 DEF Sheets

\* The columns of an export.
LEMMA ColumnsAre ==
  /\ Import!SettingsColumns \in Seq({Import!SettingsColumns[1], Import!SettingsColumns[2],
                                     Import!SettingsColumns[3]})
  /\ DOMAIN Import!SettingsColumns = 1 .. 3
  /\ Import!SettingsColumns[1] = [key |-> "key", label |-> "key", type |-> "name", mask |-> FALSE]
  /\ Import!SettingsColumns[2] = [key |-> "value", label |-> "value", type |-> "text", mask |-> FALSE]
  /\ Import!SettingsColumns[3] =
       [key |-> "description", label |-> "description", type |-> "none", mask |-> FALSE]
  BY DEF Import!SettingsColumns

\* What a value becomes in a column that is not masked and holds no paise.
LEMMA PlainCell ==
  \A c, raw : c.mask = FALSE /\ c.type # "currency" =>
    /\ raw.type = "none" => Import!Formatted(c, raw, FALSE) = Import!Blank
    /\ raw.type # "none" => Import!Formatted(c, raw, FALSE) = Import!Cell(raw.type, raw.of)
  BY DEF Import!Formatted

\* What a setting becomes in its columns.
LEMMA FormattedRow ==
  ASSUME settings \in SettingStates, NEW k \in DOMAIN Kind,
         NEW row, row = Import!SettingRow(k)
  PROVE  /\ Import!Formatted(Import!SettingsColumns[1], row["key"], FALSE) = Import!Cell("name", k)
         /\ Import!Formatted(Import!SettingsColumns[2], row["value"], FALSE)
              = Import!Printed(settings[k])
         /\ Import!Formatted(Import!SettingsColumns[3], row["description"], FALSE) = Import!Blank
<1>1. PICK v : v = settings[k] /\ v \in [type : Import!Types, of : {"0", "1"}]
  BY DEF SettingStates
<1>2. PICK p : p = Import!Printed(v)
  OBVIOUS
<1>3. p.form \in {"digits", "word", "brackets"} /\ p.of = v.of /\ p = Import!Cell(p.form, v.of)
  BY <1>1, <1>2, PrintedIs
<1>4. /\ row.key = [type |-> "name", of |-> k]
      /\ row.value = [type |-> p.form, of |-> v.of]
      /\ row.description.type = "none"
  BY <1>1, <1>2 DEF Import!SettingRow
<1>5. Import!Formatted(Import!SettingsColumns[1], row["key"], FALSE) = Import!Cell("name", k)
  <2>1. PICK c : c = Import!SettingsColumns[1] /\ c.mask = FALSE /\ c.type # "currency"
    BY ColumnsAre
  <2>2. PICK raw : raw = row["key"] /\ raw.type = "name" /\ raw.of = k
    BY <1>4
  <2>3. Import!Formatted(c, raw, FALSE) = Import!Cell(raw.type, raw.of)
    BY <2>1, <2>2, PlainCell
  <2> QED
    BY <2>1, <2>2, <2>3
<1>6. Import!Formatted(Import!SettingsColumns[2], row["value"], FALSE) = Import!Cell(p.form, v.of)
  <2>1. PICK c : c = Import!SettingsColumns[2] /\ c.mask = FALSE /\ c.type # "currency"
    BY ColumnsAre
  <2>2. PICK raw : raw = row["value"] /\ raw.type = p.form /\ raw.of = v.of /\ raw.type # "none"
    BY <1>3, <1>4
  <2>3. Import!Formatted(c, raw, FALSE) = Import!Cell(raw.type, raw.of)
    BY <2>1, <2>2, PlainCell
  <2> QED
    BY <2>1, <2>2, <2>3
<1>7. Import!Formatted(Import!SettingsColumns[3], row["description"], FALSE) = Import!Blank
  <2>1. PICK c : c = Import!SettingsColumns[3] /\ c.mask = FALSE /\ c.type # "currency"
    BY ColumnsAre
  <2> QED
    BY <1>4, <2>1, PlainCell
<1> QED
  BY <1>1, <1>2, <1>3, <1>5, <1>6, <1>7

\* Tuples of which the elements are known, and one more element.
LEMMA TuplesOfThree == \A f : [c \in 1 .. 3 |-> f[c]] = <<f[1], f[2], f[3]>>
  OBVIOUS

\* A triple from a pair and one more.
LEMMA OneAfterTwo == ASSUME NEW a, NEW b, NEW c PROVE <<a, b>> \o <<c>> = <<a, b, c>>
<1>1. PICK S, p, q : S = {a, b, c} /\ p = <<a, b>> /\ q = <<c>>
  OBVIOUS
<1>2. p \in Seq(S) /\ q \in Seq(S) /\ Len(p) = 2 /\ Len(q) = 1 /\ p[1] = a /\ p[2] = b /\ q[1] = c
  BY <1>1
<1>3. /\ p \o q \in Seq(S) /\ Len(p \o q) = 3
      /\ \A i \in 1 .. 3 : (p \o q)[i] = IF i <= 2 THEN p[i] ELSE q[i - 2]
  <2>1. /\ p \o q \in Seq(S) /\ Len(p \o q) = Len(p) + Len(q)
        /\ \A i \in 1 .. Len(p) + Len(q) :
             (p \o q)[i] = IF i <= Len(p) THEN p[i] ELSE q[i - Len(p)]
    BY <1>2, ConcatProperties
  <2>2. Len(p) = 2 /\ Len(q) = 1 /\ Len(p) + Len(q) = 3
    BY <1>2
  <2> QED
    BY <2>1, <2>2
<1>4. PICK r : r = p \o q
  OBVIOUS
<1>5. r \in Seq(S) /\ Len(r) = 3 /\ r[1] = a /\ r[2] = b /\ r[3] = c
  BY <1>2, <1>3, <1>4
<1>6. r = <<a, b, c>>
  BY <1>5
<1> QED
  BY <1>1, <1>4, <1>6

\* What is put above a sheet of three columns, with the summary and without the
\* filters.
LEMMA HeadingIs ==
  Import!Heading(Import!SettingsColumns, FALSE, TRUE) =
    <<<<Import!Note, Import!Note, Import!Note>>, <<Import!Note, Import!Note, Import!Note>>, <<>>>>
<1>1. [c \in DOMAIN Import!SettingsColumns |-> Import!Note]
        = <<Import!Note, Import!Note, Import!Note>>
  BY ColumnsAre
<1>2. \A t : [i \in 1 .. 2 |-> t] \o << <<>> >> = <<t, t, <<>>>>
  <2> SUFFICES ASSUME NEW t PROVE [i \in 1 .. 2 |-> t] \o << <<>> >> = <<t, t, <<>>>>
    OBVIOUS
  <2>1. [i \in 1 .. 2 |-> t] = <<t, t>>
    OBVIOUS
  <2>2. PICK e : e = << >>
    OBVIOUS
  <2>3. <<t, t>> \o <<e>> = <<t, t, e>>
    BY OneAfterTwo
  <2> QED
    BY <2>1, <2>2, <2>3
<1>3. Import!Heading(Import!SettingsColumns, FALSE, TRUE)
        = [i \in 1 .. 2 |-> <<Import!Note, Import!Note, Import!Note>>] \o << <<>> >>
  BY <1>1 DEF Import!Heading
<1> QED
  BY <1>2, <1>3

\* The header of an export.
LEMMA HeaderIs ==
  Import!Header(Import!SettingsColumns) =
    <<Import!Label("key"), Import!Label("value"), Import!Label("description")>>
  BY ColumnsAre DEF Import!Header

\* Four rows and as many as are listed, one after the other.
LEMMA Stacked ==
  ASSUME NEW n \in Nat, NEW a, NEW b, NEW c, NEW d, NEW lines, DOMAIN lines = 1 .. n,
         lines \in Seq({lines[i] : i \in 1 .. n})
  PROVE  /\ <<a, b, c>> \o <<d>> \o lines \in Seq({a, b, c, d} \cup {lines[i] : i \in 1 .. n})
         /\ Len(<<a, b, c>> \o <<d>> \o lines) = n + 4
         /\ (<<a, b, c>> \o <<d>> \o lines)[1] = a /\ (<<a, b, c>> \o <<d>> \o lines)[2] = b
         /\ (<<a, b, c>> \o <<d>> \o lines)[3] = c /\ (<<a, b, c>> \o <<d>> \o lines)[4] = d
         /\ \A i \in 5 .. n + 4 : (<<a, b, c>> \o <<d>> \o lines)[i] = lines[i - 4]
<1>1. PICK S : S = {a, b, c, d} \cup {lines[i] : i \in 1 .. n}
  OBVIOUS
<1>2. PICK t, u, top : t = <<a, b, c>> /\ u = <<d>> /\ top = t \o u
  OBVIOUS
<1>3. /\ t \in Seq(S) /\ Len(t) = 3 /\ t[1] = a /\ t[2] = b /\ t[3] = c
      /\ u \in Seq(S) /\ Len(u) = 1 /\ u[1] = d
  BY <1>1, <1>2
<1>4. /\ top \in Seq(S) /\ Len(top) = 4
      /\ top[1] = a /\ top[2] = b /\ top[3] = c /\ top[4] = d
  <2>1. /\ t \o u \in Seq(S) /\ Len(t \o u) = Len(t) + Len(u)
        /\ \A i \in 1 .. Len(t) + Len(u) :
             (t \o u)[i] = IF i <= Len(t) THEN t[i] ELSE u[i - Len(t)]
    BY <1>3, ConcatProperties
  <2>2. Len(t) = 3 /\ Len(u) = 1 /\ Len(t) + Len(u) = 4
    BY <1>3
  <2> QED
    BY <1>2, <1>3, <2>1, <2>2
<1>5. lines \in Seq(S) /\ Len(lines) = n
  BY <1>1
<1>6. /\ top \o lines \in Seq(S) /\ Len(top \o lines) = n + 4
      /\ \A i \in 1 .. n + 4 : (top \o lines)[i] = IF i <= 4 THEN top[i] ELSE lines[i - 4]
  <2>1. /\ top \o lines \in Seq(S) /\ Len(top \o lines) = Len(top) + Len(lines)
        /\ \A i \in 1 .. Len(top) + Len(lines) :
             (top \o lines)[i] = IF i <= Len(top) THEN top[i] ELSE lines[i - Len(top)]
    BY <1>4, <1>5, ConcatProperties
  <2>2. Len(top) + Len(lines) = n + 4
    BY <1>4, <1>5
  <2> QED
    BY <1>4, <2>1, <2>2
<1>7. \A i \in 1 .. 4 : (top \o lines)[i] = top[i]
  BY <1>6
<1>8. \A i \in 5 .. n + 4 : (top \o lines)[i] = lines[i - 4]
  BY <1>6
<1> QED
  BY <1>1, <1>2, <1>4, <1>6, <1>7, <1>8

\* What is exported (exportSettings, exportToBuffer).
LEMMA ExportIs ==
  ASSUME settings \in SettingStates
  PROVE  Import!SettingsSheet = FullSheet(settings)
<1> DEFINE N3 == <<Import!Note, Import!Note, Import!Note>>
           H == <<Import!Label("key"), Import!Label("value"), Import!Label("description")>>
           Body(i) == <<Import!Cell("name", Import!Listed[i]),
                        Import!Printed(settings[Import!Listed[i]]), Import!Blank>>
<1>1. PICK n \in Nat : n = NamesListed /\ DOMAIN Import!Listed = 1 .. n
  BY ListedIs
<1>2. PICK lines : lines = [i \in DOMAIN Import!Listed |-> Import!SettingRow(Import!Listed[i])]
  OBVIOUS
<1>3. PICK cells : cells = [r \in DOMAIN lines |->
                              [c \in DOMAIN Import!SettingsColumns |->
                                 Import!Formatted(Import!SettingsColumns[c],
                                                  lines[r][Import!SettingsColumns[c].key], FALSE)]]
  OBVIOUS
<1>4. DOMAIN cells = 1 .. n /\ cells = [r \in 1 .. n |-> cells[r]]
  BY <1>1, <1>2, <1>3
<1>5. ASSUME NEW r \in 1 .. n PROVE cells[r] = Body(r)
  <2>1. PICK k : k = Import!Listed[r]
    OBVIOUS
  <2>2. k \in DOMAIN Kind
    BY <1>1, <2>1, ListedIs
  <2>3. PICK row : row = Import!SettingRow(k)
    OBVIOUS
  <2>4. lines[r] = row
    BY <1>1, <1>2, <2>1, <2>3
  <2>5. /\ Import!SettingsColumns[1].key = "key" /\ Import!SettingsColumns[2].key = "value"
        /\ Import!SettingsColumns[3].key = "description"
    BY ColumnsAre
  <2>6. /\ Import!Formatted(Import!SettingsColumns[1], row["key"], FALSE) = Import!Cell("name", k)
        /\ Import!Formatted(Import!SettingsColumns[2], row["value"], FALSE)
             = Import!Printed(settings[k])
        /\ Import!Formatted(Import!SettingsColumns[3], row["description"], FALSE) = Import!Blank
    BY <2>2, <2>3, FormattedRow
  <2>7. cells[r] = [c \in 1 .. 3 |->
                      Import!Formatted(Import!SettingsColumns[c],
                                       row[Import!SettingsColumns[c].key], FALSE)]
    BY <1>1, <1>2, <1>3, <2>4, ColumnsAre
  <2>8. /\ cells[r][1] = Import!Formatted(Import!SettingsColumns[1], row["key"], FALSE)
        /\ cells[r][2] = Import!Formatted(Import!SettingsColumns[2], row["value"], FALSE)
        /\ cells[r][3] = Import!Formatted(Import!SettingsColumns[3], row["description"], FALSE)
    <3> DEFINE F(c) == Import!Formatted(Import!SettingsColumns[c],
                                        row[Import!SettingsColumns[c].key], FALSE)
    <3>1. cells[r] = [c \in 1 .. 3 |-> F(c)]
      BY <2>7
    <3>2. /\ F(1) = Import!Formatted(Import!SettingsColumns[1], row["key"], FALSE)
          /\ F(2) = Import!Formatted(Import!SettingsColumns[2], row["value"], FALSE)
          /\ F(3) = Import!Formatted(Import!SettingsColumns[3], row["description"], FALSE)
      BY <2>5
    <3> HIDE DEF F
    <3>3. cells[r][1] = F(1) /\ cells[r][2] = F(2) /\ cells[r][3] = F(3)
      BY <3>1
    <3> QED
      BY <3>2, <3>3
  <2>9. cells[r] = <<cells[r][1], cells[r][2], cells[r][3]>>
    <3>1. cells[r] = [c \in 1 .. 3 |-> cells[r][c]]
      BY <2>7
    <3> QED
      BY <3>1, TuplesOfThree
  <2> QED
    BY <2>1, <2>6, <2>8, <2>9
<1>6. cells \in Seq({cells[i] : i \in 1 .. n})
  BY <1>4
<1>7. Import!SettingsSheet = <<N3, N3, <<>>>> \o <<H>> \o cells
  BY <1>2, <1>3, HeadingIs, HeaderIs DEF Import!SettingsSheet, Import!ExportToBuffer
<1>8. PICK sheet : sheet = Import!SettingsSheet
  OBVIOUS
<1>9. /\ sheet \in Seq({N3, N3, <<>>, H} \cup {cells[i] : i \in 1 .. n}) /\ Len(sheet) = n + 4
      /\ sheet[1] = N3 /\ sheet[2] = N3 /\ sheet[3] = <<>> /\ sheet[4] = H
      /\ \A i \in 5 .. n + 4 : sheet[i] = cells[i - 4]
  <2>1. PICK a, d, e : a = N3 /\ d = H /\ e = <<>>
    OBVIOUS
  <2> HIDE DEF N3, H
  <2>2. cells \in Seq({cells[i] : i \in 1 .. n})
    BY <1>6
  <2>3. sheet = <<a, a, e>> \o <<d>> \o cells
    BY <1>7, <1>8, <2>1
  <2>4. /\ sheet \in Seq({a, a, e, d} \cup {cells[i] : i \in 1 .. n}) /\ Len(sheet) = n + 4
        /\ sheet[1] = a /\ sheet[2] = a /\ sheet[3] = e /\ sheet[4] = d
        /\ \A i \in 5 .. n + 4 : sheet[i] = cells[i - 4]
    BY <1>4, <2>2, <2>3, Stacked
  <2> QED
    BY <2>1, <2>4
<1>10. sheet = [i \in 1 .. n + 4 |-> sheet[i]]
  BY <1>9
<1>11. ASSUME NEW i \in 1 .. n + 4 PROVE sheet[i] = FullSheet(settings)[i]
  <2>1. CASE i <= 2
    <3>1. FullSheet(settings)[i] = N3
      BY <1>1, <2>1 DEF FullSheet
    <3>2. i = 1 \/ i = 2
      BY <2>1
    <3> QED
      BY <1>9, <3>1, <3>2
  <2>2. CASE i = 3
    BY <1>1, <1>9, <2>2 DEF FullSheet
  <2>3. CASE i = 4
    <3>1. FullSheet(settings)[i] = BareSheet(settings)[1]
      BY <1>1, <2>3 DEF FullSheet
    <3>2. BareSheet(settings)[1] = H
      BY <1>1 DEF BareSheet
    <3> QED
      BY <1>9, <2>3, <3>1, <3>2
  <2>4. CASE i > 4
    <3>1. FullSheet(settings)[i] = BareSheet(settings)[i - 3]
      BY <1>1, <2>4 DEF FullSheet
    <3>2. i - 3 \in 1 .. n + 1 /\ i - 3 # 1 /\ (i - 3) - 1 = i - 4 /\ i - 4 \in 1 .. n
      BY <2>4
    <3>3. BareSheet(settings)[i - 3] = Body(i - 4)
      BY <1>1, <3>2 DEF BareSheet
    <3>4. sheet[i] = cells[i - 4]
      BY <1>9, <2>4
    <3> QED
      BY <1>5, <3>1, <3>2, <3>3, <3>4
  <2> QED
    BY <2>1, <2>2, <2>3, <2>4
<1>12. FullSheet(settings) = [i \in 1 .. n + 4 |-> FullSheet(settings)[i]]
  BY <1>1 DEF FullSheet
<1> QED
  BY <1>8, <1>10, <1>11, <1>12

\* The first line that is not empty is the header.
LEMMA HeaderIsFirst ==
  ASSUME NEW sheet \in Sheets, Len(sheet) >= 1, ~Import!IsRowEmpty(sheet[1])
  PROVE  Import!HeaderRow(sheet) = 1
<1>1. 1 \in Import!Rows(sheet) /\ \A i \in Import!Rows(sheet) : i \in Nat /\ 1 <= i
  BY DEF Import!Rows, Sheets
<1>2. Import!HeaderRow(sheet) = CHOOSE x \in Import!Rows(sheet) : \A y \in Import!Rows(sheet) : x <= y
  BY DEF Import!HeaderRow, Import!Min
<1>3. PICK h : h = Import!HeaderRow(sheet)
  OBVIOUS
<1>4. h \in Import!Rows(sheet) /\ \A y \in Import!Rows(sheet) : h <= y
  BY <1>1, <1>2, <1>3
<1>5. h <= 1 /\ 1 <= h /\ h \in Nat
  BY <1>1, <1>4
<1> QED
  BY <1>3, <1>5

\* Without its lines above the header an export is what is left.
LEMMA HeadingDeleted ==
  ASSUME NEW was \in SettingStates
  PROVE  /\ SubSeq(FullSheet(was), 4, Len(FullSheet(was))) = BareSheet(was)
         /\ BareSheet(was)[1] # BareSheet(was)[2]
<1>1. PICK n \in Nat \ {0} : n = NamesListed
  BY ListedIs
<1>2. PICK s : s = FullSheet(was)
  OBVIOUS
<1>3. s \in Seq(Seq(SheetCells)) /\ DOMAIN s = 1 .. n + 4 /\ Len(s) = n + 4
  <2>1. s \in Seq(Seq(SheetCells))
    BY <1>2, ExportTyped DEF Sheets
  <2>2. DOMAIN s = 1 .. n + 4
    BY <1>1, <1>2 DEF FullSheet
  <2> QED
    BY <2>1, <2>2
<1>4. PICK t : t = SubSeq(s, 4, n + 4)
  OBVIOUS
<1>5. t = [i \in 1 .. n + 1 |-> s[i + 3]]
  BY <1>3, <1>4
<1>6. ASSUME NEW i \in 1 .. n + 1 PROVE s[i + 3] = BareSheet(was)[i]
  BY <1>1, <1>2 DEF FullSheet
<1>7. BareSheet(was) = [i \in 1 .. n + 1 |-> BareSheet(was)[i]]
  BY <1>1 DEF BareSheet
<1>8. t = BareSheet(was)
  BY <1>5, <1>6, <1>7
<1>9. BareSheet(was)[1][1].form = "label" /\ BareSheet(was)[2][1].form = "name"
  BY <1>1 DEF BareSheet, Import!Label, Import!Cell
<1> QED
  BY <1>2, <1>3, <1>4, <1>8, <1>9

\* The forms of the cells of a heading and of a row.
LEMMA FormsAre ==
  /\ Import!Note.form = "note" /\ Import!Blank.form = "blank"
  /\ \A k : Import!Label(k).form = "label" /\ Import!Label(k).of = k
  /\ \A f, o : Import!Cell(f, o).form = f /\ Import!Cell(f, o).of = o
<1>1. \A f, o : Import!Cell(f, o).form = f /\ Import!Cell(f, o).of = o
  BY DEF Import!Cell
<1> QED
  BY <1>1, Zenon DEF Import!Note, Import!Blank, Import!Label

\* With them it is refused: the title is taken for the header (parseToRows).
LEMMA FullRefused ==
  ASSUME NEW was \in SettingStates
  PROVE  Import!Refused(FullSheet(was), Import!Schema)
<1>1. PICK n \in Nat : n = NamesListed
  BY ListedIs
<1>2. PICK s : s = FullSheet(was)
  OBVIOUS
<1>3. s \in Sheets /\ Len(s) >= 1
  <2>1. s \in Seq(Seq(SheetCells))
    BY <1>2, ExportTyped DEF Sheets
  <2>2. DOMAIN s = 1 .. n + 4
    BY <1>1, <1>2 DEF FullSheet
  <2> QED
    BY <2>1, <2>2 DEF Sheets
<1>4. s[1] = <<Import!Note, Import!Note, Import!Note>>
  BY <1>1, <1>2 DEF FullSheet
<1>5. ~Import!IsRowEmpty(s[1])
  <2>1. 1 \in DOMAIN s[1] /\ s[1][1].form = "note"
    BY <1>4, FormsAre
  <2> QED
    BY <2>1 DEF Import!IsRowEmpty, Import!IsBlank
<1>6. Import!HeaderRow(s) = 1
  BY <1>3, <1>5, HeaderIsFirst
<1>7. {c \in DOMAIN s[1] : s[1][c] = Import!Label("key")} = {}
  <2>1. \A c \in DOMAIN s[1] : s[1][c] = Import!Note
    BY <1>4
  <2>2. Import!Note # Import!Label("key")
    BY FormsAre
  <2> QED
    BY <2>1, <2>2
<1>8. Import!Columns(s, "key") = {}
  BY <1>6, <1>7 DEF Import!Columns
<1> QED
  BY <1>2, <1>8 DEF Import!Refused, Import!Schema

\* The cells of a row of an export.
LEMMA BareRows ==
  ASSUME NEW was \in SettingStates, NEW i \in 1 .. NamesListed + 1
  PROVE  /\ DOMAIN BareSheet(was)[i] = 1 .. 3
         /\ i = 1 => /\ BareSheet(was)[i][1] = Import!Label("key")
                     /\ BareSheet(was)[i][2] = Import!Label("value")
                     /\ BareSheet(was)[i][3] = Import!Label("description")
         /\ i # 1 => /\ BareSheet(was)[i][1] = Import!Cell("name", Import!Listed[i - 1])
                     /\ BareSheet(was)[i][2] = Import!Printed(was[Import!Listed[i - 1]])
<1>1. NamesListed \in Nat
  BY ListedIs
<1>2. CASE i = 1
  BY <1>1, <1>2 DEF BareSheet
<1>3. CASE i # 1
  BY <1>1, <1>3 DEF BareSheet
<1> QED
  BY <1>2, <1>3

\* None of its first two cells is blank.
LEMMA BareFilled ==
  ASSUME NEW was \in SettingStates, NEW i \in 1 .. NamesListed + 1
  PROVE  ~Import!IsBlank(BareSheet(was)[i][1]) /\ ~Import!IsBlank(BareSheet(was)[i][2])
<1>1. NamesListed \in Nat
  BY ListedIs
<1>2. CASE i = 1
  <2>1. /\ BareSheet(was)[i][1] = Import!Label("key")
        /\ BareSheet(was)[i][2] = Import!Label("value")
    BY <1>2, BareRows
  <2> QED
    BY <2>1, FormsAre DEF Import!IsBlank
<1>3. CASE i # 1
  <2>1. i - 1 \in 1 .. NamesListed
    BY <1>1, <1>3
  <2>2. PICK k : k = Import!Listed[i - 1]
    OBVIOUS
  <2>3. k \in DOMAIN Kind
    BY <2>1, <2>2, ListedIs
  <2>4. was[k] \in [type : Import!Types, of : {"0", "1"}]
    BY <2>3 DEF SettingStates
  <2>5. Import!Printed(was[k]).form \in {"digits", "word", "brackets"}
    BY <2>4, PrintedIs
  <2>6. BareSheet(was)[i][1] = Import!Cell("name", k) /\ BareSheet(was)[i][2] = Import!Printed(was[k])
    BY <1>3, <2>2, BareRows
  <2> QED
    BY <2>5, <2>6 DEF Import!IsBlank, Import!Cell
<1> QED
  BY <1>2, <1>3

\* Where the columns of an export are.
LEMMA BareColumns ==
  ASSUME NEW was \in SettingStates, NEW s, s = BareSheet(was)
  PROVE  /\ Import!Rows(s) = 1 .. NamesListed + 1 /\ Import!HeaderRow(s) = 1
         /\ Import!Columns(s, "key") = {1} /\ Import!Columns(s, "value") = {2}
<1>1. PICK n \in Nat : n = NamesListed
  BY ListedIs
<1>2. s \in Sheets /\ DOMAIN s = 1 .. n + 1 /\ Len(s) = n + 1
  <2>1. s \in Seq(Seq(SheetCells))
    BY ExportTyped DEF Sheets
  <2>2. DOMAIN s = 1 .. n + 1
    BY <1>1 DEF BareSheet
  <2> QED
    BY <2>1, <2>2 DEF Sheets
<1>3. \A i \in 1 .. n + 1 : DOMAIN s[i] = 1 .. 3 /\ ~Import!IsBlank(s[i][1])
  BY <1>1, BareRows, BareFilled
<1>4. \A i \in 1 .. n + 1 : ~Import!IsRowEmpty(s[i])
  BY <1>3 DEF Import!IsRowEmpty
<1>5. Import!Rows(s) = 1 .. n + 1
  BY <1>2, <1>4 DEF Import!Rows
<1>6. Import!HeaderRow(s) = 1
  BY <1>2, <1>4, HeaderIsFirst
<1>7. PICK h : h = s[1]
  OBVIOUS
<1>8. /\ DOMAIN h = 1 .. 3 /\ h[1] = Import!Label("key") /\ h[2] = Import!Label("value")
      /\ h[3] = Import!Label("description")
  BY <1>1, <1>7, BareRows
<1>9. ~Import!IsBlank(h[1]) /\ ~Import!IsBlank(h[2])
  BY <1>8 DEF Import!IsBlank, Import!Label, Import!Cell
<1>10. Import!LabelPlace(h, 1) = 1
  <2>1. {j \in 1 .. 1 : ~Import!IsBlank(h[j])} = {1}
    BY <1>9
  <2>2. Cardinality({1}) = 1
    BY FS_Singleton
  <2> QED
    BY <2>1, <2>2, SameCount DEF Import!LabelPlace
<1>11. Import!LabelPlace(h, 2) = 2
  <2>1. {j \in 1 .. 2 : ~Import!IsBlank(h[j])} = {1} \cup {2} /\ 2 \notin {1}
    BY <1>9
  <2>2. Cardinality({1} \cup {2}) = 2
    <3>1. IsFiniteSet({1}) /\ Cardinality({1}) = 1
      BY FS_Singleton
    <3>2. Cardinality({1} \cup {2}) = IF 2 \in {1} THEN Cardinality({1}) ELSE Cardinality({1}) + 1
      BY <3>1, FS_AddElement
    <3> QED
      BY <2>1, <3>1, <3>2
  <2> QED
    BY <2>1, <2>2, SameCount DEF Import!LabelPlace
<1>12. /\ {c \in DOMAIN h : h[c] = Import!Label("key")} = {1}
       /\ {c \in DOMAIN h : h[c] = Import!Label("value")} = {2}
  BY <1>8 DEF Import!Label, Import!Cell
<1>13. /\ Import!Columns(s, "key") = {Import!LabelPlace(h, i) : i \in {1}}
       /\ Import!Columns(s, "value") = {Import!LabelPlace(h, i) : i \in {2}}
  BY <1>6, <1>7, <1>12 DEF Import!Columns
<1> QED
  BY <1>1, <1>5, <1>6, <1>10, <1>11, <1>13

\* What is read of an export are the values that were printed, one row after
\* the other (parseToRows on what exportToBuffer wrote).
LEMMA BareParsed ==
  ASSUME NEW was \in SettingStates, NEW s, s = BareSheet(was),
         NEW parsed, parsed = Import!ParseToRows(s, Import!Schema)
  PROVE  /\ DOMAIN parsed.valid = 1 .. NamesListed /\ Len(parsed.valid) = NamesListed
         /\ \A k \in 1 .. NamesListed :
              /\ parsed.valid[k].cells["key"] = Import!Cell("name", Import!Listed[k])
              /\ parsed.valid[k].cells["value"] = Import!Printed(was[Import!Listed[k]])
<1>1. PICK n \in Nat : n = NamesListed
  BY ListedIs
<1>2. PICK D, F : /\ D = Import!DataRows(s)
                  /\ F = {i \in D : Import!RowFaulty(s, i, Import!Schema)}
  OBVIOUS
<1>3. D = 2 .. n + 1
  BY <1>1, <1>2, BareColumns DEF Import!DataRows
<1>4. ASSUME NEW i \in D
      PROVE  Import!ReadCell(s, i, "key") = s[i][1] /\ Import!ReadCell(s, i, "value") = s[i][2]
  <2>1. DOMAIN s[i] = 1 .. 3
    BY <1>1, <1>3, BareRows
  <2>2. \A m \in Nat : Import!Min({m}) = m
    BY DEF Import!Min
  <2>3. Import!Columns(s, "key") = {1} /\ Import!Columns(s, "value") = {2}
    BY BareColumns
  <2>4. Import!ReadCell(s, i, "key") = Import!CellAt(s[i], 1)
    BY <2>2, <2>3 DEF Import!ReadCell
  <2>5. Import!ReadCell(s, i, "value") = Import!CellAt(s[i], 2)
    BY <2>2, <2>3 DEF Import!ReadCell
  <2> QED
    BY <2>1, <2>4, <2>5 DEF Import!CellAt
<1>5. F = {}
  <2> SUFFICES ASSUME NEW i \in D PROVE ~Import!RowFaulty(s, i, Import!Schema)
    BY <1>2
  <2>1. ~Import!IsBlank(s[i][1]) /\ ~Import!IsBlank(s[i][2])
    BY <1>1, <1>3, BareFilled
  <2> QED
    BY <1>4, <2>1 DEF Import!RowFaulty, Import!Schema
<1>6. D \ F = D /\ D \in SUBSET Nat /\ IsFiniteSet(D) /\ Cardinality(D) = n
  BY <1>3, <1>5, FS_Interval
<1>7. ASSUME NEW k \in 1 .. n PROVE Import!Kth(D, k) = k + 1
  <2>1. k + 1 \in D
    BY <1>3
  <2>2. {j \in D : j <= k + 1} = 2 .. k + 1
    BY <1>3
  <2>3. Cardinality(2 .. k + 1) = k
    BY FS_Interval
  <2>4. Rank(D, k + 1) = k
    BY <2>2, <2>3 DEF Rank
  <2>5. Import!Kth(D, Rank(D, k + 1)) = k + 1
    BY <1>6, <2>1, KthIs
  <2> QED
    BY <2>4, <2>5
<1>8. s \in Sheets
  BY ExportTyped
<1>9. /\ DOMAIN parsed.valid = 1 .. n
      /\ parsed.valid = [k \in DOMAIN parsed.valid |-> parsed.valid[k]]
      /\ \A k \in 1 .. n :
           parsed.valid[k].cells =
             [key \in Import!Schema |-> Import!ReadCell(s, Import!Kth(D \ F, k), key)]
  <2>1. ParsedAs(parsed, s, D, F)
    BY <1>2, <1>8, ParseIs, Zenon
  <2> QED
    BY <1>6, <2>1 DEF ParsedAs
<1>10. Len(parsed.valid) = n
  <2>1. PICK v : v = parsed.valid
    OBVIOUS
  <2>2. v = [k \in DOMAIN v |-> v[k]] /\ DOMAIN v = 1 .. n
    BY <1>9, <2>1
  <2>3. v = [k \in 1 .. n |-> v[k]]
    BY <2>2
  <2> QED
    BY <2>1, <2>3
<1>11. ASSUME NEW k \in 1 .. n
       PROVE  /\ parsed.valid[k].cells["key"] = Import!Cell("name", Import!Listed[k])
              /\ parsed.valid[k].cells["value"] = Import!Printed(was[Import!Listed[k]])
  <2>1. k + 1 \in D /\ k + 1 # 1 /\ (k + 1) - 1 = k /\ k + 1 \in 1 .. n + 1
    BY <1>3
  <2>2. /\ parsed.valid[k].cells["key"] = s[k + 1][1]
        /\ parsed.valid[k].cells["value"] = s[k + 1][2]
    <3>1. Import!Kth(D \ F, k) = k + 1
      BY <1>6, <1>7
    <3>2. parsed.valid[k].cells =
            [key \in Import!Schema |-> Import!ReadCell(s, Import!Kth(D \ F, k), key)]
      BY <1>9
    <3>3. /\ parsed.valid[k].cells["key"] = Import!ReadCell(s, k + 1, "key")
          /\ parsed.valid[k].cells["value"] = Import!ReadCell(s, k + 1, "value")
      BY <3>1, <3>2 DEF Import!Schema
    <3> QED
      BY <1>4, <2>1, <3>3
  <2>3. /\ s[k + 1][1] = Import!Cell("name", Import!Listed[(k + 1) - 1])
        /\ s[k + 1][2] = Import!Printed(was[Import!Listed[(k + 1) - 1]])
    BY <1>1, <2>1, BareRows
  <2> QED
    BY <2>1, <2>2, <2>3
<1> QED
  BY <1>1, <1>9, <1>10, <1>11

RequestOf(q) == UploadOf(q) \/ RefusedOf(q) \/ CommitOf(q)

\* What a draft and a request are stays true while nothing more is logged.
LEMMA StillOf ==
  ASSUME uploaded \in Nat, uploaded' \in Nat, uploaded <= uploaded', trail' = trail, NEW x
  PROVE  /\ DraftOf(x) => DraftOf(x)'
         /\ Announced(x) => Announced(x)'
         /\ RequestOf(x) => RequestOf(x)'
<1>1. DraftOf(x) => DraftOf(x)'
  BY DEF DraftOf
<1>2. Announced(x) => Announced(x)'
  BY DEF Announced
<1>3. UploadOf(x) => UploadOf(x)'
  BY DEF UploadOf
<1>4. RefusedOf(x) => RefusedOf(x)'
  BY DEF RefusedOf
<1>5. DraftOf(x.body) => DraftOf(x.body)'
  BY DEF DraftOf
<1>6. Announced(x.body) => Announced(x.body)'
  BY DEF Announced
<1>7. CommitOf(x) => CommitOf(x)'
  BY <1>5, <1>6 DEF CommitOf
<1> QED
  BY <1>1, <1>2, <1>3, <1>4, <1>7 DEF RequestOf

\* What a step that logs nothing has to keep.
LEMMA TypedStep ==
  ASSUME ImportInv, settings' \in SettingStates, HandTyped', trail' = trail,
         uploaded' \in Nat, uploaded <= uploaded', trouble' \in BOOLEAN,
         (modal \in [open : BOOLEAN, busy : {"no", "uploading", "committing"},
                     draft : 0 .. uploaded])',
         \A d \in previews' : d \in previews \/ (DraftOf(d) /\ Announced(d))',
         \A d, e \in previews' : d.id = e.id => d = e,
         \A q \in sent' : q \in sent \/ RequestOf(q)'
  PROVE  ImportTyped' /\ Import!SecondImportIsAnnounced'
<1>1. \A d \in previews' : (DraftOf(d) /\ Announced(d))'
  BY StillOf DEF ImportInv, ImportTyped
<1>2. \A q \in sent' : RequestOf(q)'
  BY StillOf DEF ImportInv, ImportTyped, RequestOf
<1>3. (trail \in Seq({trail[i] : i \in DOMAIN trail}))'
  BY DEF ImportInv, ImportTyped
<1>4. ImportTyped'
  BY <1>1, <1>2, <1>3 DEF ImportTyped, RequestOf
<1>5. Import!SecondImportIsAnnounced'
  BY DEF ImportInv, Import!SecondImportIsAnnounced, Import!PlaceAtUpload
<1> QED
  BY <1>4, <1>5

\* What happens beside the modal leaves what it knows.
LEMMA BesideStep ==
  ASSUME ImportInv, settings' \in SettingStates, HandTyped',
         UNCHANGED <<previews, trail, modal, sent, trouble, uploaded>>
  PROVE  ImportInv'
<1>1. ImportTyped' /\ Import!SecondImportIsAnnounced'
  <2>1. /\ uploaded' \in Nat /\ uploaded <= uploaded' /\ trouble' \in BOOLEAN
        /\ (modal \in [open : BOOLEAN, busy : {"no", "uploading", "committing"},
                       draft : 0 .. uploaded])'
        /\ \A d, e \in previews' : d.id = e.id => d = e
    BY DEF ImportInv, ImportTyped
  <2> QED
    BY <2>1, TypedStep
<1>2. ~trouble' => Untroubled'
  BY DEF ImportInv, Untroubled, UploadsApart, OneCommitEach, ModalKnows, Uploading, Committing,
         Import!Closed
<1> QED
  BY <1>1, <1>2 DEF ImportInv

-----------------------------------------------------------------------------
(* The sheet in hand. *)

\* A row or a cell put in or taken out.
LEMMA Inserted ==
  ASSUME NEW T, NEW s \in Seq(T), NEW i \in 1 .. Len(s) + 1, NEW e \in T
  PROVE  Import!InsertAt(s, i, e) \in Seq(T)
<1>1. SubSeq(s, 1, i - 1) \in Seq(T)
  BY SubSeqProperties
<1>2. SubSeq(s, i, Len(s)) \in Seq(T)
  BY SubSeqProperties
<1>3. <<e>> \in Seq(T)
  OBVIOUS
<1>4. SubSeq(s, 1, i - 1) \o <<e>> \in Seq(T)
  BY <1>1, <1>3, ConcatProperties
<1> QED
  BY <1>2, <1>4, ConcatProperties DEF Import!InsertAt

\* Elements of a set one after the other are a sequence of them.
LEMMA SequenceOf ==
  ASSUME NEW T, NEW n \in Nat, NEW f, f = [i \in 1 .. n |-> f[i]], \A i \in 1 .. n : f[i] \in T
  PROVE  f \in Seq(T)
  OBVIOUS

\* A sequence with one element replaced is one of the same elements.
LEMMA Overwritten ==
  ASSUME NEW T, NEW s \in Seq(T), NEW i, NEW e \in T
  PROVE  [s EXCEPT ![i] = e] \in Seq(T)
<1>1. PICK n \in Nat : n = Len(s) /\ DOMAIN s = 1 .. n
  OBVIOUS
<1>2. PICK f : f = [s EXCEPT ![i] = e]
  OBVIOUS
<1>3. f = [j \in 1 .. n |-> f[j]] /\ \A j \in 1 .. n : f[j] = IF j = i THEN e ELSE s[j]
  BY <1>1, <1>2
<1>4. \A j \in 1 .. n : f[j] \in T
  BY <1>1, <1>3
<1> QED
  BY <1>2, <1>3, <1>4, SequenceOf

\* So is one with an element removed.
LEMMA Removed ==
  ASSUME NEW T, NEW s \in Seq(T), NEW i \in 1 .. Len(s)
  PROVE  Import!RemoveAt(s, i) \in Seq(T)
<1>1. SubSeq(s, 1, i - 1) \in Seq(T) /\ SubSeq(s, i + 1, Len(s)) \in Seq(T)
  BY SubSeqProperties
<1> QED
  BY <1>1, ConcatProperties DEF Import!RemoveAt

\* An edit leaves a sheet of cells; an export that only lost its heading is one
\* still.
LEMMA EditTyped ==
  ASSUME HandTyped, NEW lines \in Sheets, NEW cost \in {0, 1}, Import!Edit(lines, cost),
         cost = 0 /\ hand.from = "export" => lines = BareSheet(hand.was)
  PROVE  HandTyped' /\ UNCHANGED <<settings, previews, trail, modal, sent, trouble, uploaded>>
<1>1. /\ hand.from # "nothing" /\ hand.edits + cost <= MaxEdits
      /\ hand' = [hand EXCEPT !.rows = lines, !.edits = @ + cost,
                              !.from = IF cost = 0 THEN @ ELSE "edited"]
      /\ UNCHANGED <<settings, previews, trail, modal, sent, trouble, uploaded>>
  BY DEF Import!Edit
<1>2. /\ hand \in [from : Origins, rows : Sheets, edits : 0 .. MaxEdits, was : {hand.was}]
      /\ hand.from = "export" => hand.was \in SettingStates
  BY DEF HandTyped
<1>3. MaxEdits \in Nat
  BY PagesAssumption DEF PagesAssumption, Import!ImportsAssumption
<1>4. PICK h : h = [hand EXCEPT !.rows = lines, !.edits = @ + cost,
                                !.from = IF cost = 0 THEN @ ELSE "edited"]
  OBVIOUS
<1>5. /\ h \in [from : Origins, rows : Sheets, edits : 0 .. MaxEdits, was : {h.was}]
      /\ h.was = hand.was /\ h.rows = lines
      /\ h.from = IF cost = 0 THEN hand.from ELSE "edited"
  <2>1. PICK f, e : f = (IF cost = 0 THEN hand.from ELSE "edited") /\ e = hand.edits + cost
    OBVIOUS
  <2>2. f \in Origins
    BY <1>2, <2>1 DEF Origins
  <2>3. e \in 0 .. MaxEdits
    BY <1>1, <1>2, <1>3, <2>1
  <2>4. h = [hand EXCEPT !.rows = lines, !.edits = e, !.from = f]
    BY <1>4, <2>1
  <2>5. h.was = hand.was /\ h.rows = lines /\ h.from = f
    BY <1>2, <2>4
  <2>6. h \in [from : Origins, rows : Sheets, edits : 0 .. MaxEdits, was : {hand.was}]
    BY <1>2, <2>2, <2>3, <2>4
  <2> QED
    BY <2>1, <2>5, <2>6
<1>6. h.from = "export" => h.was \in SettingStates /\ h.rows \in {FullSheet(h.was), BareSheet(h.was)}
  BY <1>2, <1>5
<1>7. hand' = h
  BY <1>1, <1>4
<1> QED
  BY <1>1, <1>5, <1>6, <1>7 DEF HandTyped

\* The first line of two parts, one of them with its note.
LEMMA TemplateTyped ==
  ASSUME settings \in SettingStates
  PROVE  Import!TemplateSheet \in Sheets
<1>1. PICK k : k = Import!Listed[1] /\ k \in DOMAIN Kind
  BY ListedIs
<1>2. PICK row : row = Import!SettingRow(k)
  OBVIOUS
<1>3. PICK cols : cols = SubSeq(Import!SettingsColumns, 1, 2)
  OBVIOUS
<1>4. DOMAIN cols = 1 .. 2 /\ cols[1] = Import!SettingsColumns[1] /\ cols[2] = Import!SettingsColumns[2]
  <2>1. PICK c1, c2, c3 : Import!SettingsColumns = <<c1, c2, c3>>
    BY DEF Import!SettingsColumns
  <2>2. PICK s, S : s = <<c1, c2, c3>> /\ S = {c1, c2, c3}
    OBVIOUS
  <2>3. s \in Seq(S) /\ Len(s) = 3 /\ s = Import!SettingsColumns
    BY <2>1, <2>2
  <2>4. /\ SubSeq(s, 1, 2) \in Seq(S) /\ Len(SubSeq(s, 1, 2)) = 2
        /\ \A i \in 1 .. 2 : SubSeq(s, 1, 2)[i] = s[1 + i - 1]
    BY <2>3, SubSeqProperties
  <2>5. cols \in Seq(S) /\ Len(cols) = 2 /\ cols[1] = s[1] /\ cols[2] = s[2]
    BY <1>3, <2>3, <2>4
  <2> QED
    BY <2>3, <2>5
<1>5. [c \in DOMAIN cols |-> Import!Note] \in Seq(SheetCells)
  BY <1>4, OtherCells
<1>6. Import!Heading(cols, TRUE, FALSE) \in Sheets
  <2>1. [i \in 1 .. 2 |-> [c \in DOMAIN cols |-> Import!Note]] \in Seq(Seq(SheetCells))
    BY <1>5
  <2>2. << <<>> >> \in Seq(Seq(SheetCells))
    OBVIOUS
  <2> QED
    BY <2>1, <2>2, ConcatProperties DEF Import!Heading, Sheets
<1>7. Import!Header(cols) \in Seq(SheetCells)
  <2>1. cols[1].label = "key" /\ cols[2].label = "value"
    BY <1>4, ColumnsAre
  <2>2. \A c \in 1 .. 2 : Import!Label(cols[c].label) \in SheetCells
    BY <2>1, OtherCells
  <2> QED
    BY <1>4, <2>2 DEF Import!Header
<1>8. PICK cells : cells = [r \in DOMAIN <<row>> |->
                              [c \in DOMAIN cols |->
                                 Import!Formatted(cols[c], <<row>>[r][cols[c].key], FALSE)]]
  OBVIOUS
<1>9. cells \in Sheets
  <2>1. cols[1].key = "key" /\ cols[2].key = "value"
    BY <1>4, ColumnsAre
  <2>2. settings[k] \in [type : Import!Types, of : {"0", "1"}]
    BY <1>1 DEF SettingStates
  <2>3. /\ Import!Formatted(Import!SettingsColumns[1], row["key"], FALSE) \in SheetCells
        /\ Import!Formatted(Import!SettingsColumns[2], row["value"], FALSE) \in SheetCells
    <3>1. /\ Import!Formatted(Import!SettingsColumns[1], row["key"], FALSE) = Import!Cell("name", k)
          /\ Import!Formatted(Import!SettingsColumns[2], row["value"], FALSE)
               = Import!Printed(settings[k])
      BY <1>1, <1>2, FormattedRow
    <3>2. Import!Cell("name", k) \in SheetCells
      BY <1>1, OtherCells
    <3>3. Import!Printed(settings[k]) \in SheetCells
      BY <2>2, PrintedIs
    <3> QED
      BY <3>1, <3>2, <3>3
  <2>5. PICK t : t = <<row>>
    OBVIOUS
  <2>6. DOMAIN t = 1 .. 1 /\ t[1] = row
    BY <2>5
  <2> DEFINE F(c) == Import!Formatted(cols[c], t[1][cols[c].key], FALSE)
  <2>4. F(1) \in SheetCells /\ F(2) \in SheetCells
    BY <1>4, <2>1, <2>3, <2>6
  <2>7. cells = [r \in DOMAIN t |->
                   [c \in DOMAIN cols |-> Import!Formatted(cols[c], t[r][cols[c].key], FALSE)]]
    BY <1>8, <2>5
  <2>8. DOMAIN cells = 1 .. 1 /\ cells[1] = [c \in DOMAIN cols |-> F(c)]
    <3> DEFINE G(r) == [c \in DOMAIN cols |-> Import!Formatted(cols[c], t[r][cols[c].key], FALSE)]
    <3>1. cells = [r \in DOMAIN t |-> G(r)]
      BY <2>7
    <3>2. G(1) = [c \in DOMAIN cols |-> F(c)]
      OBVIOUS
    <3> HIDE DEF G, F
    <3> QED
      BY <2>6, <3>1, <3>2
  <2> HIDE DEF F
  <2>9. cells[1] \in Seq(SheetCells)
    BY <1>4, <2>4, <2>8
  <2>10. cells = [r \in 1 .. 1 |-> cells[r]]
    BY <2>7, <2>8
  <2> QED
    BY <2>9, <2>10 DEF Sheets
<1>10. Import!TemplateSheet = Import!Heading(cols, TRUE, FALSE) \o <<Import!Header(cols)>> \o cells
  BY <1>1, <1>2, <1>3, <1>8 DEF Import!TemplateSheet, Import!ExportToBuffer
<1>11. <<Import!Header(cols)>> \in Sheets
  BY <1>7 DEF Sheets
<1> QED
  BY <1>6, <1>9, <1>10, <1>11, ConcatProperties DEF Sheets

\* What is done to the sheet in hand.
LEMMA HandStep ==
  ASSUME ImportInv,
         \/ Import!Download("export", Import!SettingsSheet)
         \/ Import!Download("template", Import!TemplateSheet)
         \/ Import!DeleteHeading \/ Import!InsertColumn
         \/ \E k \in DOMAIN Kind : \E v \in Import!ValuesOf(Kind[k]) : Import!FillTemplate(k, v)
         \/ \E i \in DOMAIN hand.rows :
              \/ Import!InsertBlankRow(i) \/ Import!DeleteRow(i)
              \/ \E c \in DOMAIN hand.rows[i] : Import!ClearCell(i, c)
  PROVE  ImportInv'
<1>1. /\ settings \in SettingStates /\ HandTyped /\ hand.rows \in Seq(Seq(SheetCells))
      /\ DOMAIN hand.rows = 1 .. Len(hand.rows) /\ Len(hand.rows) \in Nat
  BY DEF ImportInv, ImportTyped, HandTyped, Sheets
<1>2. SUFFICES HandTyped' /\ UNCHANGED <<settings, previews, trail, modal, sent, trouble, uploaded>>
  BY <1>1, BesideStep
<1>3. MaxEdits \in Nat
  BY PagesAssumption DEF PagesAssumption, Import!ImportsAssumption
<1>4. CASE Import!Download("export", Import!SettingsSheet)
  <2>1. /\ hand' = [from |-> "export", rows |-> FullSheet(settings), edits |-> 0, was |-> settings]
        /\ UNCHANGED <<settings, previews, trail, modal, sent, trouble, uploaded>>
    BY <1>1, <1>4, ExportIs DEF Import!Download
  <2>2. FullSheet(settings) \in Sheets
    BY <1>1, ExportTyped
  <2>3. PICK h : h = [from |-> "export", rows |-> FullSheet(settings), edits |-> 0, was |-> settings]
    OBVIOUS
  <2>4. /\ h \in [from : Origins, rows : Sheets, edits : 0 .. MaxEdits, was : {h.was}]
        /\ h.was \in SettingStates /\ h.rows = FullSheet(h.was)
    BY <1>1, <1>3, <2>2, <2>3 DEF Origins
  <2>5. hand' = h
    BY <2>1, <2>3
  <2> QED
    BY <2>1, <2>4, <2>5 DEF HandTyped
<1>5. CASE Import!Download("template", Import!TemplateSheet)
  <2>1. PICK h : h = [from |-> "template", rows |-> Import!TemplateSheet, edits |-> 0, was |-> settings]
    OBVIOUS
  <2>2. h \in [from : Origins, rows : Sheets, edits : 0 .. MaxEdits, was : {h.was}]
    BY <1>1, <1>3, <2>1, TemplateTyped DEF Origins
  <2>3. hand' = h /\ h.from # "export"
        /\ UNCHANGED <<settings, previews, trail, modal, sent, trouble, uploaded>>
    BY <1>5, <2>1 DEF Import!Download
  <2> QED
    BY <2>2, <2>3 DEF HandTyped
<1>6. CASE Import!DeleteHeading
  <2>1. /\ hand.from = "export" /\ hand.rows[1] = hand.rows[2]
        /\ Import!Edit(SubSeq(hand.rows, 4, Len(hand.rows)), 0)
    BY <1>6 DEF Import!DeleteHeading
  <2>2. hand.was \in SettingStates /\ hand.rows = FullSheet(hand.was)
    BY <1>1, <2>1, HeadingDeleted DEF HandTyped
  <2>3. SubSeq(hand.rows, 4, Len(hand.rows)) = BareSheet(hand.was) /\ BareSheet(hand.was) \in Sheets
    BY <2>2, HeadingDeleted, ExportTyped
  <2> QED
    BY <1>1, <2>1, <2>3, EditTyped
<1>7. CASE Import!InsertColumn
  <2>1. PICK lines : lines = [i \in DOMAIN hand.rows |->
                              IF hand.rows[i] = <<>> THEN <<>>
                              ELSE Import!InsertAt(hand.rows[i], 2, Import!Blank)]
    OBVIOUS
  <2>2. ASSUME NEW i \in DOMAIN hand.rows PROVE lines[i] \in Seq(SheetCells)
    <3>1. PICK r : r = hand.rows[i] /\ r \in Seq(SheetCells)
      BY <1>1
    <3>2. CASE r = <<>>
      BY <2>1, <3>1, <3>2
    <3>3. CASE r # <<>>
      <4>1. Len(r) \in Nat /\ Len(r) # 0
        BY <3>1, <3>3, EmptySeq
      <4>2. 2 \in 1 .. Len(r) + 1
        BY <4>1
      <4>3. Import!InsertAt(r, 2, Import!Blank) \in Seq(SheetCells)
        BY <3>1, <4>2, Inserted, OtherCells
      <4> QED
        BY <2>1, <3>1, <3>3, <4>3
    <3> QED
      BY <3>2, <3>3
  <2>3. lines \in Sheets
    <3>1. lines = [i \in 1 .. Len(hand.rows) |-> lines[i]]
      BY <1>1, <2>1
    <3>2. \A i \in 1 .. Len(hand.rows) : lines[i] \in Seq(SheetCells)
      BY <1>1, <2>2
    <3> QED
      BY <1>1, <3>1, <3>2, SequenceOf DEF Sheets
  <2>4. Import!Edit(lines, 1)
    BY <1>7, <2>1 DEF Import!InsertColumn
  <2> QED
    BY <1>1, <2>3, <2>4, EditTyped
<1>8. ASSUME NEW k \in DOMAIN Kind, NEW v \in Import!ValuesOf(Kind[k]), Import!FillTemplate(k, v)
      PROVE  HandTyped' /\ UNCHANGED <<settings, previews, trail, modal, sent, trouble, uploaded>>
  <2>1. v \in [type : Import!Types, of : {"0", "1"}]
    BY PagesAssumption DEF PagesAssumption, Import!ImportsAssumption, Import!SettingNames,
                           Import!ValuesOf, Import!Value
  <2>2. <<Import!Cell("name", k), Import!Printed(v)>> \in Seq(SheetCells)
    BY <2>1, PrintedIs, OtherCells
  <2>3. [hand.rows EXCEPT ![Len(hand.rows)] = <<Import!Cell("name", k), Import!Printed(v)>>] \in Sheets
    <3>1. PICK s, e : s = hand.rows /\ e = <<Import!Cell("name", k), Import!Printed(v)>>
      OBVIOUS
    <3>2. s \in Seq(Seq(SheetCells)) /\ e \in Seq(SheetCells)
      BY <1>1, <2>2, <3>1
    <3>3. [s EXCEPT ![Len(s)] = e] \in Seq(Seq(SheetCells))
      BY <3>2, Overwritten
    <3> QED
      BY <3>1, <3>3 DEF Sheets
  <2>4. hand.from = "template" /\
        Import!Edit([hand.rows EXCEPT ![Len(hand.rows)] = <<Import!Cell("name", k), Import!Printed(v)>>], 0)
    BY <1>8 DEF Import!FillTemplate
  <2> QED
    BY <1>1, <2>3, <2>4, EditTyped
<1>9. ASSUME NEW i \in DOMAIN hand.rows, Import!InsertBlankRow(i)
      PROVE  HandTyped' /\ UNCHANGED <<settings, previews, trail, modal, sent, trouble, uploaded>>
  <2>1. Import!InsertAt(hand.rows, i, <<>>) \in Sheets
    <3>1. i \in 1 .. Len(hand.rows) + 1 /\ <<>> \in Seq(SheetCells)
      BY <1>1, EmptySeq
    <3> QED
      BY <1>1, <3>1, Inserted DEF Sheets
  <2>2. Import!Edit(Import!InsertAt(hand.rows, i, <<>>), 1)
    BY <1>9 DEF Import!InsertBlankRow
  <2> QED
    BY <1>1, <2>1, <2>2, EditTyped
<1>10. ASSUME NEW i \in DOMAIN hand.rows, Import!DeleteRow(i)
       PROVE  HandTyped' /\ UNCHANGED <<settings, previews, trail, modal, sent, trouble, uploaded>>
  <2>1. Import!RemoveAt(hand.rows, i) \in Sheets
    BY <1>1, Removed DEF Sheets
  <2>2. Import!Edit(Import!RemoveAt(hand.rows, i), 1)
    BY <1>10 DEF Import!DeleteRow
  <2> QED
    BY <1>1, <2>1, <2>2, EditTyped
<1>11. ASSUME NEW i \in DOMAIN hand.rows, NEW c \in DOMAIN hand.rows[i], Import!ClearCell(i, c)
       PROVE  HandTyped' /\ UNCHANGED <<settings, previews, trail, modal, sent, trouble, uploaded>>
  <2>1. [hand.rows EXCEPT ![i][c] = Import!Blank] \in Sheets
    <3>1. PICK r : r = hand.rows[i] /\ r \in Seq(SheetCells)
      BY <1>1
    <3>2. [r EXCEPT ![c] = Import!Blank] \in Seq(SheetCells)
      BY <3>1, OtherCells
    <3>3. [hand.rows EXCEPT ![i] = [r EXCEPT ![c] = Import!Blank]] \in Seq(Seq(SheetCells))
      BY <1>1, <3>2
    <3> QED
      BY <3>1, <3>3 DEF Sheets
  <2>2. Import!Edit([hand.rows EXCEPT ![i][c] = Import!Blank], 1)
    BY <1>11 DEF Import!ClearCell
  <2> QED
    BY <1>1, <2>1, <2>2, EditTyped
<1> QED
  BY <1>4, <1>5, <1>6, <1>7, <1>8, <1>9, <1>10, <1>11

-----------------------------------------------------------------------------
(* The modal and its requests. *)

\* Every request is an upload or a commit.
LEMMA RequestsAre ==
  ASSUME ImportTyped, NEW q \in sent
  PROVE  /\ q.ask = "upload" => UploadOf(q)
         /\ q.ask = "commit" => RefusedOf(q) \/ CommitOf(q)
         /\ q.ask \in {"upload", "commit"}
  BY DEF ImportTyped, UploadOf, RefusedOf, CommitOf

\* Requests that come to a modal that was closed in between.
LEMMA BelatedIs ==
  ASSUME ImportTyped, NEW R \in SUBSET sent, NEW p \in Import!Belated(R)
  PROVE  \/ p \in R /\ p.ask = "commit"
         \/ /\ p.ask = "upload" /\ p.late /\ UploadOf(p)
            /\ \E u \in R : u.ask = "upload" /\ p = [u EXCEPT !.late = TRUE] /\ p.draft = u.draft
<1>1. PICK q \in R : p = IF q.ask = "upload" THEN [q EXCEPT !.late = TRUE] ELSE q
  BY DEF Import!Belated
<1>2. CASE q.ask = "upload"
  <2>1. q \in [ask : {"upload"}, draft : 0 .. uploaded, from : Origins, late : BOOLEAN]
    BY <1>2, RequestsAre DEF UploadOf
  <2>2. p = [q EXCEPT !.late = TRUE]
    BY <1>1, <1>2
  <2>3. /\ p \in [ask : {"upload"}, draft : 0 .. uploaded, from : Origins, late : BOOLEAN]
        /\ p.late = TRUE /\ p.draft = q.draft
    BY <2>1, <2>2
  <2> QED
    BY <1>2, <2>2, <2>3 DEF UploadOf
<1>3. CASE q.ask # "upload"
  BY <1>1, <1>3, RequestsAre
<1> QED
  BY <1>2, <1>3

\* A modal that is closed leaves what its uploads, its commits and the drafts know
\* of each other.
LEMMA ClosingKeeps ==
  ASSUME ImportTyped, NEW R \in SUBSET sent, sent' = Import!Belated(R), UNCHANGED previews,
         modal' = Import!Closed, Untroubled
  PROVE  Untroubled'
<1>1. /\ \A q \in Uploading' : q.late /\ \E u \in Uploading : q = [u EXCEPT !.late = TRUE] /\ q.draft = u.draft
      /\ \A q \in Committing' : q \in Committing
  <2>1. \A q \in sent' : \/ q \in R /\ q.ask = "commit"
                         \/ /\ q.ask = "upload" /\ q.late
                            /\ \E u \in R : u.ask = "upload" /\ q = [u EXCEPT !.late = TRUE]
                                            /\ q.draft = u.draft
    BY BelatedIs
  <2> QED
    BY <2>1 DEF Uploading, Committing
<1>2. modal'.draft = 0 /\ modal' = Import!Closed' /\ ~modal'.open
  BY DEF Import!Closed
<1>3. UploadsApart'
  <2>1. \A q \in Uploading' : q.draft # 0 => \E d \in previews : d.id = q.draft
    BY <1>1 DEF Untroubled, UploadsApart
  <2>2. \A q, r \in Uploading' : q.draft = r.draft /\ q.draft # 0 => q = r
    <3> SUFFICES ASSUME NEW q \in Uploading', NEW r \in Uploading', q.draft = r.draft, q.draft # 0
                 PROVE  q = r
      OBVIOUS
    <3>1. PICK u \in Uploading : q = [u EXCEPT !.late = TRUE] /\ q.draft = u.draft
      BY <1>1
    <3>2. PICK v \in Uploading : r = [v EXCEPT !.late = TRUE] /\ r.draft = v.draft
      BY <1>1
    <3>3. u = v
      BY <3>1, <3>2 DEF Untroubled, UploadsApart
    <3> QED
      BY <3>1, <3>2, <3>3
  <2>3. \A q \in Uploading' : \A r \in Committing' : q.draft # r.n
    BY <1>1 DEF Untroubled, UploadsApart
  <2> QED
    BY <1>1, <1>2, <2>1, <2>2, <2>3 DEF UploadsApart
<1>4. OneCommitEach(Committing')
  BY <1>1 DEF Untroubled, OneCommitEach
<1>5. ModalKnows'
  <2>1. \A q \in Committing' : q.n # 0
    BY <1>1, RequestsAre DEF Committing, RefusedOf, CommitOf
  <2> QED
    BY <1>2, <2>1 DEF ModalKnows
<1> QED
  BY <1>3, <1>4, <1>5 DEF Untroubled, OneCommitEach

\* The modal is opened, closed or emptied for another file.
LEMMA ModalStep ==
  ASSUME ImportInv, Import!Open \/ Import!Close \/ Import!Another
  PROVE  ImportInv'
<1>1. ImportTyped /\ (~trouble => Untroubled)
  BY DEF ImportInv
<1>2. /\ UNCHANGED <<settings, hand, previews, trail, trouble, day, changes, uploaded>>
      /\ sent' = sent \/ sent' = Import!Belated(sent)
      /\ modal' \in {[modal EXCEPT !.open = TRUE], Import!Closed, [modal EXCEPT !.draft = 0]}
  BY DEF Import!Open, Import!Close, Import!ClosedAgain, Import!Another
<1>3. modal' \in [open : BOOLEAN, busy : {"no", "uploading", "committing"}, draft : 0 .. uploaded]
  <2>1. PICK m : m = modal
    OBVIOUS
  <2>2. m \in [open : BOOLEAN, busy : {"no", "uploading", "committing"}, draft : 0 .. uploaded]
    BY <1>1, <2>1 DEF ImportTyped
  <2>3. 0 \in 0 .. uploaded
    BY <1>1 DEF ImportTyped
  <2>4. /\ [m EXCEPT !.open = TRUE] \in
             [open : BOOLEAN, busy : {"no", "uploading", "committing"}, draft : 0 .. uploaded]
        /\ [m EXCEPT !.draft = 0] \in
             [open : BOOLEAN, busy : {"no", "uploading", "committing"}, draft : 0 .. uploaded]
    BY <2>2, <2>3
  <2>5. Import!Closed \in
          [open : BOOLEAN, busy : {"no", "uploading", "committing"}, draft : 0 .. uploaded]
    BY <2>3 DEF Import!Closed
  <2> QED
    BY <1>2, <2>1, <2>4, <2>5
<1>4. \A q \in sent' : q \in sent \/ RequestOf(q)'
  <2>1. \A q \in Import!Belated(sent) : q \in sent \/ UploadOf(q)
    BY <1>1, BelatedIs
  <2>2. \A q : UploadOf(q) => UploadOf(q)'
    BY <1>2 DEF UploadOf
  <2> QED
    BY <1>2, <2>1, <2>2 DEF RequestOf
<1>5. ImportTyped' /\ Import!SecondImportIsAnnounced'
  <2>1. /\ settings' \in SettingStates /\ HandTyped' /\ uploaded' \in Nat /\ uploaded <= uploaded'
        /\ trouble' \in BOOLEAN /\ \A d, e \in previews' : d.id = e.id => d = e
    BY <1>1, <1>2 DEF ImportTyped, HandTyped
  <2> QED
    BY <1>2, <1>3, <1>4, <2>1, TypedStep
<1>6. ASSUME ~trouble PROVE Untroubled'
  <2>1. CASE Import!Open
    <3>1. modal = Import!Closed /\ modal' = [modal EXCEPT !.open = TRUE] /\ sent' = sent
      BY <1>1, <1>6, <2>1 DEF Untroubled, ModalKnows, Import!Open
    <3>2. modal'.draft = 0 /\ modal'.open /\ modal.draft = 0 /\ modal.busy = "no" /\ ~modal.open
      BY <3>1 DEF Import!Closed
    <3>3. Uploading' = Uploading /\ Committing' = Committing /\ previews' = previews
      BY <1>2, <3>1 DEF Uploading, Committing
    <3>4. UploadsApart'
      BY <1>1, <1>6, <3>2, <3>3 DEF Untroubled, UploadsApart
    <3>5. ModalKnows'
      BY <1>1, <1>6, <3>2, <3>3 DEF Untroubled, ModalKnows
    <3> QED
      BY <1>1, <1>6, <3>3, <3>4, <3>5 DEF Untroubled, OneCommitEach
  <2>2. CASE Import!Close
    <3>1. modal' = Import!Closed /\ sent' = Import!Belated(sent) /\ UNCHANGED previews
      BY <2>2 DEF Import!Close, Import!ClosedAgain
    <3> QED
      BY <1>1, <1>6, <3>1, ClosingKeeps
  <2>3. CASE Import!Another
    <3>1. modal.open /\ modal.busy = "no" /\ modal' = [modal EXCEPT !.draft = 0] /\ sent' = sent
      BY <2>3 DEF Import!Another
    <3>2. modal'.draft = 0 /\ modal'.open /\ modal'.busy = "no"
      BY <1>1, <3>1 DEF ImportTyped
    <3>3. Uploading' = Uploading /\ Committing' = Committing /\ previews' = previews
      BY <1>2, <3>1 DEF Uploading, Committing
    <3>4. UploadsApart'
      BY <1>1, <1>6, <3>1, <3>2, <3>3 DEF Untroubled, UploadsApart
    <3>5. \A q \in Committing : q.n # 0
      BY <1>1, RequestsAre DEF Committing, RefusedOf, CommitOf
    <3>6. ModalKnows'
      BY <1>1, <1>6, <3>2, <3>3, <3>5 DEF Untroubled, ModalKnows
    <3> QED
      BY <1>1, <1>6, <3>3, <3>4, <3>6 DEF Untroubled, OneCommitEach
  <2> QED
    BY <2>1, <2>2, <2>3
<1> QED
  BY <1>2, <1>5, <1>6 DEF ImportInv

\* An answer to an upload.
LEMMA UploadAnsweredStep ==
  ASSUME ImportInv, NEW q, Import!UploadAnswered(q)
  PROVE  ImportInv'
<1>1. ImportTyped /\ (~trouble => Untroubled)
  BY DEF ImportInv
<1>2. /\ q \in sent /\ q.ask = "upload" /\ sent' = sent \ {q}
      /\ modal' = [modal EXCEPT !.busy = "no", !.draft = IF q.draft = 0 THEN @ ELSE q.draft]
      /\ trouble' = (trouble \/ q.late)
      /\ UNCHANGED <<settings, hand, previews, trail, day, changes, uploaded>>
  BY DEF Import!UploadAnswered
<1>3. q \in [ask : {"upload"}, draft : 0 .. uploaded, from : Origins, late : BOOLEAN]
  BY <1>1, <1>2, RequestsAre DEF UploadOf
<1>4. modal \in [open : BOOLEAN, busy : {"no", "uploading", "committing"}, draft : 0 .. uploaded]
  BY <1>1 DEF ImportTyped
<1>5. /\ modal' \in [open : BOOLEAN, busy : {"no", "uploading", "committing"}, draft : 0 .. uploaded]
      /\ modal'.open = modal.open /\ modal'.busy = "no"
      /\ modal'.draft = IF q.draft = 0 THEN modal.draft ELSE q.draft
  BY <1>2, <1>3, <1>4
<1>6. ImportTyped' /\ Import!SecondImportIsAnnounced'
  <2>1. /\ settings' \in SettingStates /\ HandTyped' /\ uploaded' \in Nat /\ uploaded <= uploaded'
        /\ trouble' \in BOOLEAN /\ \A d, e \in previews' : d.id = e.id => d = e
    BY <1>1, <1>2, <1>3 DEF ImportTyped, HandTyped
  <2> QED
    BY <1>2, <1>5, <2>1, TypedStep
<1>7. ASSUME ~trouble' PROVE Untroubled'
  <2>1. Untroubled /\ ~q.late /\ q \in Uploading
    BY <1>1, <1>2, <1>7 DEF Uploading
  <2>2. modal.open /\ modal.busy = "uploading"
    BY <2>1 DEF Untroubled, UploadsApart
  <2>3. /\ \A r \in Uploading' : r \in Uploading /\ r # q
        /\ Committing' = Committing /\ previews' = previews
    BY <1>2 DEF Uploading, Committing
  <2>4. \A r \in Uploading' : r.late
    BY <2>1, <2>3 DEF Untroubled, UploadsApart
  <2>5. ASSUME NEW r \in Uploading', r.draft # 0
        PROVE  r.draft # modal'.draft /\ \E d \in previews : d.id = r.draft
    BY <1>5, <2>1, <2>3, <2>5 DEF Untroubled, UploadsApart
  <2>6. UploadsApart'
    <3>1. \A r, s \in Uploading' : r.draft = s.draft /\ r.draft # 0 => r = s
      BY <2>1, <2>3 DEF Untroubled, UploadsApart
    <3>2. \A r \in Uploading' : \A s \in Committing' : r.draft # s.n
      BY <2>1, <2>3 DEF Untroubled, UploadsApart
    <3> QED
      BY <2>3, <2>4, <2>5, <3>1, <3>2 DEF UploadsApart
  <2>7. \A r \in Committing : r.n # modal'.draft
    <3>1. \A r \in Committing : r.n # modal.draft
      BY <2>1, <2>2 DEF Untroubled, ModalKnows
    <3>2. \A r \in Committing : r.n # q.draft
      BY <2>1 DEF Untroubled, UploadsApart
    <3> QED
      BY <1>5, <3>1, <3>2
  <2>8. modal'.draft # 0 => \E d \in previews : d.id = modal'.draft
    <3>1. modal.draft # 0 => \E d \in previews : d.id = modal.draft
      BY <2>1, <2>2 DEF Untroubled, ModalKnows
    <3>2. q.draft # 0 => \E d \in previews : d.id = q.draft
      BY <2>1 DEF Untroubled, UploadsApart
    <3> QED
      BY <1>5, <3>1, <3>2
  <2>9. ModalKnows'
    BY <1>5, <2>2, <2>3, <2>7, <2>8 DEF ModalKnows
  <2> QED
    BY <2>1, <2>3, <2>6, <2>9 DEF Untroubled, OneCommitEach
<1> QED
  BY <1>6, <1>7 DEF ImportInv

\* A file is uploaded.
LEMMA UploadStep ==
  ASSUME ImportInv, Import!Upload
  PROVE  ImportInv'
<1>1. ImportTyped /\ (~trouble => Untroubled) /\ HandTyped /\ uploaded \in Nat
  BY DEF ImportInv, ImportTyped
<1>2. /\ modal.open /\ modal.busy = "no" /\ modal.draft = 0 /\ uploaded' = uploaded + 1
      /\ modal' = [modal EXCEPT !.busy = "uploading"]
      /\ UNCHANGED <<settings, hand, trail, trouble, day, changes>>
  BY DEF Import!Upload
<1>3. PICK sheet, refused :
        /\ sheet = hand.rows /\ refused = Import!Refused(hand.rows, Import!Schema) /\ refused \in BOOLEAN
  BY DEF Import!Refused
<1> DEFINE Draft(looked) ==
             [id |-> uploaded + 1, sheet |-> sheet, from |-> hand.from, was |-> hand.was,
              parsed |-> Import!ParseToRows(sheet, Import!Schema), looked |-> looked,
              warned |-> looked /\ Import!ImportedRecently(sheet), day |-> day, seen |-> Len(trail)]
<1>4. PICK d, looked :
        /\ d = Draft(looked)
        /\ previews' = IF refused THEN previews ELSE previews \cup {d}
  <2>1. CASE refused
    BY <1>3, <2>1 DEF Import!Upload
  <2>2. CASE ~refused
    <3>1. \E looked \in BOOLEAN : previews' = previews \cup {Draft(looked)}
      BY <1>3, <2>2 DEF Import!Upload
    <3> HIDE DEF Draft
    <3> QED
      BY <2>2, <3>1
  <2> QED
    BY <2>1, <2>2
<1>5. PICK u : u = [ask |-> "upload", draft |-> IF refused THEN 0 ELSE uploaded + 1,
                    from |-> hand.from, late |-> FALSE]
  OBVIOUS
<1>6. /\ sent' = sent \cup {u}
      /\ previews' = IF refused THEN previews ELSE previews \cup {d}
  BY <1>3, <1>4, <1>5 DEF Import!Upload
<1>7. hand.from \in Origins /\ sheet \in Sheets
      /\ (hand.from = "export" => hand.was \in SettingStates /\ sheet \in {FullSheet(hand.was), BareSheet(hand.was)})
  BY <1>1, <1>3 DEF HandTyped
<1>8. /\ d.id = uploaded + 1 /\ d.sheet = sheet /\ d.from = hand.from /\ d.was = hand.was
      /\ d.parsed = Import!ParseToRows(sheet, Import!Schema)
      /\ d.looked = looked /\ d.warned = (looked /\ Import!ImportedRecently(sheet))
      /\ d.day = day /\ d.seen = Len(trail)
  BY <1>4
<1> HIDE DEF Draft
<1>9. /\ u.ask = "upload" /\ u.draft = (IF refused THEN 0 ELSE uploaded + 1) /\ u.late = FALSE
      /\ u \in [ask : {"upload"}, draft : 0 .. uploaded', from : Origins, late : BOOLEAN]
  BY <1>1, <1>2, <1>3, <1>5, <1>7
<1>10. Len(trail) \in Nat /\ DOMAIN trail = 1 .. Len(trail)
  <2>1. PICK T : trail \in Seq(T)
    BY <1>1 DEF ImportTyped
  <2> QED
    BY <2>1
<1>11. ASSUME ~refused PROVE (DraftOf(d) /\ Announced(d))'
  <2>1. hand.from = "export" => sheet = BareSheet(hand.was)
    BY <1>3, <1>7, <1>11, FullRefused
  <2>2. DraftOf(d)'
    BY <1>1, <1>2, <1>3, <1>7, <1>8, <1>10, <1>11, <2>1 DEF DraftOf
  <2>3. Announced(d)
    <3>1. LookBack \in Nat
      BY PagesAssumption DEF PagesAssumption, Import!ImportsAssumption
    <3>2. ASSUME NEW j \in 1 .. Len(trail), d.seen - (Len(trail) - j) \in 1 .. LookBack,
                 trail[j].sheet = d.sheet, trail[j].day = d.day, d.looked
          PROVE  d.warned
      <4>1. j \in DOMAIN trail /\ j <= LookBack
        BY <1>8, <1>10, <3>1, <3>2
      <4>2. Import!ImportedRecently(sheet)
        BY <1>8, <3>2, <4>1 DEF Import!ImportedRecently
      <4> QED
        BY <1>8, <3>2, <4>2
    <3> QED
      BY <1>8, <1>10, <3>2 DEF Announced
  <2> QED
    BY <1>2, <2>2, <2>3 DEF Announced
<1>12. /\ \A e \in previews : e.id \in 1 .. uploaded
       /\ \A e, f \in previews : e.id = f.id => e = f
  BY <1>1 DEF ImportTyped, DraftOf
<1>13. \A e, f \in previews' : e.id = f.id => e = f
  BY <1>1, <1>6, <1>8, <1>12
<1>14. /\ modal' \in [open : BOOLEAN, busy : {"no", "uploading", "committing"}, draft : 0 .. uploaded']
       /\ modal'.open /\ modal'.busy = "uploading" /\ modal'.draft = 0
  BY <1>1, <1>2 DEF ImportTyped
<1>15. ImportTyped' /\ Import!SecondImportIsAnnounced'
  <2>1. settings' \in SettingStates /\ HandTyped' /\ trouble' \in BOOLEAN
    BY <1>1, <1>2 DEF ImportTyped, HandTyped
  <2>2. \A q \in sent' : q \in sent \/ RequestOf(q)'
    BY <1>6, <1>9 DEF RequestOf, UploadOf
  <2>3. \A e \in previews' : e \in previews \/ (DraftOf(e) /\ Announced(e))'
    BY <1>3, <1>6, <1>11
  <2> QED
    BY <1>1, <1>2, <1>13, <1>14, <2>1, <2>2, <2>3, TypedStep
<1>16. ASSUME ~trouble PROVE Untroubled'
  <2>1. Untroubled
    BY <1>1, <1>16
  <2>2. Uploading' = Uploading \cup {u} /\ Committing' = Committing /\ previews \subseteq previews'
    BY <1>6, <1>9 DEF Uploading, Committing
  <2>3. \A q \in Uploading : q.late
    BY <1>2, <2>1 DEF Untroubled, UploadsApart
  <2>4. \A q \in Uploading : q.draft \in 0 .. uploaded
    BY <1>1, RequestsAre DEF Uploading, UploadOf
  <2>5. \A q \in Committing : q.n \in 1 .. uploaded
    BY <1>1, RequestsAre DEF Committing, RefusedOf, CommitOf
  <2>6. \A q \in Uploading' : ~q.late => modal'.open /\ modal'.busy = "uploading"
    BY <1>14
  <2>7. \A q, r \in Uploading' : ~q.late /\ ~r.late => q = r
    BY <2>2, <2>3
  <2>8. \A q \in Uploading' : q.draft # 0 => q.draft # modal'.draft /\ \E e \in previews' : e.id = q.draft
    <3>1. \A q \in Uploading : q.draft # 0 => \E e \in previews' : e.id = q.draft
      BY <2>1, <2>2 DEF Untroubled, UploadsApart
    <3>2. u.draft # 0 => \E e \in previews' : e.id = u.draft
      BY <1>6, <1>8, <1>9
    <3> QED
      BY <1>14, <2>2, <3>1, <3>2
  <2>9. \A q, r \in Uploading' : q.draft = r.draft /\ q.draft # 0 => q = r
    <3>1. \A q, r \in Uploading : q.draft = r.draft /\ q.draft # 0 => q = r
      BY <2>1 DEF Untroubled, UploadsApart
    <3> QED
      BY <1>1, <1>9, <2>2, <2>4, <3>1
  <2>10. \A q \in Uploading' : \A r \in Committing' : q.draft # r.n
    <3>1. \A q \in Uploading : \A r \in Committing : q.draft # r.n
      BY <2>1 DEF Untroubled, UploadsApart
    <3> QED
      BY <1>1, <1>9, <2>2, <2>5, <3>1
  <2>11. UploadsApart'
    BY <2>6, <2>7, <2>8, <2>9, <2>10 DEF UploadsApart
  <2>12. ModalKnows'
    BY <1>1, <1>14, <2>2, <2>5 DEF ModalKnows
  <2> QED
    BY <2>1, <2>2, <2>11, <2>12 DEF Untroubled, OneCommitEach
<1> QED
  BY <1>2, <1>15, <1>16 DEF ImportInv

\* What the rows of a draft are.
LEMMA ValidRows ==
  ASSUME NEW d, DraftOf(d)
  PROVE  /\ Len(d.parsed.valid) \in Nat /\ DOMAIN d.parsed.valid = 1 .. Len(d.parsed.valid)
         /\ \A k \in 1 .. Len(d.parsed.valid) : d.parsed.valid[k].cells["value"] \in SheetCells
<1>1. PICK s, p : s = d.sheet /\ p = d.parsed
  OBVIOUS
<1>2. s \in Sheets /\ p = Import!ParseToRows(s, Import!Schema)
  BY <1>1 DEF DraftOf
<1>3. PICK D, F : /\ D = Import!DataRows(s)
                  /\ F = {i \in D : Import!RowFaulty(s, i, Import!Schema)}
  OBVIOUS
<1>4. D \in SUBSET Nat /\ IsFiniteSet(D)
  BY <1>2, <1>3, DataRowsFinite
<1>5. D \ F \in SUBSET Nat /\ IsFiniteSet(D \ F)
  BY <1>4, FS_Subset
<1>6. PICK m \in Nat : m = Cardinality(D \ F)
  BY <1>5, FS_CardinalityType
<1>7. /\ DOMAIN p.valid = 1 .. m /\ p.valid = [k \in DOMAIN p.valid |-> p.valid[k]]
      /\ \A k \in 1 .. m : p.valid[k].cells =
           [key \in Import!Schema |-> Import!ReadCell(s, Import!Kth(D \ F, k), key)]
  <2>1. ParsedAs(p, s, D, F)
    BY <1>2, <1>3, ParseIs, Zenon
  <2> QED
    BY <1>6, <2>1 DEF ParsedAs
<1>8. PICK v : v = p.valid
  OBVIOUS
<1>9. Len(p.valid) = m
  <2>1. v = [k \in DOMAIN v |-> v[k]] /\ DOMAIN v = 1 .. m
    BY <1>7, <1>8
  <2>2. v = [k \in 1 .. m |-> v[k]]
    BY <2>1
  <2> QED
    BY <1>8, <2>2
<1>10. ASSUME NEW k \in 1 .. m PROVE p.valid[k].cells["value"] \in SheetCells
  <2>1. PICK i : i = Import!Kth(D \ F, k)
    OBVIOUS
  <2>2. i \in D
    BY <1>5, <1>6, <2>1, KthIs
  <2>3. s[i] \in Seq(SheetCells)
    BY <1>2, <1>3, <2>2 DEF Import!DataRows, Import!Rows, Sheets
  <2>4. \A c : Import!CellAt(s[i], c) \in SheetCells
    BY <2>3, OtherCells DEF Import!CellAt
  <2>5. p.valid[k].cells["value"] = Import!ReadCell(s, i, "value")
    BY <1>7, <2>1 DEF Import!Schema
  <2> QED
    BY <2>4, <2>5 DEF Import!ReadCell
<1> QED
  BY <1>1, <1>7, <1>9, <1>10

\* The button that commits.
LEMMA PressCommitStep ==
  ASSUME ImportInv, Import!PressCommit
  PROVE  ImportInv'
<1>1. ImportTyped /\ (~trouble => Untroubled)
  BY DEF ImportInv
<1>2. /\ modal.open /\ modal.busy = "no" /\ modal.draft # 0
      /\ modal' = [modal EXCEPT !.busy = "committing"]
      /\ UNCHANGED <<settings, hand, previews, trail, trouble, day, changes, uploaded>>
  BY DEF Import!PressCommit
<1>3. /\ modal' \in [open : BOOLEAN, busy : {"no", "uploading", "committing"}, draft : 0 .. uploaded]
      /\ modal'.open /\ modal'.busy = "committing" /\ modal'.draft = modal.draft
      /\ modal.draft \in 1 .. uploaded
  BY <1>1, <1>2 DEF ImportTyped
<1>4. PICK d : d = Import!Offered
  OBVIOUS
<1>5. PICK r : r = IF Import!Known
                   THEN [ask |-> "commit", n |-> modal.draft, body |-> d, next |-> 1,
                         wrote |-> {}, skipped |-> {}, step |-> "rows", heard |-> TRUE]
                   ELSE [ask |-> "commit", n |-> modal.draft, step |-> "refused", heard |-> TRUE]
  OBVIOUS
<1>6. sent' = sent \cup {r}
  BY <1>4, <1>5 DEF Import!PressCommit
<1>7. r.ask = "commit" /\ r.n = modal.draft /\ r.heard = TRUE /\ (Import!Known => r.step = "rows")
  BY <1>5
<1>8. RequestOf(r)
  <2>1. CASE Import!Known
    <3>1. d \in previews /\ d.id = modal.draft
      BY <1>4, <2>1 DEF Import!Known, Import!Offered
    <3>2. DraftOf(d) /\ Announced(d) /\ Len(d.parsed.valid) \in Nat
      BY <1>1, <3>1, ValidRows DEF ImportTyped
    <3>3. r = [ask |-> "commit", n |-> modal.draft, body |-> d, next |-> 1,
               wrote |-> {}, skipped |-> {}, step |-> "rows", heard |-> TRUE]
      BY <1>5, <2>1
    <3>4. /\ r.body = d /\ r.next = 1 /\ r.wrote = {} /\ r.step = "rows" /\ r.n = d.id
          /\ r \in [ask : {"commit"}, n : 1 .. uploaded, body : {r.body}, next : Nat \ {0},
                    wrote : {r.wrote}, skipped : {r.skipped}, step : {"rows", "done"}, heard : BOOLEAN]
      BY <1>3, <3>1, <3>3
    <3>5. \A f, g : {<<f[i], g[f[i]]>> : i \in 1 .. r.next - 1} = {}
      BY <3>4
    <3>6. r.body.from = "export" =>
            r.wrote = {<<Import!Listed[i], r.body.was[Import!Listed[i]]>> : i \in 1 .. r.next - 1}
      BY <3>4, <3>5
    <3>7. CommitOf(r)
      BY <3>2, <3>4, <3>6 DEF CommitOf
    <3> QED
      BY <3>7 DEF RequestOf
  <2>2. CASE ~Import!Known
    BY <1>3, <1>5, <2>2 DEF RequestOf, RefusedOf
  <2> QED
    BY <2>1, <2>2
<1>9. ImportTyped' /\ Import!SecondImportIsAnnounced'
  <2>1. /\ settings' \in SettingStates /\ HandTyped' /\ uploaded \in Nat /\ uploaded' \in Nat
        /\ uploaded <= uploaded' /\ trouble' \in BOOLEAN
        /\ \A e, f \in previews' : e.id = f.id => e = f
    BY <1>1, <1>2 DEF ImportTyped, HandTyped
  <2>2. RequestOf(r)'
    BY <1>2, <1>8, <2>1, StillOf
  <2> QED
    BY <1>2, <1>3, <1>6, <2>1, <2>2, TypedStep
<1>10. ASSUME ~trouble PROVE Untroubled'
  <2>1. Untroubled
    BY <1>1, <1>10
  <2>2. Uploading' = Uploading /\ Committing' = Committing \cup {r} /\ previews' = previews
    BY <1>2, <1>6, <1>7 DEF Uploading, Committing
  <2>3. Import!Known
    BY <1>2, <2>1 DEF Untroubled, ModalKnows, Import!Known
  <2>4. \A q \in Committing : q.n # modal.draft
    BY <1>2, <2>1 DEF Untroubled, ModalKnows
  <2>5. OneCommitEach(Committing')
    BY <1>7, <2>1, <2>2, <2>3, <2>4 DEF Untroubled, OneCommitEach
  <2>6. UploadsApart'
    <3>1. \A q \in Uploading : q.late
      BY <1>2, <2>1 DEF Untroubled, UploadsApart
    <3>2. \A q \in Uploading : q.draft # modal.draft
      BY <1>2, <2>1 DEF Untroubled, UploadsApart
    <3> QED
      BY <1>3, <1>7, <2>1, <2>2, <3>1, <3>2 DEF Untroubled, UploadsApart
  <2>7. ModalKnows'
    BY <1>3 DEF ModalKnows
  <2> QED
    BY <2>2, <2>5, <2>6, <2>7 DEF Untroubled, OneCommitEach
<1> QED
  BY <1>2, <1>9, <1>10 DEF ImportInv

\* One more row of a commit, or its end: the others know it by its draft.
LEMMA CommitGoesOn ==
  ASSUME ImportTyped, Untroubled, NEW q \in sent, CommitOf(q), q.step # "refused",
         NEW r, r.ask = "commit", r.n = q.n, r.heard = q.heard, r.step # "refused",
         sent' = (sent \ {q}) \cup {r}, UNCHANGED modal,
         previews' \subseteq previews, previews \ {q.body} \subseteq previews'
  PROVE  Untroubled'
<1>1. q \in Committing /\ q.body.id = q.n
  BY DEF Committing, CommitOf
<1>2. Uploading' = Uploading /\ Committing' = (Committing \ {q}) \cup {r}
  BY <1>1 DEF Uploading, Committing
<1>3. OneCommitEach(Committing')
  BY <1>1, <1>2 DEF Untroubled, OneCommitEach
<1>4. \A d \in previews : d.id # q.n => d \in previews'
  BY <1>1
<1>5. UploadsApart'
  <2>1. \A u \in Uploading : u.draft # q.n
    BY <1>1 DEF Untroubled, UploadsApart
  <2>2. \A u \in Uploading : u.draft # 0 => \E d \in previews' : d.id = u.draft
    BY <1>4, <2>1 DEF Untroubled, UploadsApart
  <2>3. \A u \in Uploading : \A c \in Committing' : u.draft # c.n
    BY <1>2, <2>1 DEF Untroubled, UploadsApart
  <2> QED
    BY <1>2, <2>2, <2>3 DEF Untroubled, UploadsApart
<1>6. ModalKnows'
  <2>1. q.n = modal.draft => modal.busy = "committing"
    BY <1>1 DEF Untroubled, ModalKnows
  <2>2. \A c \in Committing' : c.n = modal.draft => modal.busy = "committing"
    BY <1>2, <2>1 DEF Untroubled, ModalKnows
  <2>3. modal.draft # 0 /\ modal.busy # "committing" => \E d \in previews' : d.id = modal.draft
    BY <1>4, <2>1 DEF Untroubled, ModalKnows
  <2> QED
    BY <2>2, <2>3 DEF Untroubled, ModalKnows, Import!Closed
<1> QED
  BY <1>3, <1>5, <1>6 DEF Untroubled, OneCommitEach

\* A row of a commit writes a value of the type that is there; a row of an export
\* writes the value that was exported.
LEMMA ApplyRowWrites ==
  ASSUME ImportInv, NEW q \in sent, CommitOf(q), q.step = "rows", Import!ApplyRow(q)
  PROVE  /\ settings' \in SettingStates
         /\ \E r : /\ sent' = (sent \ {q}) \cup {r} /\ CommitOf(r)
                   /\ r.ask = "commit" /\ r.n = q.n /\ r.heard = q.heard /\ r.step = "rows"
<1>1. PICK b, valid, n : /\ b = q.body /\ valid = b.parsed.valid /\ n = q.next
  OBVIOUS
<1>2. /\ q \in [ask : {"commit"}, n : 1 .. uploaded, body : {b}, next : Nat \ {0}, wrote : {q.wrote},
                skipped : {q.skipped}, step : {"rows", "done"}, heard : BOOLEAN]
      /\ b.id = q.n /\ DraftOf(b) /\ Announced(b) /\ n <= Len(valid) + 1
      /\ b.from = "export" =>
           q.wrote = {<<Import!Listed[i], b.was[Import!Listed[i]]>> : i \in 1 .. n - 1}
  BY <1>1 DEF CommitOf
<1>3. settings \in SettingStates
  BY ZenonT(30) DEF ImportInv, ImportTyped
<1>4. n \in Nat \ {0} /\ Len(valid) \in Nat /\ n <= Len(valid)
  BY <1>1, <1>2, ValidRows, ZenonT(30) DEF Import!ApplyRow
<1>5. PICK cells : cells = valid[n].cells
  OBVIOUS
<1>6. cells["value"] \in SheetCells
  BY <1>1, <1>2, <1>4, <1>5, ValidRows
<1>7. CASE Import!Acceptable(cells)
  <2>1. PICK key, text : key = cells["key"].of /\ text = cells["value"]
    OBVIOUS
  <2>2. key \in DOMAIN Kind /\ Import!Readable(text, settings[key].type)
    BY <1>7, <2>1 DEF Import!Acceptable, Import!SettingNames
  <2>3. settings[key] \in [type : Import!Types, of : {"0", "1"}] /\ settings[key].type = Kind[key]
    BY <1>3, <2>2 DEF SettingStates
  <2>4. text.of \in {"0", "1"}
    <3>1. text.form \in {"digits", "word", "brackets"}
      BY <2>2 DEF Import!Readable
    <3> QED
      BY <1>6, <2>1, <3>1 DEF SheetCells
  <2>5. PICK v : v = Import!Coerced(text, settings[key].type)
    OBVIOUS
  <2>6. v = [type |-> settings[key].type, of |-> text.of]
    BY <2>5 DEF Import!Coerced, Import!Value
  <2>7. v \in [type : Import!Types, of : {"0", "1"}] /\ v.type = Kind[key]
    BY <2>3, <2>4, <2>6
  <2>8. PICK r : r = [q EXCEPT !.next = @ + 1, !.wrote = @ \cup {<<key, v>>}]
    BY ZenonT(30)
  <2>9. settings' = [settings EXCEPT ![key] = v] /\ sent' = (sent \ {q}) \cup {r}
    <3>1. cells = q.body.parsed.valid[q.next].cells
      BY <1>1, <1>5
    <3> QED
      BY <1>7, <2>1, <2>5, <2>8, <3>1, ZenonT(30) DEF Import!ApplyRow, Import!Replace
  <2>10. settings' \in SettingStates
    <3>1. PICK s : s = [settings EXCEPT ![key] = v]
      OBVIOUS
    <3>2. s \in [DOMAIN Kind -> [type : Import!Types, of : {"0", "1"}]]
      BY <1>3, <2>7, <3>1 DEF SettingStates
    <3>3. \A k \in DOMAIN Kind : s[k].type = Kind[k]
      BY <1>3, <2>7, <3>1 DEF SettingStates
    <3> QED
      BY <2>9, <3>1, <3>2, <3>3 DEF SettingStates
  <2>11. /\ r \in [ask : {"commit"}, n : 1 .. uploaded, body : {b}, next : Nat \ {0}, wrote : {r.wrote},
                   skipped : {r.skipped}, step : {"rows", "done"}, heard : BOOLEAN]
         /\ r.body = b /\ r.next = n + 1 /\ r.n = q.n /\ r.heard = q.heard /\ r.step = "rows"
         /\ r.ask = "commit" /\ r.wrote = q.wrote \cup {<<key, v>>}
    <3>1. PICK m, w : m = n + 1 /\ w = q.wrote \cup {<<key, v>>}
      OBVIOUS
    <3>2. m \in Nat \ {0}
      BY <1>4, <3>1
    <3>3. r = [q EXCEPT !.next = m, !.wrote = w]
      BY <1>1, <2>8, <3>1
    <3>4. r.body = b /\ r.next = m /\ r.n = q.n /\ r.heard = q.heard /\ r.step = q.step
          /\ r.ask = "commit" /\ r.wrote = w /\ r.skipped = q.skipped
      BY <1>1, <1>2, <3>3
    <3>5. r \in [ask : {"commit"}, n : 1 .. uploaded, body : {b}, next : Nat \ {0}, wrote : {w},
                 skipped : {q.skipped}, step : {"rows", "done"}, heard : BOOLEAN]
      BY <1>2, <3>2, <3>3
    <3> QED
      BY <3>1, <3>4, <3>5
  <2>12. ASSUME b.from = "export"
         PROVE  r.wrote = {<<Import!Listed[i], b.was[Import!Listed[i]]>> : i \in 1 .. (n + 1) - 1}
    <3>1. b.was \in SettingStates /\ b.sheet = BareSheet(b.was)
          /\ b.parsed = Import!ParseToRows(b.sheet, Import!Schema)
      BY <1>2, <2>12 DEF DraftOf
    <3>2. /\ Len(valid) = NamesListed
          /\ \A k \in 1 .. NamesListed :
               /\ valid[k].cells["key"] = Import!Cell("name", Import!Listed[k])
               /\ valid[k].cells["value"] = Import!Printed(b.was[Import!Listed[k]])
      BY <1>1, <3>1, BareParsed
    <3>3. /\ cells["key"] = Import!Cell("name", Import!Listed[n])
          /\ text = Import!Printed(b.was[Import!Listed[n]])
      BY <1>4, <1>5, <2>1, <3>2
    <3>4. key = Import!Listed[n]
      BY <2>1, <3>3 DEF Import!Cell
    <3>5. b.was[key] \in [type : Import!Types, of : {"0", "1"}] /\ b.was[key].type = Kind[key]
      BY <2>2, <3>1 DEF SettingStates
    <3>6. Import!Coerced(text, b.was[key].type) = b.was[key]
      BY <3>3, <3>4, <3>5, PrintedIs
    <3>7. v = b.was[Import!Listed[n]]
      BY <2>3, <2>5, <3>4, <3>5, <3>6
    <3>8. r.wrote = {<<Import!Listed[i], b.was[Import!Listed[i]]>> : i \in 1 .. n - 1}
                      \cup {<<Import!Listed[n], b.was[Import!Listed[n]]>>}
      BY <1>2, <2>11, <2>12, <3>4, <3>7
    <3>9. 1 .. (n + 1) - 1 = (1 .. n - 1) \cup {n}
      BY <1>4
    <3> QED
      BY <3>8, <3>9
  <2>13. CommitOf(r)
    BY <1>1, <1>2, <1>4, <2>11, <2>12 DEF CommitOf
  <2> QED
    BY <2>9, <2>10, <2>11, <2>13
<1>8. CASE ~Import!Acceptable(cells)
  <2>1. PICK r : r = [q EXCEPT !.next = @ + 1, !.skipped = @ \cup {q.next}]
    BY ZenonT(30)
  <2>2. settings' = settings /\ sent' = (sent \ {q}) \cup {r}
    <3>1. cells = q.body.parsed.valid[q.next].cells
      BY <1>1, <1>5
    <3> QED
      BY <1>8, <2>1, <3>1, ZenonT(30) DEF Import!ApplyRow, Import!Replace
  <2>3. /\ r \in [ask : {"commit"}, n : 1 .. uploaded, body : {b}, next : Nat \ {0}, wrote : {r.wrote},
                  skipped : {r.skipped}, step : {"rows", "done"}, heard : BOOLEAN]
        /\ r.body = b /\ r.next = n + 1 /\ r.n = q.n /\ r.heard = q.heard /\ r.step = "rows"
        /\ r.ask = "commit"
    <3>1. PICK m, w : m = n + 1 /\ w = q.skipped \cup {q.next}
      OBVIOUS
    <3>2. m \in Nat \ {0}
      BY <1>4, <3>1
    <3>3. r = [q EXCEPT !.next = m, !.skipped = w]
      BY <1>1, <2>1, <3>1
    <3>4. r.body = b /\ r.next = m /\ r.n = q.n /\ r.heard = q.heard /\ r.step = q.step
          /\ r.ask = "commit" /\ r.wrote = q.wrote /\ r.skipped = w
      BY <1>1, <1>2, <3>3
    <3>5. r \in [ask : {"commit"}, n : 1 .. uploaded, body : {b}, next : Nat \ {0}, wrote : {q.wrote},
                 skipped : {w}, step : {"rows", "done"}, heard : BOOLEAN]
      BY <1>2, <3>2, <3>3
    <3> QED
      BY <3>1, <3>4, <3>5
  <2>4. b.from # "export"
    <3> SUFFICES ASSUME b.from = "export" PROVE FALSE
      OBVIOUS
    <3>1. b.was \in SettingStates /\ b.sheet = BareSheet(b.was)
          /\ b.parsed = Import!ParseToRows(b.sheet, Import!Schema)
      BY <1>2 DEF DraftOf
    <3>2. /\ Len(valid) = NamesListed
          /\ \A k \in 1 .. NamesListed :
               /\ valid[k].cells["key"] = Import!Cell("name", Import!Listed[k])
               /\ valid[k].cells["value"] = Import!Printed(b.was[Import!Listed[k]])
      BY <1>1, <3>1, BareParsed
    <3>3. PICK key : key = Import!Listed[n] /\ key \in DOMAIN Kind
      BY <1>4, <3>2, ListedIs
    <3>4. cells["key"] = Import!Cell("name", key) /\ cells["value"] = Import!Printed(b.was[key])
      BY <1>4, <1>5, <3>2, <3>3
    <3>5. b.was[key] \in [type : Import!Types, of : {"0", "1"}] /\ b.was[key].type = settings[key].type
      BY <1>3, <3>1, <3>3 DEF SettingStates
    <3>6. Import!Readable(cells["value"], settings[key].type)
      BY <3>4, <3>5, PrintedIs
    <3>7. cells["key"].form = "name" /\ cells["key"].of = key
      BY <3>4 DEF Import!Cell
    <3> QED
      BY <1>8, <3>3, <3>6, <3>7 DEF Import!Acceptable, Import!SettingNames
  <2>5. CommitOf(r)
    BY <1>1, <1>2, <1>4, <2>3, <2>4 DEF CommitOf
  <2> QED
    BY <1>3, <2>2, <2>3, <2>5
<1> QED
  BY <1>7, <1>8

\* A row of a commit is written, or skipped for a name that is not there.
LEMMA ApplyRowStep ==
  ASSUME ImportInv, NEW q, Import!ApplyRow(q)
  PROVE  ImportInv'
<1>1. ImportTyped /\ (~trouble => Untroubled)
  BY DEF ImportInv
<1>2. /\ q \in sent /\ q.ask = "commit" /\ q.step = "rows"
      /\ UNCHANGED <<hand, previews, trail, modal, trouble, day, changes, uploaded>>
  BY ZenonT(30) DEF Import!ApplyRow
<1>3. CommitOf(q)
  BY <1>1, <1>2, RequestsAre DEF RefusedOf
<1>4. settings' \in SettingStates
  BY <1>2, <1>3, ApplyRowWrites
<1>5. PICK r : /\ sent' = (sent \ {q}) \cup {r} /\ CommitOf(r)
               /\ r.ask = "commit" /\ r.n = q.n /\ r.heard = q.heard /\ r.step = "rows"
  BY <1>2, <1>3, ApplyRowWrites
<1>6. ImportTyped' /\ Import!SecondImportIsAnnounced'
  <2>1. /\ HandTyped' /\ uploaded \in Nat /\ uploaded' \in Nat /\ uploaded <= uploaded'
        /\ trouble' \in BOOLEAN /\ \A d, e \in previews' : d.id = e.id => d = e
        /\ (modal \in [open : BOOLEAN, busy : {"no", "uploading", "committing"},
                       draft : 0 .. uploaded])'
    BY <1>1, <1>2 DEF ImportTyped, HandTyped
  <2>2. RequestOf(r)'
    BY <1>2, <1>5, <2>1, StillOf DEF RequestOf
  <2> QED
    BY <1>2, <1>4, <1>5, <2>1, <2>2, TypedStep
<1>7. ~trouble' => Untroubled'
  BY <1>1, <1>2, <1>3, <1>5, CommitGoesOn
<1> QED
  BY <1>6, <1>7, ZenonT(30) DEF ImportInv

\* Another import is logged before the others: of the draft it was made from, or of
\* a file that is none of this modal's.
LEMMA LoggedStep ==
  ASSUME ImportInv, NEW e, trail' = <<e>> \o trail,
         e.sheet = <<>> \/ (e.sheet = e.draft.sheet /\ Announced(e.draft))
  PROVE  /\ \A x : Announced(x) => Announced(x)'
         /\ Import!SecondImportIsAnnounced'
         /\ (trail \in Seq({trail[i] : i \in DOMAIN trail}))'
<1>0. LookBack \in Nat
  BY PagesAssumption DEF PagesAssumption, Import!ImportsAssumption
<1>1. PICK T : T = {trail[i] : i \in DOMAIN trail} /\ trail \in Seq(T)
  BY DEF ImportInv, ImportTyped
<1>2. PICK n \in Nat : n = Len(trail) /\ DOMAIN trail = 1 .. n
  BY <1>1
<1>3. PICK log : log = trail'
  OBVIOUS
<1>4. /\ log \in Seq(T \cup {e}) /\ Len(log) = n + 1 /\ DOMAIN log = 1 .. n + 1
      /\ log[1] = e /\ \A j \in 2 .. n + 1 : log[j] = trail[j - 1]
  <2>1. trail \in Seq(T \cup {e})
    BY <1>1, SeqMonotonic
  <2>2. <<e>> \in Seq(T \cup {e}) /\ Len(<<e>>) = 1 /\ <<e>>[1] = e
    OBVIOUS
  <2>3. PICK s : s = <<e>>
    OBVIOUS
  <2>4. s \in Seq(T \cup {e}) /\ Len(s) = 1 /\ s[1] = e /\ log = s \o trail
    BY <1>3, <2>2, <2>3
  <2>5. /\ s \o trail \in Seq(T \cup {e}) /\ Len(s \o trail) = Len(s) + Len(trail)
        /\ \A j \in 1 .. Len(s) + Len(trail) :
             (s \o trail)[j] = IF j <= Len(s) THEN s[j] ELSE trail[j - Len(s)]
    BY <2>1, <2>4, ConcatProperties
  <2>6. Len(s) + Len(trail) = n + 1
    BY <1>2, <2>4
  <2>7. \A j \in 1 .. n + 1 : log[j] = IF j <= 1 THEN s[j] ELSE trail[j - 1]
    BY <2>4, <2>5, <2>6
  <2> QED
    BY <2>4, <2>5, <2>6, <2>7
<1>5. log \in Seq({log[i] : i \in DOMAIN log})
  <2>1. PICK U : U = {log[i] : i \in DOMAIN log}
    OBVIOUS
  <2>2. PICK m \in Nat : m = n + 1
    OBVIOUS
  <2>3. log = [i \in 1 .. m |-> log[i]] /\ \A i \in 1 .. m : log[i] \in U
    BY <1>4, <2>1, <2>2
  <2> QED
    BY <2>1, <2>2, <2>3, SequenceOf
<1>6. ASSUME NEW x, Announced(x) PROVE Announced(x)'
  <2>1. /\ x.seen \in 0 .. n
        /\ \A j \in 1 .. n :
             /\ x.seen - (n - j) \in 1 .. LookBack
             /\ trail[j].sheet = x.sheet /\ trail[j].day = x.day /\ x.looked
             => x.warned
    <3>1. x.seen \in 0 .. Len(trail)
      BY <1>6 DEF Announced
    <3>2. \A j \in 1 .. Len(trail) :
            /\ x.seen - (Len(trail) - j) \in 1 .. LookBack
            /\ trail[j].sheet = x.sheet /\ trail[j].day = x.day /\ x.looked
            => x.warned
      BY <1>6 DEF Announced
    <3>3. PICK m : m = Len(trail)
      OBVIOUS
    <3> QED
      BY <1>2, <3>1, <3>2, <3>3
  <2>2. x.seen \in 0 .. n + 1
    BY <2>1
  <2>3. ASSUME NEW j \in 1 .. n + 1, x.seen - ((n + 1) - j) \in 1 .. LookBack,
               log[j].sheet = x.sheet, log[j].day = x.day, x.looked
        PROVE  x.warned
    <3>1. j # 1
      BY <1>0, <2>1, <2>3
    <3>2. j - 1 \in 1 .. n /\ x.seen - (n - (j - 1)) = x.seen - ((n + 1) - j)
      BY <2>1, <3>1
    <3>3. j \in 2 .. n + 1
      BY <3>1
    <3>4. log[j] = trail[j - 1]
      BY <1>4, <3>3
    <3> QED
      BY <2>1, <2>3, <3>2, <3>4
  <2> QED
    BY <1>3, <1>4, <2>2, <2>3 DEF Announced
<1>7. ASSUME NEW i \in DOMAIN log, NEW j \in i + 1 .. n + 1, log[i].sheet = log[j].sheet,
             log[i].sheet # <<>>, log[i].draft.looked,
             log[i].draft.seen - ((n + 1) - j) \in 1 .. LookBack,
             log[i].draft.day = log[j].day
      PROVE  log[i].draft.warned
  <2>1. i \in 1 .. n + 1 /\ j \in 2 .. n + 1 /\ log[j] = trail[j - 1] /\ j - 1 \in 1 .. n
        /\ n - (j - 1) = (n + 1) - j
    BY <1>4, <1>7
  <2>2. CASE i = 1
    <3>1. log[i] = e /\ e.sheet = e.draft.sheet /\ Announced(e.draft)
      BY <1>4, <1>7, <2>2
    <3> QED
      BY <1>2, <1>7, <2>1, <3>1 DEF Announced
  <2>3. CASE i # 1
    <3>1. /\ log[i] = trail[i - 1] /\ i - 1 \in DOMAIN trail /\ j - 1 \in (i - 1) + 1 .. Len(trail)
      BY <1>2, <1>4, <1>7, <2>1, <2>3
    <3>2. Import!SecondImportIsAnnounced
      BY DEF ImportInv
    <3> QED
      BY <1>2, <1>7, <2>1, <3>1, <3>2 DEF Import!SecondImportIsAnnounced, Import!PlaceAtUpload
  <2> QED
    BY <2>2, <2>3
<1>8. Import!SecondImportIsAnnounced'
  <2>1. \A i \in DOMAIN log : \A j \in i + 1 .. Len(log) :
          /\ log[i].sheet = log[j].sheet /\ log[i].sheet # <<>>
          /\ log[i].draft.looked
          /\ log[i].draft.seen - (Len(log) - j) \in 1 .. LookBack
          /\ log[i].draft.day = log[j].day
          => log[i].draft.warned
    BY <1>4, <1>7
  <2>2. \A i \in DOMAIN trail' : \A j \in i + 1 .. Len(trail') :
          /\ trail'[i].sheet = trail'[j].sheet /\ trail'[i].sheet # <<>>
          /\ trail'[i].draft.looked
          /\ trail'[i].draft.seen - (Len(trail') - j) \in 1 .. LookBack
          /\ trail'[i].draft.day = trail'[j].day
          => trail'[i].draft.warned
    BY <1>3, <2>1
  <2> QED
    BY <2>2, Zenon DEF Import!SecondImportIsAnnounced, Import!PlaceAtUpload
<1> QED
  BY <1>3, <1>5, <1>6, <1>8

\* What a draft and a request are stays true when more is logged.
LEMMA LoggedTyped ==
  ASSUME ImportTyped, UNCHANGED uploaded, \A x : Announced(x) => Announced(x)', NEW x
  PROVE  /\ DraftOf(x) => DraftOf(x)'
         /\ RequestOf(x) => RequestOf(x)'
<1>1. DraftOf(x) => DraftOf(x)'
  BY DEF DraftOf
<1>2. UploadOf(x) => UploadOf(x)'
  BY DEF UploadOf
<1>3. RefusedOf(x) => RefusedOf(x)'
  BY DEF RefusedOf
<1>4. DraftOf(x.body) => DraftOf(x.body)'
  BY DEF DraftOf
<1>5. CommitOf(x) => CommitOf(x)'
  BY <1>4 DEF CommitOf
<1> QED
  BY <1>1, <1>2, <1>3, <1>5 DEF RequestOf

\* A commit ends, logged or not.
LEMMA EndCommitStep ==
  ASSUME ImportInv, NEW q, Import!EndCommit(q)
  PROVE  ImportInv'
<1>1. ImportTyped /\ (~trouble => Untroubled)
  BY DEF ImportInv
<1>2. /\ q \in sent /\ q.ask = "commit" /\ q.step = "rows" /\ q.next > Len(q.body.parsed.valid)
      /\ previews' = previews \ {q.body}
      /\ \/ trail' = <<[sheet |-> q.body.sheet, day |-> day, draft |-> q.body]>> \o trail
         \/ UNCHANGED trail
      /\ UNCHANGED <<settings, hand, modal, trouble, day, changes, uploaded>>
  BY DEF Import!EndCommit
<1>3. CommitOf(q)
  BY <1>1, <1>2, RequestsAre DEF RefusedOf
<1>4. PICK r : r = [q EXCEPT !.step = "done"]
  OBVIOUS
<1>5. sent' = (sent \ {q}) \cup {r}
  BY <1>4 DEF Import!EndCommit, Import!Replace
<1>6. /\ CommitOf(r) /\ r.ask = "commit" /\ r.n = q.n /\ r.heard = q.heard /\ r.step = "done"
  <2>1. /\ q \in [ask : {"commit"}, n : 1 .. uploaded, body : {q.body}, next : Nat \ {0},
                  wrote : {q.wrote}, skipped : {q.skipped}, step : {"rows", "done"}, heard : BOOLEAN]
        /\ q.next <= Len(q.body.parsed.valid) + 1 /\ Len(q.body.parsed.valid) \in Nat
    BY <1>3, ValidRows DEF CommitOf
  <2>2. /\ r \in [ask : {"commit"}, n : 1 .. uploaded, body : {r.body}, next : Nat \ {0},
                  wrote : {r.wrote}, skipped : {r.skipped}, step : {"rows", "done"}, heard : BOOLEAN]
        /\ r.body = q.body /\ r.next = q.next /\ r.wrote = q.wrote /\ r.n = q.n
        /\ r.heard = q.heard /\ r.step = "done" /\ r.ask = "commit"
    BY <1>4, <2>1
  <2>3. r.next = Len(r.body.parsed.valid) + 1
    BY <1>2, <2>1, <2>2
  <2> QED
    BY <1>3, <2>1, <2>2, <2>3 DEF CommitOf
<1>7. /\ \A x : Announced(x) => Announced(x)'
      /\ Import!SecondImportIsAnnounced'
      /\ (trail \in Seq({trail[i] : i \in DOMAIN trail}))'
  <2>1. CASE UNCHANGED trail
    <3>1. \A x : Announced(x) => Announced(x)'
      BY <2>1 DEF Announced
    <3>2. Import!SecondImportIsAnnounced'
      BY <2>1 DEF ImportInv, Import!SecondImportIsAnnounced, Import!PlaceAtUpload
    <3> QED
      BY <1>1, <2>1, <3>1, <3>2 DEF ImportTyped
  <2>2. CASE trail' = <<[sheet |-> q.body.sheet, day |-> day, draft |-> q.body]>> \o trail
    <3>1. PICK e : e = [sheet |-> q.body.sheet, day |-> day, draft |-> q.body]
      OBVIOUS
    <3>2. e.sheet = e.draft.sheet /\ Announced(e.draft) /\ trail' = <<e>> \o trail
      BY <1>3, <2>2, <3>1 DEF CommitOf
    <3> QED
      BY <3>2, LoggedStep
  <2> QED
    BY <1>2, <2>1, <2>2
<1>8. ImportTyped'
  <2>1. /\ settings' \in SettingStates /\ HandTyped' /\ uploaded' \in Nat /\ trouble' \in BOOLEAN
        /\ (modal \in [open : BOOLEAN, busy : {"no", "uploading", "committing"},
                       draft : 0 .. uploaded])'
    BY <1>1, <1>2 DEF ImportTyped, HandTyped
  <2>2. \A d, e \in previews' : d.id = e.id => d = e
    BY <1>1, <1>2 DEF ImportTyped
  <2>3. \A d \in previews' : (DraftOf(d) /\ Announced(d))'
    <3>1. \A d \in previews' : DraftOf(d) /\ Announced(d)
      BY <1>1, <1>2 DEF ImportTyped
    <3> QED
      BY <1>1, <1>2, <1>7, <3>1, LoggedTyped
  <2>4. \A x \in sent' : RequestOf(x)'
    <3>1. \A x \in sent' : RequestOf(x)
      BY <1>1, <1>5, <1>6 DEF ImportTyped, RequestOf
    <3> QED
      BY <1>1, <1>2, <1>7, <3>1, LoggedTyped
  <2> QED
    BY <1>7, <2>1, <2>2, <2>3, <2>4 DEF ImportTyped, RequestOf
<1>9. ~trouble' => Untroubled'
  BY <1>1, <1>2, <1>3, <1>5, <1>6, CommitGoesOn
<1> QED
  BY <1>7, <1>8, <1>9 DEF ImportInv

\* Somebody imports another file.
LEMMA ElsewhereStep ==
  ASSUME ImportInv, Import!ImportElsewhere
  PROVE  ImportInv'
<1>1. ImportTyped /\ (~trouble => Untroubled)
  BY DEF ImportInv
<1>2. PICK e : e = [sheet |-> <<>>, day |-> day, draft |-> <<>>]
  OBVIOUS
<1>3. /\ trail' = <<e>> \o trail /\ e.sheet = <<>>
      /\ UNCHANGED <<settings, hand, previews, modal, sent, trouble, day, uploaded>>
  BY <1>2 DEF Import!ImportElsewhere
<1>4. /\ \A x : Announced(x) => Announced(x)'
      /\ Import!SecondImportIsAnnounced'
      /\ (trail \in Seq({trail[i] : i \in DOMAIN trail}))'
  BY <1>3, LoggedStep
<1>5. ImportTyped'
  <2>1. /\ settings' \in SettingStates /\ HandTyped' /\ uploaded' \in Nat /\ trouble' \in BOOLEAN
        /\ (modal \in [open : BOOLEAN, busy : {"no", "uploading", "committing"},
                       draft : 0 .. uploaded])'
        /\ \A d, f \in previews' : d.id = f.id => d = f
    BY <1>1, <1>3 DEF ImportTyped, HandTyped
  <2>2. \A d \in previews' : (DraftOf(d) /\ Announced(d))'
    <3>1. \A d \in previews' : DraftOf(d) /\ Announced(d)
      BY <1>1, <1>3 DEF ImportTyped
    <3> QED
      BY <1>1, <1>3, <1>4, <3>1, LoggedTyped
  <2>3. \A x \in sent' : RequestOf(x)'
    <3>1. \A x \in sent' : RequestOf(x)
      BY <1>1, <1>3 DEF ImportTyped, RequestOf
    <3> QED
      BY <1>1, <1>3, <1>4, <3>1, LoggedTyped
  <2> QED
    BY <1>4, <2>1, <2>2, <2>3 DEF ImportTyped, RequestOf
<1>6. ~trouble' => Untroubled'
  BY <1>1, <1>3 DEF Untroubled, UploadsApart, OneCommitEach, ModalKnows, Uploading, Committing,
     Import!Closed
<1> QED
  BY <1>4, <1>5, <1>6 DEF ImportInv

\* An answer to a commit.
LEMMA CommitAnsweredStep ==
  ASSUME ImportInv, NEW q, Import!CommitAnswered(q)
  PROVE  ImportInv'
<1>1. ImportTyped /\ (~trouble => Untroubled)
  BY DEF ImportInv
<1>2. PICK closes \in BOOLEAN : closes = (q.heard /\ q.step = "done" /\ modal.open)
  OBVIOUS
<1>3. /\ q \in sent /\ q.ask = "commit"
      /\ sent' = IF closes THEN Import!Belated(sent \ {q}) ELSE sent \ {q}
      /\ modal' \in {modal, Import!Closed, [modal EXCEPT !.busy = "no"]}
      /\ UNCHANGED <<settings, hand, previews, trail, trouble, day, changes, uploaded>>
  BY <1>2 DEF Import!CommitAnswered, Import!ClosedAgain
<1>4. modal' \in [open : BOOLEAN, busy : {"no", "uploading", "committing"}, draft : 0 .. uploaded]
  <2>1. PICK m : m = modal
    OBVIOUS
  <2>2. m \in [open : BOOLEAN, busy : {"no", "uploading", "committing"}, draft : 0 .. uploaded]
    BY <1>1, <2>1 DEF ImportTyped
  <2>3. [m EXCEPT !.busy = "no"] \in
          [open : BOOLEAN, busy : {"no", "uploading", "committing"}, draft : 0 .. uploaded]
    BY <2>2
  <2>4. 0 \in 0 .. uploaded
    BY <1>1 DEF ImportTyped
  <2>5. Import!Closed \in
          [open : BOOLEAN, busy : {"no", "uploading", "committing"}, draft : 0 .. uploaded]
    BY <2>4 DEF Import!Closed
  <2> QED
    BY <1>3, <2>1, <2>2, <2>3, <2>5
<1>5. \A x \in sent' : x \in sent \/ RequestOf(x)'
  <2>1. \A x \in Import!Belated(sent \ {q}) : x \in sent \/ UploadOf(x)
    BY <1>1, BelatedIs
  <2>2. \A x : UploadOf(x) => UploadOf(x)'
    BY <1>3 DEF UploadOf
  <2> QED
    BY <1>3, <2>1, <2>2 DEF RequestOf
<1>6. ImportTyped' /\ Import!SecondImportIsAnnounced'
  <2>1. /\ settings' \in SettingStates /\ HandTyped' /\ uploaded \in Nat /\ uploaded' \in Nat
        /\ uploaded <= uploaded' /\ trouble' \in BOOLEAN
        /\ \A d, e \in previews' : d.id = e.id => d = e
    BY <1>1, <1>3 DEF ImportTyped, HandTyped
  <2> QED
    BY <1>3, <1>4, <1>5, <2>1, TypedStep
<1>7. ASSUME ~trouble PROVE Untroubled'
  <2>1. Untroubled /\ q \in Committing
    BY <1>1, <1>3, <1>7 DEF Committing
  <2>2. q.heard /\ q.step # "refused"
    BY <2>1 DEF Untroubled, OneCommitEach
  <2>3. q.step = "done"
    BY <2>2 DEF Import!CommitAnswered
  <2>4. CASE modal.open
    <3>1. closes
      BY <1>2, <2>2, <2>3, <2>4
    <3>2. sent' = Import!Belated(sent \ {q}) /\ modal' = Import!Closed /\ UNCHANGED previews
      BY <1>2, <1>3, <3>1 DEF Import!CommitAnswered, Import!ClosedAgain
    <3> QED
      BY <1>1, <2>1, <3>2, ClosingKeeps
  <2>5. CASE ~modal.open
    <3>1. ~closes /\ modal = Import!Closed
      BY <1>2, <2>1, <2>5 DEF Untroubled, ModalKnows
    <3>2. modal' = [modal EXCEPT !.busy = "no"]
      BY <1>2, <2>2, <2>5 DEF Import!CommitAnswered
    <3>3. modal' = modal
      BY <3>1, <3>2 DEF Import!Closed
    <3>4. Uploading' = Uploading /\ Committing' = Committing \ {q} /\ previews' = previews
      BY <1>3, <3>1 DEF Uploading, Committing
    <3>5. UploadsApart'
      BY <2>1, <3>3, <3>4 DEF Untroubled, UploadsApart
    <3>6. ModalKnows'
      BY <2>1, <3>3, <3>4 DEF Untroubled, ModalKnows, Import!Closed
    <3> QED
      BY <2>1, <3>4, <3>5, <3>6 DEF Untroubled, OneCommitEach
  <2> QED
    BY <2>4, <2>5
<1> QED
  BY <1>3, <1>6, <1>7 DEF ImportInv

\* The answer to a commit is lost.
LEMMA CommitLostStep ==
  ASSUME ImportInv, NEW q, Import!CommitLost(q)
  PROVE  ImportInv'
<1>1. ImportTyped
  BY DEF ImportInv
<1>2. PICK r : r = [q EXCEPT !.heard = FALSE]
  OBVIOUS
<1>3. /\ q \in sent /\ q.ask = "commit" /\ sent' = (sent \ {q}) \cup {r}
      /\ modal' = [modal EXCEPT !.busy = "no"] /\ trouble' = TRUE
      /\ UNCHANGED <<settings, hand, previews, trail, day, uploaded>>
  BY <1>2 DEF Import!CommitLost, Import!Replace
<1>4. modal' \in [open : BOOLEAN, busy : {"no", "uploading", "committing"}, draft : 0 .. uploaded]
  BY <1>1, <1>3 DEF ImportTyped
<1>5. RequestOf(r)
  <2>1. CASE RefusedOf(q)
    <3>1. RefusedOf(r)
      BY <1>2, <2>1 DEF RefusedOf
    <3> QED
      BY <3>1 DEF RequestOf
  <2>2. CASE CommitOf(q)
    <3>1. q \in [ask : {"commit"}, n : 1 .. uploaded, body : {q.body}, next : Nat \ {0},
                 wrote : {q.wrote}, skipped : {q.skipped}, step : {"rows", "done"}, heard : BOOLEAN]
      BY <2>2 DEF CommitOf
    <3>2. /\ r \in [ask : {"commit"}, n : 1 .. uploaded, body : {r.body}, next : Nat \ {0},
                    wrote : {r.wrote}, skipped : {r.skipped}, step : {"rows", "done"}, heard : BOOLEAN]
          /\ r.body = q.body /\ r.next = q.next /\ r.wrote = q.wrote /\ r.n = q.n /\ r.step = q.step
      BY <1>2, <3>1
    <3>3. CommitOf(r)
      BY <2>2, <3>2 DEF CommitOf
    <3> QED
      BY <3>3 DEF RequestOf
  <2> QED
    BY <1>1, <1>3, <2>1, <2>2, RequestsAre
<1>6. /\ settings' \in SettingStates /\ HandTyped' /\ uploaded \in Nat /\ uploaded' \in Nat
      /\ uploaded <= uploaded' /\ trouble' \in BOOLEAN
      /\ \A d, e \in previews' : d.id = e.id => d = e
  BY <1>1, <1>3 DEF ImportTyped, HandTyped
<1>7. RequestOf(r)'
  BY <1>3, <1>5, <1>6, StillOf
<1>8. ImportTyped' /\ Import!SecondImportIsAnnounced'
  BY <1>3, <1>4, <1>6, <1>7, TypedStep
<1> QED
  BY <1>3, <1>8 DEF ImportInv

\* Nothing was exported, uploaded or logged at first.
LEMMA ImportInit == Import!Init => ImportInv
<1> SUFFICES ASSUME Import!Init PROVE ImportInv
  OBVIOUS
<1>1. /\ Kind \in [DOMAIN Kind -> Import!Types]
      /\ MaxEdits \in Nat
  BY PagesAssumption DEF PagesAssumption, Import!ImportsAssumption, Import!SettingNames
<1>2. settings \in SettingStates
  BY <1>1 DEF Import!Init, Import!Value, Import!SettingNames, SettingStates
<1>3. HandTyped
  <2>1. PICK h : h = [from |-> "nothing", rows |-> <<>>, edits |-> 0, was |-> <<>>]
    OBVIOUS
  <2>2. <<>> \in Sheets
    BY EmptySeq DEF Sheets
  <2>3. h \in [from : Origins, rows : Sheets, edits : 0 .. MaxEdits, was : {h.was}] /\ h.from # "export"
    BY <1>1, <2>1, <2>2 DEF Origins
  <2>4. hand = h
    BY <2>1 DEF Import!Init, Import!NoHand
  <2> QED
    BY <2>3, <2>4 DEF HandTyped
<1>4. /\ previews = {} /\ trail = <<>> /\ modal = Import!Closed /\ sent = {} /\ trouble = FALSE
      /\ uploaded = 0
  BY DEF Import!Init
<1>5. trail \in Seq({trail[i] : i \in DOMAIN trail})
  BY <1>4, EmptySeq
<1>6. ImportTyped
  <2>1. modal \in [open : BOOLEAN, busy : {"no", "uploading", "committing"}, draft : 0 .. uploaded]
    <3>1. 0 \in 0 .. uploaded
      BY <1>4
    <3>2. Import!Closed \in
            [open : BOOLEAN, busy : {"no", "uploading", "committing"}, draft : 0 .. uploaded]
      BY <3>1 DEF Import!Closed
    <3> QED
      BY <1>4, <3>2
  <2>2. uploaded \in Nat /\ trouble \in BOOLEAN
    BY <1>4
  <2>3. /\ \A d \in previews : DraftOf(d) /\ Announced(d)
        /\ \A d, e \in previews : d.id = e.id => d = e
        /\ \A q \in sent : UploadOf(q) \/ RefusedOf(q) \/ CommitOf(q)
    BY <1>4
  <2> QED
    BY <1>2, <1>3, <1>5, <2>1, <2>2, <2>3 DEF ImportTyped
<1>7. Import!SecondImportIsAnnounced
  BY <1>4 DEF Import!SecondImportIsAnnounced
<1>8. Untroubled
  BY <1>4 DEF Untroubled, UploadsApart, OneCommitEach, ModalKnows, Uploading, Committing, Import!Closed
<1> QED
  BY <1>6, <1>7, <1>8 DEF ImportInv

\* Somebody else changes a setting, or a day passes.
LEMMA OthersStep ==
  ASSUME ImportInv,
         \/ \E k \in DOMAIN Kind : \E v \in Import!ValuesOf(Kind[k]) : Import!ChangeSetting(k, v)
         \/ Import!NextDay
  PROVE  ImportInv'
<1>1. settings \in SettingStates /\ HandTyped
  BY DEF ImportInv, ImportTyped
<1>2. ASSUME NEW k \in DOMAIN Kind, NEW v \in Import!ValuesOf(Kind[k]), Import!ChangeSetting(k, v)
      PROVE  ImportInv'
  <2>1. v \in [type : Import!Types, of : {"0", "1"}] /\ v.type = Kind[k]
    BY PagesAssumption DEF PagesAssumption, Import!ImportsAssumption, Import!SettingNames,
                           Import!ValuesOf, Import!Value
  <2>2. /\ settings' = [settings EXCEPT ![k] = v]
        /\ UNCHANGED <<hand, previews, trail, modal, sent, trouble, uploaded>>
    BY <1>2 DEF Import!ChangeSetting
  <2>3. PICK s : s = [settings EXCEPT ![k] = v]
    OBVIOUS
  <2>4. s \in [DOMAIN Kind -> [type : Import!Types, of : {"0", "1"}]]
    BY <1>1, <2>1, <2>3 DEF SettingStates
  <2>5. \A j \in DOMAIN Kind : s[j].type = Kind[j]
    BY <1>1, <2>1, <2>3 DEF SettingStates
  <2>6. settings' \in SettingStates
    BY <2>2, <2>3, <2>4, <2>5 DEF SettingStates
  <2>7. HandTyped'
    BY <1>1, <2>2 DEF HandTyped
  <2> QED
    BY <2>2, <2>6, <2>7, BesideStep
<1>3. CASE Import!NextDay
  <2>1. UNCHANGED <<settings, hand, previews, trail, modal, sent, trouble, uploaded>>
    BY <1>3 DEF Import!NextDay
  <2>2. settings' \in SettingStates /\ HandTyped'
    BY <1>1, <2>1 DEF HandTyped
  <2> QED
    BY <2>1, <2>2, BesideStep
<1> QED
  BY <1>2, <1>3

\* Each step of the import page keeps the invariant.
LEMMA ImportNext == ImportInv /\ [Import!Next]_(Import!vars) => ImportInv'
<1> SUFFICES ASSUME ImportInv, [Import!Next]_(Import!vars) PROVE ImportInv'
  OBVIOUS
<1>1. CASE UNCHANGED Import!vars
  <2>1. UNCHANGED <<settings, hand, previews, trail, modal, sent, trouble, uploaded>>
    BY <1>1 DEF Import!vars
  <2>2. settings' \in SettingStates /\ HandTyped'
    BY <2>1 DEF ImportInv, ImportTyped, HandTyped
  <2> QED
    BY <2>1, <2>2, BesideStep
<1>2. CASE Import!Editing
  BY <1>2, HandStep, OthersStep DEF Import!Editing, Import!SettingNames
<1>3. CASE Import!Open \/ Import!Close \/ Import!Another
  BY <1>3, ModalStep
<1>4. CASE Import!Upload
  BY <1>4, UploadStep
<1>5. CASE Import!PressCommit
  BY <1>5, PressCommitStep
<1>6. ASSUME NEW q \in sent,
             \/ Import!UploadAnswered(q) \/ Import!ApplyRow(q) \/ Import!EndCommit(q)
             \/ Import!CommitAnswered(q) \/ Import!CommitLost(q)
      PROVE  ImportInv'
  BY <1>6, UploadAnsweredStep, ApplyRowStep, EndCommitStep, CommitAnsweredStep, CommitLostStep
<1>7. CASE Import!ImportElsewhere
  BY <1>7, ElsewhereStep
<1>8. CASE Import!NextDay
  BY <1>8, OthersStep
<1> QED
  BY <1>1, <1>2, <1>3, <1>4, <1>5, <1>6, <1>7, <1>8 DEF Import!Next

\* What the import page promises follows.
LEMMA ImportShows == ImportInv => ImportsAreAnnounced
<1> SUFFICES ASSUME ImportInv PROVE ImportsAreAnnounced
  OBVIOUS
<1>1. ImportTyped /\ (~trouble => Untroubled) /\ trouble \in BOOLEAN
  BY DEF ImportInv, ImportTyped
<1>2. Import!TypeOK
  <2>1. \A k \in DOMAIN Kind : settings[k] \in Import!ValuesOf(Kind[k])
    <3> SUFFICES ASSUME NEW k \in DOMAIN Kind PROVE settings[k] \in Import!ValuesOf(Kind[k])
      OBVIOUS
    <3>1. PICK v : v = settings[k] /\ v \in [type : Import!Types, of : {"0", "1"}] /\ v.type = Kind[k]
      BY <1>1 DEF ImportTyped, SettingStates
    <3>2. v = [type |-> Kind[k], of |-> v.of] /\ v.of \in {"0", "1"}
      BY <3>1
    <3> QED
      BY <3>1, <3>2 DEF Import!ValuesOf, Import!Value
  <2>2. \A d \in previews : d.id \in 1 .. uploaded
    BY <1>1 DEF ImportTyped, DraftOf
  <2>3. hand.edits \in 0 .. MaxEdits
    BY <1>1 DEF ImportTyped, HandTyped
  <2> QED
    BY <1>1, <2>1, <2>2, <2>3 DEF ImportTyped, Import!TypeOK, Import!SettingNames
<1>3. Import!EveryRowIsAccountedFor
  <2>1. \A d \in previews : Accounted(d.parsed)
    BY <1>1, AllAccounted DEF ImportTyped, DraftOf
  <2> QED
    BY <2>1 DEF Accounted, Import!EveryRowIsAccountedFor
<1>4. Import!RoundTrip
  <2> SUFFICES ASSUME NEW q \in Import!Outcomes, q.body.from = "export"
               PROVE  q.wrote = {<<k, q.body.was[k]>> : k \in DOMAIN Kind}
    BY DEF Import!RoundTrip, Import!SettingNames
  <2>1. q \in sent /\ q.ask = "commit" /\ q.step = "done"
    BY DEF Import!Outcomes, Import!Commits
  <2>2. CommitOf(q)
    BY <1>1, <2>1, RequestsAre DEF RefusedOf
  <2>3. PICK was : was = q.body.was
    OBVIOUS
  <2>4. /\ was \in SettingStates /\ q.body.sheet = BareSheet(was)
        /\ q.body.parsed = Import!ParseToRows(q.body.sheet, Import!Schema)
        /\ q.next = Len(q.body.parsed.valid) + 1
        /\ q.wrote = {<<Import!Listed[i], was[Import!Listed[i]]>> : i \in 1 .. q.next - 1}
    BY <2>1, <2>2, <2>3 DEF CommitOf, DraftOf
  <2>5. Len(q.body.parsed.valid) = NamesListed /\ NamesListed \in Nat
    BY <2>4, BareParsed, ListedIs
  <2>6. q.next - 1 = NamesListed
    BY <2>4, <2>5
  <2>7. q.wrote = {<<Import!Listed[i], was[Import!Listed[i]]>> : i \in 1 .. NamesListed}
    BY <2>4, <2>6
  <2>8. /\ \A i \in 1 .. NamesListed : Import!Listed[i] \in DOMAIN Kind
        /\ \A k \in DOMAIN Kind : \E i \in 1 .. NamesListed : Import!Listed[i] = k
    BY ListedIs
  <2>9. {<<Import!Listed[i], was[Import!Listed[i]]>> : i \in 1 .. NamesListed}
          = {<<k, was[k]>> : k \in DOMAIN Kind}
    BY <2>8
  <2> QED
    BY <2>3, <2>7, <2>9
<1>5. Import!CommitsOverlapOnlyAfterTrouble
  <2> SUFFICES ASSUME ~trouble
               PROVE  \A q, r \in Import!Commits : ~Import!Overlapping(q, r)
    BY DEF Import!CommitsOverlapOnlyAfterTrouble
  <2>1. \A q, r \in Committing : q.n = r.n => q = r
    BY <1>1 DEF Untroubled, OneCommitEach
  <2>2. Import!Commits = Committing
    BY DEF Import!Commits, Committing
  <2> QED
    BY <2>1, <2>2 DEF Import!Overlapping
<1> QED
  BY <1>2, <1>3, <1>4, <1>5 DEF ImportInv, ImportsAreAnnounced

-----------------------------------------------------------------------------
(* The pages together. *)

\* A step of the pages is a step of one of them, and none of the others.
LEMMA PagesStep ==
  ASSUME [PagesNext]_pageVars
  PROVE  /\ [Desk!Next]_(Desk!vars) /\ [Next]_vars
         /\ [Import!Next]_(Import!vars) /\ [Form!Next]_(Form!vars)
<1>1. /\ Desk!vars = deskVars /\ Import!vars = importVars /\ Form!vars = settingVars
  BY DEF Desk!vars, deskVars, Import!vars, importVars, Form!vars, settingVars
<1>2. /\ Desk!Next \/ UNCHANGED deskVars
      /\ Next \/ UNCHANGED vars
      /\ Import!Next \/ UNCHANGED importVars
      /\ Form!Next \/ UNCHANGED settingVars
  BY DEF PagesNext, pageVars
<1>3. UNCHANGED deskVars => UNCHANGED Desk!vars
  BY DEF Desk!vars, deskVars
<1>4. UNCHANGED importVars => UNCHANGED Import!vars
  BY DEF Import!vars, importVars
<1>5. UNCHANGED settingVars => UNCHANGED Form!vars
  BY DEF Form!vars, settingVars
<1> QED
  BY <1>2, <1>3, <1>4, <1>5

\* A behaviour of the pages is one of each of them (the pages of the web client
\* share no state).
THEOREM PagesAreApart == PagesSpec => Desk!Spec /\ Spec /\ Import!Spec /\ Form!Spec
<1>1. PagesInit => Desk!Init /\ Init /\ Import!Init /\ Form!Init
  BY DEF PagesInit
<1> QED
  BY <1>1, PagesStep, PTL DEF PagesSpec, Desk!Spec, Spec, Import!Spec, Form!Spec

\* What the page of a loan has loaded, asked for and sent.
LEMMA DeskInvAlways == Desk!Spec => []DeskInv
<1> QED
  BY DeskInit, DeskNext, PTL DEF Desk!Spec

\* What the import page has uploaded, previewed, sent and logged.
LEMMA ImportInvAlways == Import!Spec => []ImportInv
<1> QED
  BY ImportInit, ImportNext, PTL DEF Import!Spec

\* A sheet that was imported the same day is announced before it is imported again,
\* an export that was not edited is refused with the lines above its header and
\* writes back what it was made from without them, and a preview accounts for every
\* row (excel.service.ts parseToRows, ImportService.preview and commit).
THEOREM ImportsAreAnnouncedAlways == PagesSpec => []ImportsAreAnnounced
<1> QED
  BY ImportShows, PagesAreApart, ImportInvAlways, PTL

\* A button that a current page offers is accepted but for what the page cannot
\* know, one quote settles a loan, and a rebate that is given on a quote was given
\* on one that expired (page.tsx, ForeclosureService).
THEOREM DeskAgreesWithServerAlways == PagesSpec => []DeskAgreesWithServer
<1>1. DeskInv => DeskAgreesWithServer
  BY CurrentPageIsAccepted DEF DeskInv, DeskTyped, DeskAgreesWithServer
<1> QED
  BY <1>1, PagesAreApart, DeskInvAlways, PTL

\* What a form shows as changed was typed into it, the table of holidays is the
\* calendar unless someone else changed it, and a setting changes only to what was
\* typed for it (SettingsSection, HolidaySection).
THEOREM FormsFollowTheTableAlways == PagesSpec => FormsFollowTheTable
<1>1. Form!Init => FormInv
  BY FormInit
<1>2. FormInv /\ [Form!Next]_(Form!vars) => FormInv' /\ Honest
  <2>1. CASE Form!Next
    BY <2>1, FormNext, PagesAssumption
  <2>2. CASE UNCHANGED Form!vars
    BY <2>2 DEF Form!vars, FormInv, FormTyped, FormOf, Form!TableIsTheCalendar, Honest
  <2> QED
    BY <2>1, <2>2
<1>3. Form!Spec => []FormInv
  BY <1>1, <1>2, PTL DEF Form!Spec
<1>4. FormInv => (screen = "settings" =>
                   Form!TypeOK /\ Form!OnlyEditsAreDirty /\ Form!TableIsTheCalendar)
  BY FormShows
<1>5. Form!Spec => Form!SavesWriteEdits
  <2>1. Form!Spec => [][Honest]_(Form!vars)
    BY <1>2, <1>3, PTL DEF Form!Spec
  <2> QED
    BY <2>1 DEF Form!SavesWriteEdits, Honest
<1> QED
  BY <1>3, <1>4, <1>5, PagesAreApart, PTL DEF FormsFollowTheTable

==============================================================================
