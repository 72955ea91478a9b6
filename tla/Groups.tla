------------------------------- MODULE Groups -------------------------------
(***************************************************************************)
(* One customer group: its members, the loans booked under it, and the     *)
(* group collections posted for it.  A request of a clerk is a transaction *)
(* of several statements; PostgreSQL runs it READ COMMITTED and holds its  *)
(* row locks to the end.  addMember and removeMember lock the row of the   *)
(* group; postGroupCollection inserts its own row and then locks the loans *)
(* one after another, in the order of the request, so that two of them can *)
(* wait for each other.                                                    *)
(***************************************************************************)
EXTENDS Paise, Sequences, FiniteSets

CONSTANTS
  Customers, Loans, RequestKeys,
  CustomerOf,    \* customer of each loan
  Lent,          \* what the borrower of each loan owes in all
  Breakdowns,    \* memberBreakdown of the requests: sequences of [loan, amount]
  Clerks,        \* requests that may be under way at once
  MIN_GROUP_SIZE, MAX_GROUP_SIZE,
  MaxRequests,   \* bound: requests ever made
  MaxRows,       \* bound: rows of group_members
  Nobody

ASSUME GroupsAssumption ==
  /\ CustomerOf \in [Loans -> Customers]
  /\ Lent \in [Loans -> Nat]
  /\ Breakdowns \subseteq Seq([loan : Loans, amount : Nat])
  /\ MIN_GROUP_SIZE \in Nat /\ MAX_GROUP_SIZE \in Nat
  /\ MaxRequests \in Nat /\ MaxRows \in Nat
  /\ Nobody \notin Clerks

VARIABLES
  group,    \* status of the row of groups, "none" before it exists
  members,  \* group_members, in the order they are inserted
  loans,    \* status of each loan, what it began with and what is still owed
  books,    \* group_collections: key and breakdown
  posted,   \* collections a group collection posted, in the order they are inserted
  singles,  \* what each loan has collected outside of group collections
  stored,   \* idempotency_keys
  lock,     \* holder of each row, or of a unique key that is being inserted
  call,     \* the request of each clerk
  made      \* requests made so far

groupVars == <<group, members, loans, books, posted, singles, stored, lock, call, made>>

Member(c) == [customer |-> c, active |-> TRUE]
ActiveRows == {i \in DOMAIN members : members[i].active}
ActiveCustomers == {members[i].customer : i \in ActiveRows}
Begun(owes) == [status |-> "active", began |-> owes, owes |-> owes]
LiveLoans(c) == {l \in Loans : CustomerOf[l] = c /\ loans[l].status = "active"}

Free(r) == lock[r] = Nobody
NoRequest == [op |-> "idle", pc |-> "idle"]

GroupsInit ==
  /\ group = "none"
  /\ members = <<>>
  /\ loans = [l \in Loans |-> [status |-> "approved", began |-> 0, owes |-> 0]]
  /\ books = {}
  /\ posted = <<>>
  /\ singles = [l \in Loans |-> 0]
  /\ stored = {}
  /\ lock = [r \in {"group"} \union Loans \union RequestKeys |-> Nobody]
  /\ call = [p \in Clerks |-> NoRequest]
  /\ made = 0

\* Slip: the transaction ends and its locks stay.
StillLocked(p) == lock

Unlocked(p) == [r \in DOMAIN lock |-> IF lock[r] = p THEN Nobody ELSE lock[r]]

\* COMMIT or ROLLBACK, and the answer to the clerk.
End(p) ==
  /\ lock' = Unlocked(p)
  /\ call' = [call EXCEPT ![p] = NoRequest]

Goto(p, pc) == call' = [call EXCEPT ![p].pc = pc]
Ask(p, request) ==
  /\ call[p] = NoRequest
  /\ made < MaxRequests
  /\ made' = made + 1
  /\ call' = [call EXCEPT ![p] = request]
  /\ UNCHANGED <<group, members, loans, books, posted, singles, stored, lock>>

-----------------------------------------------------------------------------
(* Membership *)

\* The group and its leader as first member, in one transaction.
CreateGroup(leader) ==
  /\ group = "none"
  /\ group' = "active"
  /\ members' = <<Member(leader)>>
  /\ UNCHANGED <<loans, books, posted, singles, stored, lock, call, made>>

AskAdd(p, c) == group # "none" /\ Ask(p, [op |-> "add", pc |-> "asked", customer |-> c])
AskRemove(p, i) == Ask(p, [op |-> "remove", pc |-> "asked", row |-> i])

\* What the transactions check under the lock.
MayAdd(c) ==
  /\ group = "active"
  /\ c \notin ActiveCustomers
  /\ Cardinality(ActiveRows) < MAX_GROUP_SIZE
  /\ Len(members) < MaxRows

MayRemove(i) ==
  /\ members[i].active
  /\ Cardinality(ActiveRows) > MIN_GROUP_SIZE
  /\ LiveLoans(members[i].customer) = {}

Allowed(request) ==
  IF request.op = "add" THEN MayAdd(request.customer) ELSE MayRemove(request.row)

LockGroup(p) ==
  /\ Free("group")
  /\ lock' = [lock EXCEPT !["group"] = p]

\* The group row is locked; the checks read what is committed by then.
LockAndCheck(p) ==
  /\ call[p].op \in {"add", "remove"} /\ call[p].pc = "asked"
  /\ IF Allowed(call[p])
     THEN LockGroup(p) /\ Goto(p, "checked")
     ELSE Free("group") /\ UNCHANGED lock /\ call' = [call EXCEPT ![p] = NoRequest]
  /\ UNCHANGED <<group, members, loans, books, posted, singles, stored, made>>

AddMember(p) ==
  /\ call[p].op = "add" /\ call[p].pc = "checked"
  /\ members' = Append(members, Member(call[p].customer))
  /\ End(p)
  /\ UNCHANGED <<group, loans, books, posted, singles, stored, made>>

RemoveMember(p) ==
  /\ call[p].op = "remove" /\ call[p].pc = "checked"
  /\ members' = [members EXCEPT ![call[p].row].active = FALSE]
  /\ End(p)
  /\ UNCHANGED <<group, loans, books, posted, singles, stored, made>>

-----------------------------------------------------------------------------
(* Group collections *)

\* Loans a group collection may name: live, and of active members.
Collectable == {l \in Loans : loans[l].status = "active" /\ CustomerOf[l] \in ActiveCustomers}

\* The key, the group and the loans are looked at before the transaction.  A
\* request whose key has a result is answered with it and changes nothing.
AskCollect(p, k, parts) ==
  /\ k \notin stored
  /\ group = "active"
  /\ \A i \in DOMAIN parts : parts[i].loan \in Collectable
  /\ Ask(p, [op |-> "collect", pc |-> "asked", key |-> k, parts |-> parts,
             next |-> 1, after |-> [l \in {} |-> 0]])

\* The row of group_collections, with its unique key.
OpenBook(p) ==
  /\ call[p].op = "collect" /\ call[p].pc = "asked"
  /\ Free(call[p].key)
  /\ \A b \in books : b.key # call[p].key
  /\ lock' = [lock EXCEPT ![call[p].key] = p]
  /\ Goto(p, "posting")
  /\ UNCHANGED <<group, members, loans, books, posted, singles, stored, made>>

BookExists(p) ==
  /\ call[p].op = "collect" /\ call[p].pc = "asked"
  /\ Free(call[p].key)
  /\ \E b \in books : b.key = call[p].key
  /\ End(p)
  /\ UNCHANGED <<group, members, loans, books, posted, singles, stored, made>>

Posting(p) ==
  /\ call[p].op = "collect" /\ call[p].pc = "posting"
  /\ call[p].next <= Len(call[p].parts)

\* Slip: the loan is read without FOR UPDATE.
NoLoanLock(p, l) == UNCHANGED lock

LockLoan(p, l) ==
  /\ lock[l] \in {Nobody, p}
  /\ lock' = [lock EXCEPT ![l] = p]

\* executeCollection accepts: the loan is live, owes that much, and the key
\* <key>__member__<loan> is new.
Accepts(p, part) ==
  /\ loans[part.loan].status = "active"
  /\ part.amount <= loans[part.loan].owes
  /\ part.loan \notin DOMAIN call[p].after

\* executeCollection for the next member, inside the transaction.
PostPart(p) ==
  LET part == call[p].parts[call[p].next]
  IN  /\ Posting(p)
      /\ Accepts(p, part)
      /\ LockLoan(p, part.loan)
      /\ call' = [call EXCEPT
                    ![p].next = @ + 1,
                    ![p].after = [l \in DOMAIN @ \union {part.loan} |->
                       IF l = part.loan THEN loans[l].owes - part.amount ELSE @[l]]]
      /\ UNCHANGED <<group, members, loans, books, posted, singles, stored, made>>

\* One member is refused: the whole group collection rolls back.
RefusePart(p) ==
  LET part == call[p].parts[call[p].next]
  IN  /\ Posting(p)
      /\ lock[part.loan] \in {Nobody, p}
      /\ ~ Accepts(p, part)
      /\ End(p)
      /\ UNCHANGED <<group, members, loans, books, posted, singles, stored, made>>

Row(k, part) == [key |-> k, loan |-> part.loan, amount |-> part.amount]

CommitCollect(p) ==
  LET c == call[p]
  IN  /\ c.op = "collect" /\ c.pc = "posting"
      /\ c.next = Len(c.parts) + 1
      /\ books' = books \union {[key |-> c.key, parts |-> c.parts]}
      /\ posted' = posted \o [i \in DOMAIN c.parts |-> Row(c.key, c.parts[i])]
      /\ stored' = stored \union {c.key}
      /\ loans' = [l \in Loans |-> IF l \in DOMAIN c.after
                                   THEN [loans[l] EXCEPT !.owes = c.after[l]]
                                   ELSE loans[l]]
      /\ End(p)
      /\ UNCHANGED <<group, members, singles, made>>

-----------------------------------------------------------------------------
(* PostgreSQL *)

\* The row or key the next statement of p needs.
Wants(p) ==
  CASE call[p].op \in {"add", "remove"} /\ call[p].pc = "asked" -> {"group"}
    [] call[p].op = "collect" /\ call[p].pc = "asked" -> {call[p].key}
    [] Posting(p) -> {call[p].parts[call[p].next].loan}
    [] OTHER -> {}

WaitsFor(p, q) == p # q /\ \E r \in Wants(p) : lock[r] = q

InCycle(p) ==
  \E S \in SUBSET Clerks :
    /\ p \in S
    /\ \A x \in S : \E y \in S : WaitsFor(x, y)
    /\ \A y \in S : \E x \in S : WaitsFor(x, y)

Abort(p) ==
  /\ End(p)
  /\ UNCHANGED <<group, members, loans, books, posted, singles, stored, made>>

\* deadlock_timeout: one of the transactions of a cycle is refused.
DeadlockDetected(p) == InCycle(p) /\ Abort(p)

\* The timeout of an interactive transaction, or a lost connection.
TxTimeout(p) == call[p].pc \in {"asked", "checked", "posting"} /\ Abort(p)

-----------------------------------------------------------------------------
(* What else happens to the loans of the group *)

Disburse(l) ==
  /\ group # "none"
  /\ loans[l].status = "approved"
  /\ loans' = [loans EXCEPT ![l] = Begun(Lent[l])]
  /\ UNCHANGED <<group, members, books, posted, singles, stored, lock, call, made>>

\* postCollection: one lock, taken and given back in one transaction.
PostSingle(l, amount) ==
  /\ Free(l)
  /\ loans[l].status = "active"
  /\ amount \in 1..loans[l].owes
  /\ loans' = [loans EXCEPT ![l].owes = @ - amount]
  /\ singles' = [singles EXCEPT ![l] = @ + amount]
  /\ UNCHANGED <<group, members, books, posted, stored, lock, call, made>>

Close(l) ==
  /\ Free(l)
  /\ loans[l].status = "active" /\ loans[l].owes = 0
  /\ loans' = [loans EXCEPT ![l].status = "closed"]
  /\ UNCHANGED <<group, members, books, posted, singles, stored, lock, call, made>>

-----------------------------------------------------------------------------
Proceed(p) ==
  \/ LockAndCheck(p)
  \/ AddMember(p)
  \/ RemoveMember(p)
  \/ OpenBook(p)
  \/ BookExists(p)
  \/ PostPart(p)
  \/ RefusePart(p)
  \/ CommitCollect(p)

Request(p) ==
  \/ \E c \in Customers : AskAdd(p, c)
  \/ \E i \in DOMAIN members : AskRemove(p, i)
  \/ \E k \in RequestKeys, parts \in Breakdowns : AskCollect(p, k, parts)

GroupsNext ==
  \/ \E c \in Customers : CreateGroup(c)
  \/ \E p \in Clerks : Request(p)
  \/ \E p \in Clerks : Proceed(p)
  \/ \E p \in Clerks : DeadlockDetected(p)
  \/ \E p \in Clerks : TxTimeout(p)
  \/ \E l \in Loans : Disburse(l)
  \/ \E l \in Loans : \E amount \in 1..Lent[l] : PostSingle(l, amount)
  \/ \E l \in Loans : Close(l)

-----------------------------------------------------------------------------
(* Properties *)

GroupsTypeOK ==
  /\ group \in {"none", "active", "inactive", "dissolved"}
  /\ \A i \in DOMAIN members : members[i].customer \in Customers /\ members[i].active \in BOOLEAN
  /\ \A l \in Loans :
       /\ loans[l].status \in {"approved", "active", "closed"}
       /\ loans[l].owes \in 0..loans[l].began
  /\ stored \subseteq RequestKeys
  /\ \A r \in DOMAIN lock : lock[r] \in Clerks \union {Nobody}
  /\ made \in 0..MaxRequests

InAll(parts) == Total(Len(parts), [i \in DOMAIN parts |-> parts[i].amount])
RowsOfKey(k) == {i \in DOMAIN posted : posted[i].key = k}
CollectedUnder(k) ==
  Total(Len(posted), [i \in DOMAIN posted |-> IF posted[i].key = k THEN posted[i].amount ELSE 0])
CollectedFrom(l) ==
  Total(Len(posted), [i \in DOMAIN posted |-> IF posted[i].loan = l THEN posted[i].amount ELSE 0])

(* A group collection is one: for every key, the posted collections of members
   are those of the breakdown of one committed group collection and add up to
   its total; and no payment is lost, whatever overlaps, is refused or rolls
   back: a loan owes what it began with less what was collected
   (GroupService.postGroupCollection, executeCollection). *)
GroupCollectionsWhole ==
  /\ \A b \in books :
       /\ {posted[i] : i \in RowsOfKey(b.key)} = {Row(b.key, b.parts[i]) : i \in DOMAIN b.parts}
       /\ CollectedUnder(b.key) = InAll(b.parts)
  /\ \A i \in DOMAIN posted : \E b \in books : b.key = posted[i].key
  /\ \A b1, b2 \in books : b1.key = b2.key => b1 = b2
  /\ {b.key : b \in books} = stored
  /\ \A l \in Loans : loans[l].owes = loans[l].began - singles[l] - CollectedFrom(l)

(* However additions and removals overlap, nobody is a member twice, an
   addition leaves at most MAX_GROUP_SIZE members and a removal at least
   MIN_GROUP_SIZE (GroupService.addMember, removeMember). *)
MembershipKept ==
  LET before == ActiveRows
      after == ActiveRows'
  IN  group # "none" =>
        /\ Cardinality(ActiveCustomers') = Cardinality(after)
        /\ before \subseteq after /\ before # after => Cardinality(after) <= MAX_GROUP_SIZE
        /\ after \subseteq before /\ before # after => Cardinality(after) >= MIN_GROUP_SIZE

(* No step of any clerk breaks either: what a group collection wrote, and what
   the group is. *)
GroupsStayWhole ==
  [][GroupCollectionsWhole' /\ MembershipKept]_<<group, members, books, posted, stored, loans, singles>>

(* Every request of a clerk is answered, although two group collections may
   lock their loans in opposite orders: PostgreSQL refuses one of them and its
   locks are given back (GroupService.postGroupCollection). *)
RequestsEnd == \A p \in Clerks : call[p] # NoRequest ~> call[p] = NoRequest
=============================================================================
