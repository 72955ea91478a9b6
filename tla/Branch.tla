------------------------------- MODULE Branch -------------------------------
(***************************************************************************)
(* A group in the field office, made in the application or brought in by   *)
(* the migration of the legacy books.  One group is followed: the first    *)
(* that comes to exist.  The migration writes what its files say, without  *)
(* the limits and the checks of GroupService.                              *)
(***************************************************************************)
EXTENDS Groups, Migration

branchVars == <<groupVars, migrationVars>>

BranchInit == GroupsInit /\ MigrationInit

\* The unpaid installments of a migrated loan.
Unpaid(schedule) ==
  Total(Len(schedule), [i \in DOMAIN schedule |->
          IF schedule[i].paid THEN 0 ELSE schedule[i].principal + schedule[i].interest])

\* The transaction of commit() brings the followed group in with its members
\* and its loans.
BringIn(g, written) ==
  LET customers == SetToSeq({r.customer : r \in {m \in written :
                                      m.kind = "member" /\ m.group = g}})
  IN  /\ group' = "active"
      /\ members' = [i \in DOMAIN customers |-> Member(customers[i])]
      /\ loans' = [l \in Loans |->
           IF \E r \in written : r.kind = "loan" /\ r.id = l
           THEN Begun(Unpaid((CHOOSE r \in written : r.kind = "loan" /\ r.id = l).schedule))
           ELSE loans[l]]
      /\ UNCHANGED <<books, posted, singles, stored, lock, call, made>>

CommitMigration(a) ==
  LET groups == {r \in commit[a].written : r.kind = "group"}
  IN  /\ CommitTx(a)
      /\ IF group = "none" /\ groups # {}
         THEN \E r \in groups : BringIn(r.id, commit[a].written)
         ELSE UNCHANGED groupVars

\* The process restarts: every request under way is gone and rolled back.
Restart ==
  /\ MigrationRestart
  /\ lock' = [r \in DOMAIN lock |-> Nobody]
  /\ call' = [p \in Clerks |-> NoRequest]
  /\ UNCHANGED <<group, members, loans, books, posted, singles, stored, made>>

\* Bounds: the group is left alone while a migration is under way, and migrations
\* go on only while nothing was done in the application.  Until the commit, the
\* two have no row in common.
Untouched ==
  /\ group = "none" \/ settled # {}
  /\ made = 0
  /\ \A l \in Loans : singles[l] = 0
Quiet == DOMAIN drafts = {} /\ \A a \in Admins : commit[a].pc = "idle"

BranchNext ==
  \/ Quiet /\ GroupsNext /\ UNCHANGED migrationVars
  \/ \E a \in Admins : Untouched /\ Prepare(a) /\ UNCHANGED groupVars
  \/ \E d \in DOMAIN drafts : EvictExpired(d) /\ UNCHANGED groupVars
  \/ \E a \in Admins : CommitMigration(a)
  \/ Restart

\* A statement runs when its row is free, and PostgreSQL looks for deadlocks.
\* The number of requests is bounded, so no wait is overtaken for ever.
Fairness ==
  /\ \A p \in Clerks : WF_branchVars(Proceed(p) /\ UNCHANGED migrationVars)
  /\ WF_branchVars((\E p \in Clerks : DeadlockDetected(p)) /\ UNCHANGED migrationVars)

BranchSpec == BranchInit /\ [][BranchNext]_branchVars /\ Fairness

-----------------------------------------------------------------------------
BranchTypeOK == GroupsTypeOK /\ MigrationTypeOK
=============================================================================
