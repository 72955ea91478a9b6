------------------------ MODULE LoanLifecycle_proofs ------------------------
(***************************************************************************)
(* What overlapping requests keep of the approval workflow, the schedule   *)
(* and the product versions, for any number of loans, customers and staff. *)
(*                                                                         *)
(* A handler acts on a row it read before.  DecisionsInv says why the      *)
(* version it asks for is enough: the status of a loan that is not paid    *)
(* out moves only together with its version.                               *)
(*                                                                         *)
(* In this order: who signed, the schedule once paid, the versions of the  *)
(* product, the refinement of the workflow, what the generator of          *)
(* schedules computes for every input, and the types with the schedule in  *)
(* force.                                                                  *)
(***************************************************************************)
EXTENDS LoanLifecycle, Paise_proofs, FiniteSetTheorems

Decisions == {"submitted", "under_review", "approved", "rejected"}
Before == {"draft", "submitted", "under_review", "approved", "rejected"}
PaidOut == {"active", "overdue", "closed", "foreclosed"}

Fields == {"status", "version", "customer", "terms", "principal", "tenure", "maker", "approver",
           "rows", "totalInterest", "firstDue", "lastDue", "disbursedOn", "collected"}

Entries == [to : Decisions \union {"draft", "disbursed", "active"}, by : Staff]

\* The shape of the rows, as far as the proofs need it.
IsLoan(loan) ==
  DOMAIN loan = Fields /\ loan.status \in Before \union PaidOut /\ loan.version \in Nat

Shaped ==
  /\ loans = [l \in Loans |-> loans[l]]
  /\ requests = [a \in Staff |-> requests[a]]
  /\ history \in [Loans -> Seq(Entries)]
  /\ \A l \in Loans : Exists(l) => IsLoan(loans[l])

\* A decision whose version is still that of its loan is still allowed, and an
\* approval was asked for by somebody who may give it.
DecisionsInv ==
  \A a \in Staff :
    /\ requests[a].op \in Decisions \union {"disburse", "regenerate"} =>
         requests[a].loan \in Loans /\ Exists(requests[a].loan)
    /\ requests[a].op \in Decisions =>
         LET loan == loans[requests[a].loan]
         IN  /\ requests[a].version \in Nat /\ requests[a].version <= loan.version
             /\ requests[a].version = loan.version => requests[a].op \in Allowed(loan.status)
             /\ requests[a].op = "approved" => loan.maker # a \/ a \in Bypass

\* What a row of history says of its loan.
Sound(loan, h) ==
  /\ h.to = "approved" =>
       /\ loan # Absent /\ loan.status \in {"approved"} \union PaidOut
       /\ loan.approver = h.by /\ (h.by = loan.maker => h.by \in Bypass)
  /\ h.to = "disbursed" =>
       /\ loan # Absent /\ loan.status \in PaidOut
       /\ h.by = loan.approver => h.by \in Bypass

HistoryInv == \A l \in Loans : \A i \in DOMAIN history[l] : Sound(loans[l], history[l][i])

CollectedInv ==
  \A l \in Loans : Exists(l) /\ loans[l].collected => loans[l].status \in PaidOut

LifecycleInv == Shaped /\ DecisionsInv /\ HistoryInv /\ CollectedInv

LEMMA AllowedIs ==
  /\ \A s : "submitted" \in Allowed(s) => s = "draft"
  /\ \A s : "under_review" \in Allowed(s) => s = "submitted"
  /\ \A s : "approved" \in Allowed(s) => s = "under_review"
  /\ \A s : "rejected" \in Allowed(s) => s = "under_review"
  /\ \A s : "disbursed" \in Allowed(s) => s = "approved"
BY DEF Allowed

LEMMA InitLifecycle == Init => LifecycleInv
BY DEF Init, LifecycleInv, Shaped, DecisionsInv, HistoryInv, CollectedInv, Exists, Idle, Decisions

-----------------------------------------------------------------------------
(* What a step may do to a loan, and what it then keeps. *)

\* A loan keeps its maker; its version does not go back, and stands only while
\* its status does, or once it is paid out.
Evolves(old, new) ==
  /\ new # Absent
  /\ new.maker = old.maker
  /\ old.version <= new.version
  /\ new.version = old.version => new.status = old.status \/ old.status \in PaidOut

LEMMA DecisionsKept ==
  ASSUME Shaped, Shaped', DecisionsInv,
         \A l \in Loans : Exists(l) => loans'[l] = loans[l] \/ Evolves(loans[l], loans'[l]),
         \A a \in Staff : \/ requests'[a] = requests[a]
                          \/ requests'[a].op \notin Decisions \union {"disburse", "regenerate"}
  PROVE  DecisionsInv'
<1> SUFFICES ASSUME NEW a \in Staff, requests'[a] = requests[a],
                    requests[a].op \in Decisions \union {"disburse", "regenerate"}
             PROVE  /\ requests[a].loan \in Loans /\ loans'[requests[a].loan] # Absent
                    /\ requests[a].op \in Decisions =>
                         LET loan == loans'[requests[a].loan]
                         IN  /\ requests[a].version \in Nat /\ requests[a].version <= loan.version
                             /\ requests[a].version = loan.version =>
                                  requests[a].op \in Allowed(loan.status)
                             /\ requests[a].op = "approved" => loan.maker # a \/ a \in Bypass
  BY DEF DecisionsInv, Exists, Decisions
<1> DEFINE r == requests[a]
           old == loans[r.loan]
           new == loans'[r.loan]
<1>1. r.loan \in Loans /\ old # Absent
  BY DEF DecisionsInv, Exists
<1>2. new = old \/ Evolves(old, new)
  BY <1>1 DEF Exists
<1>3. new # Absent
  BY <1>1, <1>2 DEF Evolves
<1>4. IsLoan(old) /\ IsLoan(new)
  BY <1>1, <1>3 DEF Shaped, Exists
<1>5. ASSUME r.op \in Decisions
      PROVE  /\ r.version \in Nat /\ r.version <= new.version
             /\ r.version = new.version => r.op \in Allowed(new.status)
             /\ r.op = "approved" => new.maker # a \/ a \in Bypass
  <2>1. /\ r.version \in Nat /\ r.version <= old.version
        /\ r.version = old.version => r.op \in Allowed(old.status)
        /\ r.op = "approved" => old.maker # a \/ a \in Bypass
    BY <1>5 DEF DecisionsInv
  <2> HIDE DEF r, old, new
  <2>2. old.version \in Nat /\ new.version \in Nat
    BY <1>4 DEF IsLoan
  <2>3. CASE new = old
    BY <2>1, <2>3
  <2>4. CASE Evolves(old, new)
    <3>1. r.version <= new.version
      BY <2>1, <2>2, <2>4 DEF Evolves
    <3>2. ASSUME r.version = new.version PROVE r.op \in Allowed(new.status)
      <4>1. r.version = old.version /\ new.version = old.version
        BY <2>1, <2>2, <2>4, <3>2 DEF Evolves
      <4>2. r.op \in Allowed(old.status)
        BY <2>1, <4>1
      <4>3. old.status \notin PaidOut
        BY <1>5, <4>2, AllowedIs DEF Decisions, PaidOut
      <4> QED
        BY <2>4, <4>1, <4>2, <4>3 DEF Evolves
    <3> QED
      BY <2>1, <2>4, <3>1, <3>2 DEF Evolves
  <2> QED
    BY <1>2, <2>3, <2>4
<1> QED
  BY <1>1, <1>3, <1>5

\* A history row stays sound while its loan goes forward under the same hands.
Onward(old, new) ==
  /\ new # Absent /\ new.maker = old.maker
  /\ old.status \in {"approved"} \union PaidOut =>
       new.approver = old.approver /\ new.status \in {"approved"} \union PaidOut
  /\ old.status \in PaidOut => new.status \in PaidOut

LEMMA SoundOnward ==
  ASSUME NEW old, NEW new, NEW h, Sound(old, h), new = old \/ Onward(old, new)
  PROVE  Sound(new, h)
BY DEF Sound, Onward

\* One more row of history, or none, for one loan.
LEMMA HistoryGrown ==
  ASSUME Shaped, HistoryInv, NEW l \in Loans, NEW h \in Entries,
         history' = [history EXCEPT ![l] = Append(@, h)],
         \A k \in Loans : loans'[k] = loans[k] \/ Onward(loans[k], loans'[k]),
         Sound(loans'[l], h)
  PROVE  HistoryInv' /\ history' \in [Loans -> Seq(Entries)]
<1>1. history[l] \in Seq(Entries)
  BY DEF Shaped
<1>2. /\ history' \in [Loans -> Seq(Entries)]
      /\ history'[l] = Append(history[l], h)
      /\ \A k \in Loans : k # l => history'[k] = history[k]
  BY <1>1 DEF Shaped
<1>3. ASSUME NEW k \in Loans, NEW i \in DOMAIN history[k]
      PROVE  Sound(loans'[k], history[k][i])
  BY SoundOnward DEF HistoryInv
<1>4. ASSUME NEW i \in DOMAIN history'[l] PROVE Sound(loans'[l], history'[l][i])
  <2>1. \/ i \in DOMAIN history[l] /\ history'[l][i] = history[l][i]
        \/ history'[l][i] = h
    BY <1>1, <1>2
  <2> QED
    BY <1>3, <2>1
<1> QED
  BY <1>2, <1>3, <1>4 DEF HistoryInv

LEMMA HistoryStands ==
  ASSUME HistoryInv, UNCHANGED history,
         \A k \in Loans : loans'[k] = loans[k] \/ Onward(loans[k], loans'[k])
  PROVE  HistoryInv'
BY SoundOnward DEF HistoryInv

\* A step that changes no loan and adds no history.
LEMMA RequestsOnly ==
  ASSUME LifecycleInv, UNCHANGED <<loans, history>>,
         requests' = [a \in Staff |-> requests'[a]],
         \A a \in Staff : \/ requests'[a] = requests[a]
                          \/ requests'[a].op \notin Decisions \union {"disburse", "regenerate"}
  PROVE  LifecycleInv'
<1>1. Shaped'
  BY DEF LifecycleInv, Shaped, Exists, IsLoan
<1>2. DecisionsInv'
  BY <1>1, DecisionsKept DEF LifecycleInv
<1>3. HistoryInv' /\ CollectedInv'
  BY DEF LifecycleInv, HistoryInv, CollectedInv, Exists, Sound
<1> QED
  BY <1>1, <1>2, <1>3 DEF LifecycleInv

\* A member of staff is left with a request that is none of the decisions.
LEMMA Turned ==
  ASSUME LifecycleInv, NEW a \in Staff, NEW r,
         r.op \notin Decisions \union {"disburse", "regenerate"},
         requests' = [requests EXCEPT ![a] = r]
  PROVE  /\ requests' = [b \in Staff |-> requests'[b]]
         /\ \A b \in Staff : \/ requests'[b] = requests[b]
                             \/ requests'[b].op \notin Decisions \union {"disburse", "regenerate"}
<1>1. requests' = [b \in Staff |-> IF b = a THEN r ELSE requests[b]]
  BY DEF LifecycleInv, Shaped
<1> QED
  BY <1>1

LEMMA DoneTurns ==
  ASSUME LifecycleInv, NEW a \in Staff, Done(a)
  PROVE  /\ requests' = [b \in Staff |-> requests'[b]]
         /\ \A b \in Staff : \/ requests'[b] = requests[b]
                             \/ requests'[b].op \notin Decisions \union {"disburse", "regenerate"}
<1>1. Idle.op \notin Decisions \union {"disburse", "regenerate"}
  BY DEF Idle, Decisions
<1> QED
  BY <1>1, Turned DEF Done

\* One loan is written, by a request that is done with it.
LEMMA LoanWritten ==
  ASSUME LifecycleInv, NEW l \in Loans, NEW new,
         loans' = [loans EXCEPT ![l] = new], IsLoan(new),
         ~ Exists(l) \/ Evolves(loans[l], new),
         history' \in [Loans -> Seq(Entries)], HistoryInv',
         requests' = [b \in Staff |-> requests'[b]],
         \A b \in Staff : \/ requests'[b] = requests[b]
                          \/ requests'[b].op \notin Decisions \union {"disburse", "regenerate"},
         new.collected => new.status \in PaidOut
  PROVE  LifecycleInv'
<1>1. /\ loans' = [k \in Loans |-> loans'[k]]
      /\ \A k \in Loans : loans'[k] = IF k = l THEN new ELSE loans[k]
  BY DEF LifecycleInv, Shaped
<1>2. Shaped'
  BY <1>1 DEF LifecycleInv, Shaped, Exists, IsLoan
<1>3. \A k \in Loans : Exists(k) => loans'[k] = loans[k] \/ Evolves(loans[k], loans'[k])
  BY <1>1
<1>4. DecisionsInv'
  BY <1>2, <1>3, DecisionsKept DEF LifecycleInv
<1>5. CollectedInv'
  BY <1>1 DEF LifecycleInv, CollectedInv, Exists
<1> QED
  BY <1>2, <1>4, <1>5 DEF LifecycleInv

-----------------------------------------------------------------------------
(* The actions. *)

LEMMA InsertKeeps ==
  ASSUME LifecycleInv, NEW a \in Staff, NEW l \in Loans, InsertLoan(a, l)
  PROVE  LifecycleInv'
<1> DEFINE r == requests[a]
           new == [status |-> "draft", version |-> 1, customer |-> r.customer,
                   terms |-> r.terms, principal |-> r.principal, tenure |-> r.tenure,
                   maker |-> a, approver |-> Nobody, rows |-> <<>>, totalInterest |-> 0,
                   firstDue |-> NoDay, lastDue |-> NoDay, disbursedOn |-> NoDay,
                   collected |-> FALSE]
           asked == [op |-> "created", loan |-> l]
<1>1. /\ ~ Exists(l) /\ loans' = [loans EXCEPT ![l] = new] /\ UNCHANGED history
      /\ requests' = [requests EXCEPT ![a] = asked]
  BY DEF InsertLoan, Ask
<1>2. IsLoan(new) /\ ~ new.collected
  BY DEF IsLoan, Fields, Before
<1>3. asked.op \notin Decisions \union {"disburse", "regenerate"}
  BY DEF Decisions
<1> HIDE DEF new, asked
<1>4. \A k \in Loans : k # l => loans'[k] = loans[k]
  BY <1>1 DEF LifecycleInv, Shaped
<1>5. ASSUME NEW i \in DOMAIN history[l], NEW x PROVE Sound(x, history[l][i])
  <2>1. Sound(Absent, history[l][i])
    BY <1>1 DEF LifecycleInv, HistoryInv, Exists
  <2> QED
    BY <2>1 DEF Sound
<1>6. HistoryInv'
  BY <1>1, <1>4, <1>5 DEF LifecycleInv, HistoryInv
<1> QED
  BY <1>1, <1>2, <1>3, <1>6, Turned, LoanWritten DEF LifecycleInv, Shaped

LEMMA RecordKeeps ==
  ASSUME LifecycleInv, NEW a \in Staff, RecordCreation(a)
  PROVE  LifecycleInv'
<1> DEFINE l == requests[a].loan
           h == [to |-> "draft", by |-> a]
<1>1. /\ history' = [history EXCEPT ![l] = Append(@, h)] /\ UNCHANGED loans /\ Done(a)
  BY DEF RecordCreation
<1>2. h \in Entries /\ \A x : Sound(x, h)
  BY DEF Entries, Sound
<1>3. HistoryInv' /\ history' \in [Loans -> Seq(Entries)]
  <2>1. CASE l \in Loans
    BY <1>1, <1>2, <2>1, HistoryGrown DEF LifecycleInv
  <2>2. CASE l \notin Loans
    <3>1. history' = history
      BY <1>1, <2>2 DEF LifecycleInv, Shaped
    <3> QED
      BY <1>1, <3>1, HistoryStands DEF LifecycleInv, Shaped
  <2> QED
    BY <2>1, <2>2
<1>4. Shaped'
  BY <1>1, <1>3, DoneTurns DEF LifecycleInv, Shaped, Exists, IsLoan
<1>5. DecisionsInv'
  BY <1>1, <1>4, DoneTurns, DecisionsKept DEF LifecycleInv
<1>6. CollectedInv'
  BY <1>1 DEF LifecycleInv, CollectedInv, Exists
<1> QED
  BY <1>3, <1>4, <1>5, <1>6 DEF LifecycleInv

LEMMA ReadDecisionKeeps ==
  ASSUME LifecycleInv, NEW a \in Staff, NEW l \in Loans, NEW to \in Decisions,
         NEW first, ReadDecision(a, l, to, first)
  PROVE  LifecycleInv'
<1> DEFINE start == IF first = NoDay THEN day ELSE StartFor(first, loans[l].terms.frequency)
           r == [op |-> to, loan |-> l, version |-> loans[l].version, start |-> start]
<1>1. /\ Exists(l) /\ to \in Allowed(loans[l].status)
      /\ to = "approved" => loans[l].maker # a \/ a \in Bypass
      /\ requests' = [requests EXCEPT ![a] = r]
      /\ UNCHANGED <<loans, history>>
  BY DEF ReadDecision, Ask, MayApprove
<1> HIDE DEF start
<1>2. r.op = to /\ r.loan = l /\ r.version = loans[l].version
  OBVIOUS
<1> HIDE DEF r
<1>3. /\ requests' = [b \in Staff |-> requests'[b]]
      /\ \A b \in Staff : requests'[b] = IF b = a THEN r ELSE requests[b]
  BY <1>1 DEF LifecycleInv, Shaped
<1>4. loans[l].version \in Nat
  BY <1>1 DEF LifecycleInv, Shaped, IsLoan
<1>5. DecisionsInv'
  <2> SUFFICES ASSUME NEW b \in Staff
               PROVE  /\ requests'[b].op \in Decisions \union {"disburse", "regenerate"} =>
                           requests'[b].loan \in Loans /\ loans[requests'[b].loan] # Absent
                      /\ requests'[b].op \in Decisions =>
                           LET loan == loans[requests'[b].loan]
                           IN  /\ requests'[b].version \in Nat /\ requests'[b].version <= loan.version
                               /\ requests'[b].version = loan.version =>
                                    requests'[b].op \in Allowed(loan.status)
                               /\ requests'[b].op = "approved" => loan.maker # b \/ b \in Bypass
    BY <1>1 DEF DecisionsInv, Exists
  <2>1. CASE b = a
    BY <1>1, <1>2, <1>3, <1>4, <2>1 DEF Exists
  <2>2. CASE b # a
    BY <1>3, <2>2 DEF LifecycleInv, DecisionsInv, Exists
  <2> QED
    BY <2>1, <2>2
<1>6. Shaped'
  BY <1>1, <1>3 DEF LifecycleInv, Shaped, Exists, IsLoan
<1>7. HistoryInv' /\ CollectedInv'
  BY <1>1 DEF LifecycleInv, HistoryInv, CollectedInv, Exists, Sound
<1> QED
  BY <1>5, <1>6, <1>7 DEF LifecycleInv

LEMMA ReadLoanKeeps ==
  ASSUME LifecycleInv, NEW a \in Staff, NEW l \in Loans, NEW first,
         ReadDisburse(a, l, first) \/ ReadRegenerate(a, l, first)
  PROVE  LifecycleInv'
<1>1. PICK r : /\ r.op \in {"disburse", "regenerate"} /\ r.loan = l
               /\ requests' = [requests EXCEPT ![a] = r]
  <2>1. /\ [op |-> "disburse", loan |-> l, first |-> first].loan = l
        /\ [op |-> "regenerate", loan |-> l, version |-> loans[l].version, first |-> first].loan = l
    OBVIOUS
  <2> QED
    BY <2>1 DEF ReadDisburse, ReadRegenerate, Ask
<1>2. Exists(l) /\ UNCHANGED <<loans, history>>
  BY DEF ReadDisburse, ReadRegenerate
<1>3. /\ requests' = [b \in Staff |-> requests'[b]]
      /\ \A b \in Staff : requests'[b] = IF b = a THEN r ELSE requests[b]
  BY <1>1 DEF LifecycleInv, Shaped
<1>4. DecisionsInv'
  BY <1>1, <1>2, <1>3 DEF LifecycleInv, DecisionsInv, Exists, Decisions
<1>5. Shaped'
  BY <1>2, <1>3 DEF LifecycleInv, Shaped, Exists, IsLoan
<1>6. HistoryInv' /\ CollectedInv'
  BY <1>2 DEF LifecycleInv, HistoryInv, CollectedInv, Exists, Sound
<1> QED
  BY <1>4, <1>5, <1>6 DEF LifecycleInv

\* A decision that is written was taken on the row as it is.
LEMMA DecisionAllowed ==
  ASSUME LifecycleInv, NEW a \in Staff, requests[a].op \in Decisions, StillAt(requests[a])
  PROVE  LET l == requests[a].loan
         IN  /\ l \in Loans /\ Exists(l) /\ IsLoan(loans[l])
             /\ requests[a].op \in Allowed(loans[l].status)
             /\ loans[l].status \in {"draft", "submitted", "under_review"}
             /\ ~ loans[l].collected
             /\ requests[a].op = "approved" =>
                  loans[l].status = "under_review" /\ (loans[l].maker = a => a \in Bypass)
<1> DEFINE l == requests[a].loan
<1>1. /\ l \in Loans /\ Exists(l) /\ requests[a].op \in Allowed(loans[l].status)
      /\ requests[a].op = "approved" => loans[l].maker # a \/ a \in Bypass
  BY DEF LifecycleInv, DecisionsInv, StillAt
<1>2. loans[l].status \in {"draft", "submitted", "under_review"}
  BY <1>1, AllowedIs DEF Decisions
<1>3. ~ loans[l].collected
  BY <1>1, <1>2 DEF LifecycleInv, CollectedInv, PaidOut
<1> QED
  BY <1>1, <1>2, <1>3, AllowedIs DEF LifecycleInv, Shaped

LEMMA DecideKeeps ==
  ASSUME LifecycleInv, NEW a \in Staff, Decide(a)
  PROVE  LifecycleInv'
<1> DEFINE r == requests[a]
           l == r.loan
           old == loans[l]
           new == [old EXCEPT !.status = r.op, !.version = old.version + 1]
           h == [to |-> r.op, by |-> a]
<1>1. /\ r.op \in Decisions \ {"approved"} /\ StillAt(r)
      /\ history' = [history EXCEPT ![l] = Append(@, h)] /\ Done(a)
  BY DEF Decide, Moved, Decisions
<1>2. /\ l \in Loans /\ Exists(l) /\ IsLoan(old) /\ ~ old.collected
      /\ old.status \in {"draft", "submitted", "under_review"}
  BY <1>1, DecisionAllowed
<1>3. loans' = [loans EXCEPT ![l] = new]
  BY DEF Decide
<1>4. h \in Entries /\ h.to \notin {"approved", "disbursed"}
  BY <1>1 DEF Entries, Decisions
<1> HIDE DEF r, l, old, h
<1>5. /\ IsLoan(new) /\ new.status = r.op /\ new.version = old.version + 1
      /\ new.maker = old.maker /\ new.collected = old.collected
  BY <1>1, <1>2 DEF IsLoan, Fields, Before, Decisions
<1> HIDE DEF new
<1>6. new # Absent /\ Evolves(old, new) /\ Onward(old, new)
  BY <1>2, <1>5 DEF Evolves, Onward, IsLoan, Absent, PaidOut, Before
<1>7. \A k \in Loans : loans'[k] = IF k = l THEN new ELSE loans[k]
  BY <1>3 DEF LifecycleInv, Shaped
<1>8. HistoryInv' /\ history' \in [Loans -> Seq(Entries)]
  <2>1. Sound(loans'[l], h)
    BY <1>4 DEF Sound
  <2>2. \A k \in Loans : loans'[k] = loans[k] \/ Onward(loans[k], loans'[k])
    BY <1>6, <1>7 DEF old
  <2> QED
    BY <1>1, <1>2, <1>4, <2>1, <2>2, HistoryGrown DEF LifecycleInv
<1> QED
  BY <1>1, <1>2, <1>3, <1>5, <1>6, <1>8, DoneTurns, LoanWritten DEF old

LEMMA ApproveKeeps ==
  ASSUME LifecycleInv, NEW a \in Staff, Approve(a)
  PROVE  LifecycleInv'
<1> DEFINE r == requests[a]
           l == r.loan
           old == loans[l]
           rows == Rows(old, r.start)
           interest == TotalInterest(rows)
           new == [old EXCEPT !.status = "approved", !.version = old.version + 1,
                              !.approver = a, !.rows = rows, !.totalInterest = interest]
           h == [to |-> "approved", by |-> a]
<1>1. /\ r.op = "approved" /\ StillAt(r)
      /\ history' = [history EXCEPT ![l] = Append(@, h)] /\ Done(a)
  BY DEF Approve, Moved
<1>2. /\ l \in Loans /\ Exists(l) /\ IsLoan(old) /\ ~ old.collected
      /\ old.status = "under_review" /\ (old.maker = a => a \in Bypass)
  BY <1>1, DecisionAllowed DEF Decisions
<1>3. loans' = [loans EXCEPT ![l] = new]
  BY DEF Approve
<1>4. h \in Entries
  BY DEF Entries, Decisions
<1> HIDE DEF r, l, old, rows, interest
<1>5. /\ IsLoan(new) /\ new.status = "approved" /\ new.version = old.version + 1
      /\ new.maker = old.maker /\ new.collected = old.collected /\ new.approver = a
  BY <1>1, <1>2 DEF IsLoan, Fields, Before
<1> HIDE DEF new
<1>6. new # Absent /\ Evolves(old, new) /\ Onward(old, new)
  BY <1>2, <1>5 DEF Evolves, Onward, IsLoan, Absent, PaidOut
<1>7. \A k \in Loans : loans'[k] = IF k = l THEN new ELSE loans[k]
  BY <1>3 DEF LifecycleInv, Shaped
<1>8. HistoryInv' /\ history' \in [Loans -> Seq(Entries)]
  <2>1. Sound(loans'[l], h)
    BY <1>2, <1>5, <1>6, <1>7 DEF Sound
  <2>2. \A k \in Loans : loans'[k] = loans[k] \/ Onward(loans[k], loans'[k])
    BY <1>6, <1>7 DEF old
  <2> QED
    BY <1>1, <1>2, <1>4, <2>1, <2>2, HistoryGrown DEF LifecycleInv
<1> QED
  BY <1>1, <1>2, <1>3, <1>5, <1>6, <1>8, DoneTurns, LoanWritten DEF old

\* The two rows of a disbursement.
LEMMA HistoryGrownTwice ==
  ASSUME Shaped, HistoryInv, NEW l \in Loans, NEW g \in Entries, NEW h \in Entries,
         history' = [history EXCEPT ![l] = @ \o <<g, h>>],
         \A k \in Loans : loans'[k] = loans[k] \/ Onward(loans[k], loans'[k]),
         Sound(loans'[l], g), Sound(loans'[l], h)
  PROVE  HistoryInv' /\ history' \in [Loans -> Seq(Entries)]
<1>1. history[l] \in Seq(Entries) /\ <<g, h>> \in Seq(Entries)
  BY DEF Shaped
<1>2. /\ history' \in [Loans -> Seq(Entries)]
      /\ history'[l] = history[l] \o <<g, h>>
      /\ \A k \in Loans : k # l => history'[k] = history[k]
  BY <1>1 DEF Shaped
<1>3. ASSUME NEW k \in Loans, NEW i \in DOMAIN history[k]
      PROVE  Sound(loans'[k], history[k][i])
  BY SoundOnward DEF HistoryInv
<1>4. ASSUME NEW i \in DOMAIN history'[l] PROVE Sound(loans'[l], history'[l][i])
  <2>1. \/ i \in DOMAIN history[l] /\ history'[l][i] = history[l][i]
        \/ history'[l][i] \in {g, h}
    BY <1>1, <1>2
  <2> QED
    BY <1>3, <2>1
<1> QED
  BY <1>2, <1>3, <1>4 DEF HistoryInv

LEMMA DisburseKeeps ==
  ASSUME LifecycleInv, NEW a \in Staff, Disburse(a)
  PROVE  LifecycleInv'
<1> DEFINE r == requests[a]
           l == r.loan
           old == loans[l]
           rows == IF r.first = NoDay THEN old.rows
                   ELSE Rows(old, StartFor(r.first, old.terms.frequency))
           interest == TotalInterest(rows)
           begins == FirstDue(rows)
           ends == LastDue(rows)
           new == [old EXCEPT !.status = "active", !.version = old.version + 1, !.rows = rows,
                              !.totalInterest = interest, !.firstDue = begins,
                              !.lastDue = ends, !.disbursedOn = day]
           g == [to |-> "disbursed", by |-> a]
           h == [to |-> "active", by |-> a]
<1>1. /\ r.op = "disburse" /\ "disbursed" \in Allowed(old.status)
      /\ old.approver # a \/ a \in Bypass
      /\ history' = [history EXCEPT ![l] = @ \o <<g, h>>] /\ Done(a)
  BY DEF Disburse, MayDisburse
<1>2. l \in Loans /\ Exists(l) /\ IsLoan(old) /\ old.status = "approved" /\ ~ old.collected
  BY <1>1, AllowedIs DEF LifecycleInv, DecisionsInv, Shaped, CollectedInv, PaidOut
<1>3. loans' = [loans EXCEPT ![l] = new]
  BY ZenonT(60) DEF Disburse
<1>4. g \in Entries /\ h \in Entries
  BY DEF Entries
<1> HIDE DEF r, l, old, rows, interest, begins, ends
<1>5. /\ IsLoan(new) /\ new.status = "active" /\ new.version = old.version + 1
      /\ new.maker = old.maker /\ new.collected = old.collected /\ new.approver = old.approver
  BY <1>2 DEF IsLoan, Fields, PaidOut
<1> HIDE DEF new
<1>6. new # Absent /\ Evolves(old, new) /\ Onward(old, new)
  BY <1>2, <1>5 DEF Evolves, Onward, IsLoan, Absent, PaidOut
<1>7. \A k \in Loans : loans'[k] = IF k = l THEN new ELSE loans[k]
  BY <1>3 DEF LifecycleInv, Shaped
<1>8. HistoryInv' /\ history' \in [Loans -> Seq(Entries)]
  <2>1. Sound(loans'[l], g) /\ Sound(loans'[l], h)
    BY <1>1, <1>2, <1>5, <1>6, <1>7 DEF Sound, PaidOut
  <2>2. \A k \in Loans : loans'[k] = loans[k] \/ Onward(loans[k], loans'[k])
    BY <1>6, <1>7 DEF old
  <2> QED
    BY <1>1, <1>2, <1>4, <2>1, <2>2, HistoryGrownTwice DEF LifecycleInv
<1> QED
  BY <1>1, <1>2, <1>3, <1>5, <1>6, <1>8, DoneTurns, LoanWritten DEF old

LEMMA RegenerateKeeps ==
  ASSUME LifecycleInv, NEW a \in Staff, Regenerate(a)
  PROVE  LifecycleInv'
<1> DEFINE r == requests[a]
           l == r.loan
           old == loans[l]
           rows == Rows(old, StartFor(r.first, old.terms.frequency))
           new == Rescheduled(old, rows)
<1>1. /\ r.op = "regenerate" /\ ~ old.collected /\ old.status \in {"approved", "active"}
      /\ UNCHANGED history /\ Done(a)
  BY DEF Regenerate, StillRegenerable, Regenerable
<1>2. l \in Loans /\ Exists(l) /\ IsLoan(old)
  BY <1>1 DEF LifecycleInv, DecisionsInv, Shaped
<1>3. loans' = [loans EXCEPT ![l] = new]
  BY DEF Regenerate
<1> HIDE DEF r, l, old, rows
<1>4. /\ IsLoan(new) /\ new.status = old.status /\ new.version = old.version + 1
      /\ new.maker = old.maker /\ new.collected = old.collected /\ new.approver = old.approver
  BY <1>2 DEF IsLoan, Fields, Rescheduled
<1> HIDE DEF new
<1>5. new # Absent /\ Evolves(old, new) /\ Onward(old, new)
  BY <1>2, <1>4 DEF Evolves, Onward, IsLoan, Absent, PaidOut, Before
<1>6. \A k \in Loans : loans'[k] = IF k = l THEN new ELSE loans[k]
  BY <1>3 DEF LifecycleInv, Shaped
<1>7. HistoryInv' /\ history' \in [Loans -> Seq(Entries)]
  <2>1. \A k \in Loans : loans'[k] = loans[k] \/ Onward(loans[k], loans'[k])
    BY <1>5, <1>6 DEF old
  <2> QED
    BY <1>1, <2>1, HistoryStands DEF LifecycleInv, Shaped
<1> QED
  BY <1>1, <1>2, <1>3, <1>4, <1>5, <1>7, DoneTurns, LoanWritten DEF old

LEMMA PaidOutKeeps ==
  ASSUME LifecycleInv, NEW l \in Loans, Collect(l) \/ FallOverdue(l) \/ Settle(l)
  PROVE  LifecycleInv'
<1> DEFINE old == loans[l]
<1>1. /\ Exists(l) /\ IsLoan(old) /\ old.status \in Live
      /\ UNCHANGED <<history, requests>>
  BY DEF Collect, FallOverdue, Settle, LifecycleInv, Shaped, Live
<1>2. PICK new : /\ loans' = [loans EXCEPT ![l] = new]
                 /\ IsLoan(new) /\ new.status \in PaidOut /\ old.version <= new.version
                 /\ new.maker = old.maker /\ new.approver = old.approver
  <2>1. CASE loans' = [loans EXCEPT ![l].collected = TRUE]
    <3>1. loans' = [loans EXCEPT ![l] = [old EXCEPT !.collected = TRUE]]
      BY <2>1
    <3> HIDE DEF old
    <3>2. LET new == [old EXCEPT !.collected = TRUE]
          IN  /\ IsLoan(new) /\ new.status \in PaidOut /\ old.version <= new.version
              /\ new.maker = old.maker /\ new.approver = old.approver
      BY <1>1 DEF IsLoan, Fields, Live, PaidOut
    <3> QED
      BY <3>1, <3>2
  <2>2. CASE loans' = [loans EXCEPT ![l].collected = TRUE, ![l].status = "active",
                                    ![l].version = @ + 1]
    <3>1. loans' = [loans EXCEPT ![l] = [old EXCEPT !.collected = TRUE, !.status = "active",
                                                    !.version = old.version + 1]]
      BY <2>2
    <3> HIDE DEF old
    <3>2. LET new == [old EXCEPT !.collected = TRUE, !.status = "active",
                                 !.version = old.version + 1]
          IN  /\ IsLoan(new) /\ new.status \in PaidOut /\ old.version <= new.version
              /\ new.maker = old.maker /\ new.approver = old.approver
      BY <1>1 DEF IsLoan, Fields, Live, PaidOut
    <3> QED
      BY <3>1, <3>2
  <2>3. CASE loans' = [loans EXCEPT ![l].status = "overdue"]
    <3>1. loans' = [loans EXCEPT ![l] = [old EXCEPT !.status = "overdue"]]
      BY <2>3
    <3> HIDE DEF old
    <3>2. LET new == [old EXCEPT !.status = "overdue"]
          IN  /\ IsLoan(new) /\ new.status \in PaidOut /\ old.version <= new.version
              /\ new.maker = old.maker /\ new.approver = old.approver
      BY <1>1 DEF IsLoan, Fields, Live, PaidOut
    <3> QED
      BY <3>1, <3>2
  <2>4. ASSUME NEW s \in {"closed", "foreclosed"},
               loans' = [loans EXCEPT ![l].collected = TRUE, ![l].status = s]
        PROVE  \E new : /\ loans' = [loans EXCEPT ![l] = new]
                        /\ IsLoan(new) /\ new.status \in PaidOut /\ old.version <= new.version
                        /\ new.maker = old.maker /\ new.approver = old.approver
    <3>1. loans' = [loans EXCEPT ![l] = [old EXCEPT !.collected = TRUE, !.status = s]]
      BY <2>4
    <3> HIDE DEF old
    <3>2. LET new == [old EXCEPT !.collected = TRUE, !.status = s]
          IN  /\ IsLoan(new) /\ new.status \in PaidOut /\ old.version <= new.version
              /\ new.maker = old.maker /\ new.approver = old.approver
      BY <1>1 DEF IsLoan, Fields, Live, PaidOut
    <3> QED
      BY <3>1, <3>2
  <2> QED
    BY <2>1, <2>2, <2>3, <2>4 DEF Collect, FallOverdue, Settle
<1>3. old.status \in PaidOut
  BY <1>1 DEF Live, PaidOut
<1> HIDE DEF old
<1>4. new # Absent /\ Evolves(old, new) /\ Onward(old, new)
  BY <1>2, <1>3 DEF Evolves, Onward, Absent, PaidOut, IsLoan, Before
<1>5. \A k \in Loans : loans'[k] = IF k = l THEN new ELSE loans[k]
  BY <1>2 DEF LifecycleInv, Shaped
<1>6. HistoryInv' /\ history' \in [Loans -> Seq(Entries)]
  <2>1. \A k \in Loans : loans'[k] = loans[k] \/ Onward(loans[k], loans'[k])
    BY <1>4, <1>5 DEF old
  <2> QED
    BY <1>1, <2>1, HistoryStands DEF LifecycleInv, Shaped
<1>7. /\ requests' = [b \in Staff |-> requests'[b]]
      /\ \A b \in Staff : requests'[b] = requests[b]
  BY <1>1 DEF LifecycleInv, Shaped
<1> QED
  BY <1>2, <1>4, <1>6, <1>7, LoanWritten DEF old

LEMMA ElsewhereKeeps ==
  ASSUME LifecycleInv, NEW a \in Staff,
         \/ \E c \in Customers, p \in Principals, t \in Tenures : ReadCreate(a, c, p, t)
         \/ \E rate \in Rates, cap \in Caps : ReadProduct(a, rate, cap)
         \/ ReadDeactivate(a) \/ NumberVersion(a) \/ CreateNewVersion(a) \/ Deactivate(a)
         \/ Abandon(a)
  PROVE  LifecycleInv'
<1>1. UNCHANGED <<loans, history>>
  BY DEF ReadCreate, ReadProduct, ReadDeactivate, NumberVersion, CreateNewVersion, Deactivate,
         Abandon
<1>2. \E r : /\ r.op \notin Decisions \union {"disburse", "regenerate"}
             /\ requests' = [requests EXCEPT ![a] = r]
  <2>1. Idle.op \notin Decisions \union {"disburse", "regenerate"}
    BY DEF Idle, Decisions
  <2>2. CASE Done(a)
    BY <2>1, <2>2 DEF Done
  <2>3. ASSUME NEW c, NEW p, NEW t, ReadCreate(a, c, p, t)
        PROVE  \E r : /\ r.op \notin Decisions \union {"disburse", "regenerate"}
                      /\ requests' = [requests EXCEPT ![a] = r]
    <3>1. PICK v : Ask(a, [op |-> "create", customer |-> c, terms |-> v.terms,
                           principal |-> p, tenure |-> t])
      BY <2>3 DEF ReadCreate
    <3> QED
      BY <3>1 DEF Ask, Decisions
  <2>4. ASSUME NEW rate, NEW cap, ReadProduct(a, rate, cap)
        PROVE  \E r : /\ r.op \notin Decisions \union {"disburse", "regenerate"}
                      /\ requests' = [requests EXCEPT ![a] = r]
    <3>1. PICK terms : Ask(a, [op |-> "edit", terms |-> terms])
      BY <2>4 DEF ReadProduct
    <3> QED
      BY <3>1 DEF Ask, Decisions
  <2>5. CASE ReadDeactivate(a)
    BY <2>5 DEF ReadDeactivate, Ask, Decisions
  <2>6. CASE NumberVersion(a)
    <3>1. PICK terms, number :
            Ask(a, [op |-> "numbered", terms |-> terms, number |-> number])
      BY <2>6 DEF NumberVersion
    <3> QED
      BY <3>1 DEF Ask, Decisions
  <2> QED
    BY <2>2, <2>3, <2>4, <2>5, <2>6 DEF CreateNewVersion, Deactivate, Abandon
<1> QED
  BY <1>1, <1>2, Turned, RequestsOnly

LEMMA LifecycleNext == LifecycleInv /\ [Next]_vars => LifecycleInv'
<1> SUFFICES ASSUME LifecycleInv, [Next]_vars PROVE LifecycleInv'
  OBVIOUS
<1>1. ASSUME NEW a \in Staff, Request(a) PROVE LifecycleInv'
  BY <1>1, ElsewhereKeeps, ReadDecisionKeeps, ReadLoanKeeps DEF Request, Decisions
<1>2. ASSUME NEW a \in Staff, Write(a) PROVE LifecycleInv'
  BY <1>2, InsertKeeps, RecordKeeps, DecideKeeps, ApproveKeeps, DisburseKeeps, RegenerateKeeps,
     ElsewhereKeeps DEF Write
<1>3. ASSUME UNCHANGED <<loans, history, requests>> PROVE LifecycleInv'
  BY <1>3, RequestsOnly DEF LifecycleInv, Shaped
<1>4. CASE \E l \in Loans : Collect(l) \/ FallOverdue(l) \/ Settle(l)
  BY <1>4, PaidOutKeeps
<1> QED
  BY <1>1, <1>2, <1>3, <1>4 DEF Next, Blacklist, Reinstate, Tick, vars

LEMMA LifecycleAlways == Spec => []LifecycleInv
BY InitLifecycle, LifecycleNext, PTL DEF Spec

-----------------------------------------------------------------------------
(* However many requests overlap, who signed for a loan is who its history
   says, and nobody but a super_admin approves the loan he made or pays out the
   loan he approved (MAKER_CHECKER_VIOLATION in approve and disburse). *)
THEOREM FourEyesAlways == Spec => []FourEyes
<1>1. LifecycleInv => FourEyes
  BY DEF LifecycleInv, HistoryInv, Sound, FourEyes
<1> QED
  BY <1>1, LifecycleAlways, PTL

LEMMA RowsKept ==
  ASSUME LifecycleInv, [Next]_vars, NEW l \in Loans, Exists(l), loans[l].collected
  PROVE  loans'[l].rows = loans[l].rows
<1>1. loans[l].status \in PaidOut /\ IsLoan(loans[l]) /\ loans = [k \in Loans |-> loans[k]]
  BY DEF LifecycleInv, CollectedInv, Shaped
<1>2. ASSUME NEW a \in Staff, NEW k \in Loans, InsertLoan(a, k)
      PROVE  loans'[l].rows = loans[l].rows
  <2>1. k # l
    BY <1>2, SMTT(60) DEF InsertLoan
  <2> QED
    BY <1>1, <1>2, <2>1 DEF InsertLoan
<1>3. ASSUME NEW a \in Staff, Decide(a) \/ Approve(a)
      PROVE  loans'[l].rows = loans[l].rows
  <2>1. requests[a].op \in Decisions /\ StillAt(requests[a])
    BY <1>3 DEF Decide, Approve, Decisions
  <2>2. requests[a].loan # l
    BY <1>1, <2>1, DecisionAllowed, SMTT(60) DEF PaidOut
  <2> QED
    BY <1>1, <1>3, <2>2, ZenonT(60) DEF Decide, Approve
<1>4. ASSUME NEW a \in Staff, Disburse(a) PROVE loans'[l].rows = loans[l].rows
  <2>1. requests[a].loan # l
    BY <1>1, <1>4, AllowedIs DEF Disburse, PaidOut
  <2> QED
    BY <1>1, <1>4, <2>1, ZenonT(60) DEF Disburse
<1>5. ASSUME NEW a \in Staff, Regenerate(a) PROVE loans'[l].rows = loans[l].rows
  <2>1. requests[a].loan # l
    BY <1>5 DEF Regenerate, StillRegenerable, Regenerable
  <2> QED
    BY <1>1, <1>5, <2>1 DEF Regenerate
<1>6. ASSUME NEW k \in Loans, Collect(k) \/ FallOverdue(k) \/ Settle(k)
      PROVE  loans'[l].rows = loans[l].rows
  BY <1>1, <1>6 DEF Collect, FallOverdue, Settle, IsLoan, Fields
<1>7. ASSUME NEW a \in Staff, Request(a) PROVE loans'[l].rows = loans[l].rows
  BY <1>7 DEF Request, ReadCreate, ReadDecision, ReadDisburse, ReadRegenerate, ReadProduct,
     ReadDeactivate
<1>8. ASSUME NEW a \in Staff, Write(a) PROVE loans'[l].rows = loans[l].rows
  <2>1. CASE RecordCreation(a) \/ NumberVersion(a) \/ CreateNewVersion(a)
             \/ Deactivate(a) \/ Abandon(a)
    BY <2>1 DEF RecordCreation, NumberVersion, CreateNewVersion, Deactivate, Abandon
  <2> QED
    BY <1>2, <1>3, <1>4, <1>5, <1>8, <2>1 DEF Write
<1>9. CASE UNCHANGED loans
  BY <1>9
<1> QED
  BY <1>6, <1>7, <1>8, <1>9 DEF Next, Blacklist, Reinstate, Tick, vars

(* A schedule somebody has paid against is never replaced, however stale the
   look at the collections was that let the request through
   (regenerateSchedule, approve and disburse). *)
THEOREM ScheduleKeptOncePaidAlways == Spec => ScheduleKeptOncePaid
<1>1. LifecycleInv /\ [Next]_vars =>
        [\A l \in Loans :
           Exists(l) /\ loans[l].collected => loans'[l].rows = loans[l].rows]_vars
  BY RowsKept
<1> QED
  BY <1>1, LifecycleAlways, PTL DEF Spec, ScheduleKeptOncePaid

-----------------------------------------------------------------------------
(* The versions of the product. *)

\* The versions are numbered without a gap up to the current one, and an edit
\* that has its number has one that was next when it asked.
VersionsInv ==
  /\ DOMAIN product = {"active", "current", "versions"}
  /\ product.current \in Nat /\ product.current >= 1
  /\ Numbers = 1..product.current
  /\ \A v, w \in product.versions : v.number = w.number => v = w
  /\ \A a \in Staff :
       requests[a].op = "numbered" => requests[a].number \in 1..product.current + 1

LEMMA LatestIsCurrent == VersionsInv => LatestNumber = product.current
<1> SUFFICES ASSUME VersionsInv PROVE LatestNumber = product.current
  OBVIOUS
<1>1. product.current \in Numbers /\ \A n \in Numbers : n \in Nat /\ n <= product.current
  BY DEF VersionsInv
<1>2. \A n \in Numbers : (\A m \in Numbers : m <= n) <=> n = product.current
  BY <1>1 DEF VersionsInv
<1> QED
  BY <1>1, <1>2 DEF LatestNumber

LEMMA VersionsKept ==
  ASSUME VersionsInv, UNCHANGED <<product.current, product.versions>>,
         DOMAIN product' = DOMAIN product,
         \A a \in Staff : requests'[a] = requests[a] \/ requests'[a].op # "numbered"
  PROVE  VersionsInv'
BY DEF VersionsInv, Numbers

LEMMA RequestVersions ==
  ASSUME LifecycleInv, VersionsInv, NEW a \in Staff,
         Request(a) \/ Abandon(a) \/ RecordCreation(a) \/ Decide(a) \/ Approve(a) \/ Disburse(a)
         \/ Regenerate(a) \/ (\E l \in Loans : InsertLoan(a, l))
  PROVE  VersionsInv'
<1>1. UNCHANGED product
  BY DEF Request, ReadCreate, ReadDecision, ReadDisburse, ReadRegenerate, ReadProduct,
         ReadDeactivate, Abandon, RecordCreation, Decide, Approve, Disburse, Regenerate, InsertLoan
<1>2. \E r : r.op # "numbered" /\ requests' = [requests EXCEPT ![a] = r]
  <2>1. Idle.op # "numbered"
    BY DEF Idle
  <2>2. CASE Done(a)
    BY <2>1, <2>2 DEF Done
  <2>3. ASSUME NEW c, NEW p, NEW t, ReadCreate(a, c, p, t)
        PROVE  \E r : r.op # "numbered" /\ requests' = [requests EXCEPT ![a] = r]
    <3>1. PICK v : Ask(a, [op |-> "create", customer |-> c, terms |-> v.terms,
                           principal |-> p, tenure |-> t])
      BY <2>3 DEF ReadCreate
    <3> QED
      BY <3>1 DEF Ask
  <2>4. ASSUME NEW l, NEW to \in Decisions, NEW first, ReadDecision(a, l, to, first)
        PROVE  \E r : r.op # "numbered" /\ requests' = [requests EXCEPT ![a] = r]
    <3>1. PICK version, start :
            Ask(a, [op |-> to, loan |-> l, version |-> version, start |-> start])
      BY <2>4 DEF ReadDecision
    <3> QED
      BY <3>1 DEF Ask, Decisions
  <2>5. ASSUME NEW l, NEW first, ReadDisburse(a, l, first) \/ ReadRegenerate(a, l, first)
        PROVE  \E r : r.op # "numbered" /\ requests' = [requests EXCEPT ![a] = r]
    BY <2>5 DEF ReadDisburse, ReadRegenerate, Ask
  <2>6. ASSUME NEW rate, NEW cap, ReadProduct(a, rate, cap)
        PROVE  \E r : r.op # "numbered" /\ requests' = [requests EXCEPT ![a] = r]
    <3>1. PICK terms : Ask(a, [op |-> "edit", terms |-> terms])
      BY <2>6 DEF ReadProduct
    <3> QED
      BY <3>1 DEF Ask
  <2>7. CASE ReadDeactivate(a)
    BY <2>7 DEF ReadDeactivate, Ask
  <2>8. ASSUME NEW l, InsertLoan(a, l)
        PROVE  \E r : r.op # "numbered" /\ requests' = [requests EXCEPT ![a] = r]
    <3>1. Ask(a, [op |-> "created", loan |-> l])
      BY <2>8 DEF InsertLoan
    <3> QED
      BY <3>1 DEF Ask
  <2>9. ASSUME RecordCreation(a) \/ Decide(a) \/ Approve(a) \/ Disburse(a) \/ Regenerate(a)
        PROVE  Done(a)
    BY <2>9 DEF RecordCreation, Decide, Approve, Disburse, Regenerate
  <2> QED
    BY <2>2, <2>3, <2>4, <2>5, <2>6, <2>7, <2>8, <2>9 DEF Request, Abandon, Decisions
<1>3. \A b \in Staff : requests'[b] = requests[b] \/ requests'[b].op # "numbered"
  BY <1>2 DEF LifecycleInv, Shaped
<1> QED
  BY <1>1, <1>3, VersionsKept, SMTT(60)

LEMMA NumberVersions ==
  ASSUME LifecycleInv, VersionsInv, NEW a \in Staff, NumberVersion(a)
  PROVE  VersionsInv'
<1>1. PICK terms : requests' = [requests EXCEPT ![a] =
                      [op |-> "numbered", terms |-> terms, number |-> LatestNumber + 1]]
  BY DEF NumberVersion, Ask
<1>2. UNCHANGED product /\ LatestNumber = product.current
  BY LatestIsCurrent DEF NumberVersion
<1>3. \A b \in Staff : \/ requests'[b] = requests[b]
                       \/ requests'[b].number = product.current + 1
  BY <1>1, <1>2 DEF LifecycleInv, Shaped
<1>4. product.current + 1 \in 1..product.current + 1
  BY DEF VersionsInv
<1> QED
  BY <1>2, <1>3, <1>4 DEF VersionsInv, Numbers

LEMMA CreateVersions ==
  ASSUME LifecycleInv, VersionsInv, NEW a \in Staff, CreateNewVersion(a)
  PROVE  VersionsInv'
<1> DEFINE n == requests[a].number
           new == [number |-> n, terms |-> requests[a].terms]
<1>1. /\ requests[a].op = "numbered" /\ n \notin Numbers
      /\ product' = [product EXCEPT !.current = n, !.versions = product.versions \union {new}]
      /\ new.number = n
  BY DEF CreateNewVersion, NumberFree
<1>2. n = product.current + 1
  BY <1>1 DEF VersionsInv
<1> HIDE DEF n, new
<1>3. /\ DOMAIN product' = {"active", "current", "versions"}
      /\ product'.current = n /\ product'.versions = product.versions \union {new}
  BY <1>1 DEF VersionsInv
<1>4. {v.number : v \in product'.versions} = Numbers \union {n}
  BY <1>1, <1>3 DEF Numbers
<1>5. \A v \in product.versions : v.number # n
  BY <1>1 DEF Numbers
<1>6. \A v, w \in product'.versions : v.number = w.number => v = w
  BY <1>1, <1>3, <1>5 DEF VersionsInv
<1>7. product'.current \in Nat /\ product'.current >= 1
      /\ Numbers \union {n} = 1..product'.current
  BY <1>2, <1>3 DEF VersionsInv
<1>8. \A b \in Staff : requests'[b] = requests[b] \/ requests'[b].op # "numbered"
  <2>1. Done(a)
    BY DEF CreateNewVersion
  <2> QED
    BY <2>1 DEF Done, Idle, LifecycleInv, Shaped
<1>9. \A b \in Staff : requests'[b].op = "numbered" =>
        requests'[b].number \in 1..product'.current + 1
  BY <1>2, <1>3, <1>8, SMTT(60) DEF VersionsInv
<1> QED
  BY <1>3, <1>4, <1>6, <1>7, <1>9 DEF VersionsInv, Numbers

LEMMA VersionsNext == LifecycleInv /\ VersionsInv /\ [Next]_vars => VersionsInv'
<1> SUFFICES ASSUME LifecycleInv, VersionsInv, [Next]_vars PROVE VersionsInv'
  OBVIOUS
<1>1. ASSUME NEW a \in Staff, Deactivate(a) PROVE VersionsInv'
  <2>1. product' = [product EXCEPT !.active = FALSE] /\ Done(a)
    BY <1>1 DEF Deactivate
  <2>2. /\ DOMAIN product' = DOMAIN product
        /\ UNCHANGED <<product.current, product.versions>>
    BY <2>1 DEF VersionsInv
  <2>3. \A b \in Staff : requests'[b] = requests[b] \/ requests'[b].op # "numbered"
    BY <2>1 DEF Done, Idle, LifecycleInv, Shaped
  <2> QED
    BY <2>2, <2>3, VersionsKept
<1>2. CASE UNCHANGED <<product, requests>>
  BY <1>2, VersionsKept
<1>3. ASSUME NEW a \in Staff, Request(a) \/ Write(a) PROVE VersionsInv'
  BY <1>1, <1>3, RequestVersions, NumberVersions, CreateVersions DEF Write
<1> QED
  BY <1>2, <1>3 DEF Next, Collect, FallOverdue, Settle, Blacklist, Reinstate, Tick, vars

LEMMA InitVersions == Init => VersionsInv
<1> SUFFICES ASSUME Init PROVE VersionsInv
  OBVIOUS
<1>1. product = [active |-> TRUE, current |-> 1,
                 versions |-> {[number |-> 1, terms |-> FirstTerms]}]
  BY DEF Init
<1>2. Numbers = 1..1
  BY <1>1 DEF Numbers
<1>3. \A a \in Staff : requests[a].op # "numbered"
  BY DEF Init, Idle
<1> QED
  BY <1>1, <1>2, <1>3 DEF VersionsInv

(* However many edits of the product overlap, every version has a number of
   its own and the one offered is the highest (createNewVersion and the unique
   index on product and version_number). *)
THEOREM CurrentVersionIsLatestAlways == Spec => []CurrentVersionIsLatest
<1>1. VersionsInv => CurrentVersionIsLatest
  BY LatestIsCurrent DEF VersionsInv, CurrentVersionIsLatest
<1> QED
  BY <1>1, InitVersions, VersionsNext, LifecycleAlways, PTL DEF Spec

-----------------------------------------------------------------------------
(***************************************************************************)
(* The refinement of Origination.  The trail of a loan is a loop over its  *)
(* history, so a row appended to the history appends its decision to the   *)
(* trail, or nothing.                                                      *)
(***************************************************************************)
Ignored == {"draft", "active"}

TrailLoop(rows) ==
  LET trail[i \in 0..Len(rows)] ==
        IF i = 0 THEN <<>>
        ELSE IF rows[i].to \in Ignored THEN trail[i - 1]
        ELSE Append(trail[i - 1], rows[i].to)
  IN  trail

LEMMA TrailLoopExists ==
  ASSUME NEW rows \in Seq(Entries)
  PROVE  \E g : g = [i \in 0..Len(rows) |->
                       IF i = 0 THEN <<>>
                       ELSE IF rows[i].to \in Ignored THEN g[i - 1]
                       ELSE Append(g[i - 1], rows[i].to)]
<1> DEFINE n == Len(rows)
           Words == Seq({rows[i].to : i \in 1..n})
           next(i, s) == IF rows[i].to \in Ignored THEN s ELSE Append(s, rows[i].to)
           step == [i \in 1..n |-> [s \in Words |-> next(i, s)]]
<1>1. n \in Nat /\ 0 \in Int /\ n \in Int /\ 0 <= n /\ <<>> \in Words
  OBVIOUS
<1>2. \A i \in 1..n : \A s \in Words : step[i][s] = next(i, s) /\ step[i][s] \in Words
  OBVIOUS
<1> HIDE DEF step, n, Words
<1>3. Steps(step, Words, 0, n)
  BY <1>1, <1>2 DEF Steps
<1>4. PICK g : Recurses(g, Words, 0, n, <<>>, step)
  BY <1>1, <1>3, RecursionExists, Zenon
<1>5. g \in [0..n -> Words] /\ g[0] = <<>> /\ \A i \in 0 + 1..n : g[i] = step[i][g[i - 1]]
  BY <1>4 DEF Recurses
<1>6. ASSUME NEW i \in 1..n PROVE g[i] = next(i, g[i - 1])
  <2>1. i \in 0 + 1..n /\ i - 1 \in 0..n
    BY <1>1
  <2>2. g[i - 1] \in Words
    BY <1>5, <2>1
  <2> HIDE DEF next
  <2> QED
    BY <1>2, <1>5, <2>1, <2>2
<1>7. g = [i \in 0..n |-> IF i = 0 THEN <<>> ELSE next(i, g[i - 1])]
  <2> HIDE DEF next
  <2>1. \A i \in 0..n : i # 0 => i \in 1..n
    BY <1>1
  <2> QED
    BY <1>1, <1>5, <1>6, <2>1
<1> QED
  BY <1>7 DEF n

LEMMA TrailLoopRecursion ==
  ASSUME NEW rows \in Seq(Entries)
  PROVE  /\ Trail(rows) = TrailLoop(rows)[Len(rows)]
         /\ TrailLoop(rows)[0] = <<>>
         /\ \A i \in 1..Len(rows) :
              TrailLoop(rows)[i] = IF rows[i].to \in Ignored THEN TrailLoop(rows)[i - 1]
                                   ELSE Append(TrailLoop(rows)[i - 1], rows[i].to)
<1> DEFINE g == TrailLoop(rows)
<1>1. g = [i \in 0..Len(rows) |->
             IF i = 0 THEN <<>>
             ELSE IF rows[i].to \in Ignored THEN g[i - 1]
             ELSE Append(g[i - 1], rows[i].to)]
  BY TrailLoopExists, Zenon DEF TrailLoop
<1>2. Trail(rows) = g[Len(rows)]
  BY DEF Trail, TrailLoop, Ignored
<1> HIDE DEF g
<1>3. Len(rows) \in Nat
  OBVIOUS
<1>4. g[0] = <<>>
  BY <1>1, <1>3
<1>5. ASSUME NEW i \in 1..Len(rows)
      PROVE  g[i] = IF rows[i].to \in Ignored THEN g[i - 1] ELSE Append(g[i - 1], rows[i].to)
  <2>1. i \in 0..Len(rows) /\ i # 0
    BY <1>3
  <2> QED
    BY <1>1, <2>1, Zenon
<1> QED
  BY <1>2, <1>4, <1>5 DEF g

\* A row appended to a history appends its decision to the trail, or nothing.
LEMMA TrailGrows ==
  ASSUME NEW rows \in Seq(Entries), NEW h \in Entries
  PROVE  Trail(Append(rows, h)) =
           IF h.to \in Ignored THEN Trail(rows) ELSE Append(Trail(rows), h.to)
<1> DEFINE n == Len(rows)
           more == Append(rows, h)
           old == TrailLoop(rows)
           new == TrailLoop(more)
           X == {i \in Nat : i <= n => new[i] = old[i]}
<1>1. n \in Nat /\ more \in Seq(Entries) /\ Len(more) = n + 1
  OBVIOUS
<1>2. more[n + 1] = h /\ \A i \in 1..n : more[i] = rows[i]
  OBVIOUS
<1>3. /\ Trail(rows) = old[n] /\ old[0] = <<>>
      /\ \A i \in 1..n :
           old[i] = IF rows[i].to \in Ignored THEN old[i - 1] ELSE Append(old[i - 1], rows[i].to)
  BY TrailLoopRecursion
<1>4. /\ Trail(more) = new[n + 1] /\ new[0] = <<>>
      /\ \A i \in 1..(n + 1) :
           new[i] = IF more[i].to \in Ignored THEN new[i - 1] ELSE Append(new[i - 1], more[i].to)
  BY <1>1, TrailLoopRecursion
<1> HIDE DEF n, more, old, new
<1>5. 0 \in X
  BY <1>3, <1>4
<1>6. ASSUME NEW i \in Nat, i \in X PROVE i + 1 \in X
  <2> SUFFICES ASSUME i + 1 <= n PROVE new[i + 1] = old[i + 1]
    OBVIOUS
  <2>1. i + 1 \in 1..n /\ i + 1 \in 1..(n + 1) /\ (i + 1) - 1 = i /\ i <= n
    BY <1>1
  <2>2. new[i] = old[i] /\ more[i + 1] = rows[i + 1]
    BY <1>2, <1>6, <2>1
  <2> QED
    BY <1>3, <1>4, <2>1, <2>2
<1> HIDE DEF X
<1>7. X = Nat
  BY <1>5, <1>6, SetInduction DEF X
<1>8. new[n] = old[n]
  BY <1>1, <1>7 DEF X
<1>9. n + 1 \in 1..(n + 1) /\ (n + 1) - 1 = n
  BY <1>1
<1>10. new[n + 1] = IF h.to \in Ignored THEN new[n] ELSE Append(new[n], h.to)
  BY <1>2, <1>4, <1>9
<1> QED
  BY <1>3, <1>4, <1>8, <1>10 DEF more

\* The two rows of a disbursement, as two rows appended.
LEMMA TrailGrowsTwice ==
  ASSUME NEW rows \in Seq(Entries), NEW g \in Entries, NEW h \in Entries,
         g.to \notin Ignored, h.to \in Ignored
  PROVE  Trail(rows \o <<g, h>>) = Append(Trail(rows), g.to)
<1>1. rows \o <<g, h>> = Append(Append(rows, g), h) /\ Append(rows, g) \in Seq(Entries)
  OBVIOUS
<1> QED
  BY <1>1, TrailGrows

LEMMA EmptyTrail == Trail(<<>>) = <<>>
<1>1. <<>> \in Seq(Entries) /\ Len(<<>>) = 0
  OBVIOUS
<1> QED
  BY <1>1, TrailLoopRecursion

-----------------------------------------------------------------------------
(* What a step does to one loan, seen from the workflow. *)

LEMMA StageIs ==
  /\ \A l : loans[l].status \in PaidOut => StageOf(l) = "disbursed"
  /\ \A l : loans[l].status \in Before \union {"none"} => StageOf(l) = loans[l].status
BY DEF StageOf, Live, PaidOut, Before

LEMMA NothingMaps ==
  ASSUME \A k \in Loans : StageOf(k)' = StageOf(k) /\ TrailOf(k)' = TrailOf(k)
  PROVE  UNCHANGED Workflow!abstractVars
BY DEF Workflow!abstractVars

LEMMA CreationMaps ==
  ASSUME NEW l \in Loans, StageOf(l) = "none", StageOf(l)' = "draft",
         \A k \in Loans : k # l => StageOf(k)' = StageOf(k),
         \A k \in Loans : TrailOf(k)' = TrailOf(k)
  PROVE  Workflow!AbstractNext
<1>1. Workflow!Create(l)
  BY DEF Workflow!Create
<1> QED
  BY <1>1 DEF Workflow!AbstractNext

LEMMA DecisionMaps ==
  ASSUME NEW l \in Loans, NEW to \in Decisions \union {"disbursed"},
         StageOf(l) = Workflow!Follows(to), StageOf(l)' = to,
         TrailOf(l)' = Append(TrailOf(l), to),
         \A k \in Loans : k # l => StageOf(k)' = StageOf(k) /\ TrailOf(k)' = TrailOf(k)
  PROVE  Workflow!AbstractNext
<1>1. Workflow!Decide(l, to)
  BY DEF Workflow!Decide
<1> QED
  BY <1>1 DEF Workflow!AbstractNext, Workflow!Stages, Decisions

\* A handler that reads, and one that writes elsewhere.
LEMMA StandsMaps ==
  ASSUME UNCHANGED <<loans, history>>
  PROVE  UNCHANGED Workflow!abstractVars
<1>1. \A k \in Loans : StageOf(k)' = StageOf(k) /\ TrailOf(k)' = TrailOf(k)
  BY DEF StageOf, TrailOf
<1> QED
  BY <1>1, NothingMaps

LEMMA InsertMaps ==
  ASSUME LifecycleInv, NEW a \in Staff, NEW l \in Loans, InsertLoan(a, l)
  PROVE  Workflow!AbstractNext
<1>1. /\ loans[l].status = "none" /\ loans'[l].status = "draft" /\ UNCHANGED history
      /\ \A k \in Loans : k # l => loans'[k] = loans[k]
  BY DEF InsertLoan, LifecycleInv, Shaped, Exists, Absent
<1>2. StageOf(l) = "none" /\ StageOf(l)' = "draft"
  BY <1>1 DEF StageOf, Live
<1>3. \A k \in Loans : k # l => StageOf(k)' = StageOf(k)
  BY <1>1 DEF StageOf
<1>4. \A k \in Loans : TrailOf(k)' = TrailOf(k)
  BY <1>1 DEF TrailOf
<1> QED
  BY <1>2, <1>3, <1>4, CreationMaps

LEMMA RecordMaps ==
  ASSUME LifecycleInv, NEW a \in Staff, RecordCreation(a)
  PROVE  UNCHANGED Workflow!abstractVars
<1> DEFINE l == requests[a].loan
           h == [to |-> "draft", by |-> a]
<1>1. history' = [history EXCEPT ![l] = Append(history[l], h)] /\ UNCHANGED loans
  BY DEF RecordCreation
<1>2. h \in Entries /\ h.to \in Ignored
  BY DEF Entries, Ignored
<1>3. history \in [Loans -> Seq(Entries)]
  BY DEF LifecycleInv, Shaped
<1> HIDE DEF l, h
<1>4. ASSUME NEW k \in Loans PROVE Trail(history'[k]) = Trail(history[k])
  <2>1. CASE k = l
    <3>1. history'[k] = Append(history[k], h) /\ history[k] \in Seq(Entries)
      BY <1>1, <1>3, <2>1
    <3> QED
      BY <1>2, <3>1, TrailGrows
  <2>2. CASE k # l
    <3>1. history'[k] = history[k]
      BY <1>1, <1>3, <2>2
    <3> QED
      BY <3>1
  <2> QED
    BY <2>1, <2>2
<1>5. \A k \in Loans : StageOf(k)' = StageOf(k)
  BY <1>1 DEF StageOf
<1>6. \A k \in Loans : TrailOf(k)' = TrailOf(k)
  BY <1>4 DEF TrailOf
<1> QED
  BY <1>5, <1>6, NothingMaps

\* Submit, review, approve and reject: the version that StillAt asks for makes
\* the stage that was read the stage that is left (DecisionsInv).
LEMMA DecideMaps ==
  ASSUME LifecycleInv, NEW a \in Staff, Decide(a) \/ Approve(a),
         NEW op, op = requests[a].op, NEW l, l = requests[a].loan
  PROVE  Workflow!AbstractNext
<1> DEFINE r == requests[a]
           h == [to |-> op, by |-> a]
<1>1. /\ op \in Decisions /\ StillAt(r)
      /\ history' = [history EXCEPT ![l] = Append(history[l], h)]
  BY DEF Decide, Approve, Moved, Decisions
<1>2. /\ l \in Loans /\ Exists(l) /\ op \in Allowed(loans[l].status)
      /\ loans[l].status \in Before /\ DOMAIN loans[l] = Fields
  BY <1>1, DecisionAllowed DEF IsLoan, Before
<1>3. loans'[l].status = op
  <2>1. PICK new : loans' = [loans EXCEPT ![l] = new] /\ new.status = op
    <3>1. CASE Decide(a)
      <4>1. loans' = [loans EXCEPT ![l] = [loans[l] EXCEPT !.status = op,
                                                           !.version = loans[l].version + 1]]
        BY <3>1 DEF Decide
      <4>2. [loans[l] EXCEPT !.status = op, !.version = loans[l].version + 1].status = op
        BY <1>2 DEF Fields
      <4> QED
        BY <4>1, <4>2
    <3>2. CASE Approve(a)
      <4> DEFINE rows == Rows(loans[l], r.start)
                 interest == TotalInterest(rows)
      <4>1. /\ op = "approved"
            /\ loans' = [loans EXCEPT ![l] =
                 [loans[l] EXCEPT !.status = "approved", !.version = loans[l].version + 1,
                                  !.approver = a, !.rows = rows, !.totalInterest = interest]]
        BY <3>2 DEF Approve
      <4> HIDE DEF r, rows, interest
      <4>2. [loans[l] EXCEPT !.status = "approved", !.version = loans[l].version + 1,
                             !.approver = a, !.rows = rows,
                             !.totalInterest = interest].status = "approved"
        BY <1>2 DEF Fields
      <4> QED
        BY <4>1, <4>2
    <3> QED
      BY <3>1, <3>2
  <2> QED
    BY <1>2, <2>1 DEF LifecycleInv, Shaped
<1>4. \A k \in Loans : k # l => loans'[k] = loans[k]
  BY DEF Decide, Approve, LifecycleInv, Shaped
<1>5. history \in [Loans -> Seq(Entries)]
  BY DEF LifecycleInv, Shaped
<1>6. h \in Entries /\ h.to = op /\ h.to \notin Ignored
  BY <1>1 DEF Entries, Decisions, Ignored
<1> HIDE DEF r, h
<1>7. history'[l] = Append(history[l], h) /\ \A k \in Loans : k # l => history'[k] = history[k]
  BY <1>1, <1>2, <1>5
<1>8. StageOf(l) = Workflow!Follows(op)
  BY <1>1, <1>2, AllowedIs, StageIs DEF Workflow!Follows, Decisions
<1>9. StageOf(l)' = op
  BY <1>1, <1>3 DEF StageOf, Live, Decisions
<1>10. TrailOf(l)' = Append(TrailOf(l), op)
  <2>1. Trail(Append(history[l], h)) = Append(Trail(history[l]), h.to)
    BY <1>2, <1>5, <1>6, TrailGrows
  <2> QED
    BY <1>6, <1>7, <2>1 DEF TrailOf
<1>11. \A k \in Loans : k # l => StageOf(k)' = StageOf(k) /\ TrailOf(k)' = TrailOf(k)
  BY <1>4, <1>7 DEF StageOf, TrailOf
<1> QED
  BY <1>1, <1>2, <1>8, <1>9, <1>10, <1>11, DecisionMaps, SMTT(60)

\* The disbursement reads the loan afresh, and leaves two rows of history.
LEMMA DisburseMaps ==
  ASSUME LifecycleInv, NEW a \in Staff, Disburse(a), NEW l, l = requests[a].loan
  PROVE  Workflow!AbstractNext
<1> DEFINE r == requests[a]
           g == [to |-> "disbursed", by |-> a]
           h == [to |-> "active", by |-> a]
<1>1. /\ r.op = "disburse" /\ "disbursed" \in Allowed(loans[l].status)
      /\ history' = [history EXCEPT ![l] = history[l] \o <<g, h>>]
  BY DEF Disburse
<1>2. l \in Loans /\ Exists(l) /\ loans[l].status = "approved" /\ DOMAIN loans[l] = Fields
  BY <1>1, AllowedIs DEF LifecycleInv, DecisionsInv, Shaped, IsLoan
<1>3. loans'[l].status = "active"
  <2> DEFINE rows == IF r.first = NoDay THEN loans[l].rows
                     ELSE Rows(loans[l], StartFor(r.first, loans[l].terms.frequency))
             interest == TotalInterest(rows)
             begins == FirstDue(rows)
             ends == LastDue(rows)
  <2>1. loans' = [loans EXCEPT ![l] =
          [loans[l] EXCEPT !.status = "active", !.version = loans[l].version + 1,
                           !.rows = rows, !.totalInterest = interest, !.firstDue = begins,
                           !.lastDue = ends, !.disbursedOn = day]]
    BY ZenonT(60) DEF Disburse
  <2> HIDE DEF r, rows, interest, begins, ends
  <2> QED
    BY <1>2, <2>1, SMTT(60) DEF LifecycleInv, Shaped, Fields
<1>4. \A k \in Loans : k # l => loans'[k] = loans[k]
  BY DEF Disburse, LifecycleInv, Shaped
<1>5. history \in [Loans -> Seq(Entries)]
  BY DEF LifecycleInv, Shaped
<1>6. /\ g \in Entries /\ h \in Entries /\ g.to = "disbursed"
      /\ g.to \notin Ignored /\ h.to \in Ignored
  BY DEF Entries, Ignored
<1> HIDE DEF r, g, h
<1>7. history'[l] = history[l] \o <<g, h>> /\ \A k \in Loans : k # l => history'[k] = history[k]
  BY <1>1, <1>2, <1>5
<1>8. StageOf(l) = Workflow!Follows("disbursed") /\ StageOf(l)' = "disbursed"
  BY <1>2, <1>3 DEF Workflow!Follows, StageOf, Live
<1>9. TrailOf(l)' = Append(TrailOf(l), "disbursed")
  <2>1. Trail(history[l] \o <<g, h>>) = Append(Trail(history[l]), g.to)
    BY <1>2, <1>5, <1>6, TrailGrowsTwice
  <2> QED
    BY <1>6, <1>7, <2>1 DEF TrailOf
<1>10. \A k \in Loans : k # l => StageOf(k)' = StageOf(k) /\ TrailOf(k)' = TrailOf(k)
  BY <1>4, <1>7 DEF StageOf, TrailOf
<1> QED
  BY <1>2, <1>8, <1>9, <1>10, DecisionMaps, SMTT(60)

\* A schedule that is replaced leaves the stage; so does what happens to a loan
\* that is paid out.
LEMMA StageKeptMaps ==
  ASSUME LifecycleInv,
         \/ \E a \in Staff : Regenerate(a)
         \/ \E l \in Loans : Collect(l) \/ FallOverdue(l) \/ Settle(l)
  PROVE  UNCHANGED Workflow!abstractVars
<1>1. ASSUME NEW l \in Loans, Collect(l) \/ FallOverdue(l) \/ Settle(l)
      PROVE  \A k \in Loans : StageOf(k)' = StageOf(k)
  <2>1. loans[l].status \in Live /\ DOMAIN loans[l] = Fields
    <3>1. loans[l].status \in Live /\ Exists(l)
      BY <1>1 DEF Collect, FallOverdue, Settle, Live
    <3> QED
      BY <3>1, SMTT(60) DEF LifecycleInv, Shaped, IsLoan
  <2>2. loans'[l].status \in PaidOut /\ \A k \in Loans : k # l => loans'[k] = loans[k]
    <3> USE DEF LifecycleInv, Shaped, Fields, Live, PaidOut
    <3>1. CASE Collect(l)
      BY <2>1, <3>1, ZenonT(60) DEF Collect
    <3>2. CASE FallOverdue(l)
      BY <2>1, <3>2 DEF FallOverdue
    <3>3. CASE Settle(l)
      BY <2>1, <3>3 DEF Settle
    <3> QED
      BY <1>1, <3>1, <3>2, <3>3, SMTT(60)
  <2>3. StageOf(l) = "disbursed" /\ StageOf(l)' = "disbursed"
    BY <2>1, <2>2 DEF StageOf, Live, PaidOut
  <2> QED
    BY <2>2, <2>3 DEF StageOf
<1>2. ASSUME NEW a \in Staff, Regenerate(a)
      PROVE  \A k \in Loans : StageOf(k)' = StageOf(k)
  <2> DEFINE l == requests[a].loan
             rows == Rows(loans[l], StartFor(requests[a].first, loans[l].terms.frequency))
             new == Rescheduled(loans[l], rows)
  <2>1. l \in Loans /\ IsLoan(loans[l]) /\ loans' = [loans EXCEPT ![l] = new]
    BY <1>2 DEF Regenerate, LifecycleInv, DecisionsInv, Shaped
  <2>2. new.status = loans[l].status
    <3> HIDE DEF l, rows
    <3> QED
      BY <2>1 DEF IsLoan, Fields, Rescheduled
  <2> HIDE DEF l, new
  <2>3. \A k \in Loans : loans'[k].status = loans[k].status
    BY <2>1, <2>2 DEF LifecycleInv, Shaped
  <2> QED
    BY <2>3 DEF StageOf
<1>3. UNCHANGED history
  BY DEF Regenerate, Collect, FallOverdue, Settle
<1>4. \A k \in Loans : TrailOf(k)' = TrailOf(k)
  BY <1>3 DEF TrailOf
<1> QED
  BY <1>1, <1>2, <1>4, NothingMaps

LEMMA InitMaps == Init => Workflow!AbstractInit
<1> SUFFICES ASSUME Init PROVE Workflow!AbstractInit
  OBVIOUS
<1>1. \A l \in Loans : loans[l] = Absent /\ history[l] = <<>>
  BY DEF Init
<1>2. \A l \in Loans : StageOf(l) = "none"
  BY <1>1 DEF StageOf, Live, Absent
<1>3. \A l \in Loans : TrailOf(l) = <<>>
  BY <1>1, EmptyTrail DEF TrailOf
<1> QED
  BY <1>2, <1>3 DEF Workflow!AbstractInit

LEMMA StepMaps == LifecycleInv /\ [Next]_vars => [Workflow!AbstractNext]_(Workflow!abstractVars)
<1> SUFFICES ASSUME LifecycleInv, [Next]_vars
             PROVE  Workflow!AbstractNext \/ UNCHANGED Workflow!abstractVars
  BY DEF Workflow!abstractVars
<1>1. ASSUME NEW a \in Staff, Request(a) PROVE UNCHANGED Workflow!abstractVars
  <2>1. UNCHANGED <<loans, history>>
    BY <1>1 DEF Request, ReadCreate, ReadDecision, ReadDisburse, ReadRegenerate, ReadProduct,
                ReadDeactivate
  <2> QED
    BY <2>1, StandsMaps
<1>2. ASSUME NEW a \in Staff,
             NumberVersion(a) \/ CreateNewVersion(a) \/ Deactivate(a) \/ Abandon(a)
      PROVE  UNCHANGED Workflow!abstractVars
  <2>1. UNCHANGED <<loans, history>>
    BY <1>2 DEF NumberVersion, CreateNewVersion, Deactivate, Abandon
  <2> QED
    BY <2>1, StandsMaps
<1>3. CASE \/ \E c \in Customers : Blacklist(c) \/ Reinstate(c)
           \/ Tick \/ UNCHANGED vars
  <2>1. UNCHANGED <<loans, history>>
    BY <1>3 DEF Blacklist, Reinstate, Tick, vars
  <2> QED
    BY <2>1, StandsMaps
<1>4. ASSUME NEW a \in Staff, Write(a)
      PROVE  Workflow!AbstractNext \/ UNCHANGED Workflow!abstractVars
  BY <1>2, <1>4, InsertMaps, RecordMaps, DecideMaps, DisburseMaps, StageKeptMaps DEF Write
<1>5. CASE \E l \in Loans : Collect(l) \/ FallOverdue(l) \/ Settle(l)
  BY <1>5, StageKeptMaps
<1> QED
  BY <1>1, <1>3, <1>4, <1>5 DEF Next

(* Whatever requests overlap, die or act on rows they read long before, the
   loans and their histories go through the approval workflow one decision at a
   time, each with its one row of history (ALLOWED_TRANSITIONS, and the version
   that updateMany asks for). *)
THEOREM WorkflowImplemented == Spec => ImplementsWorkflow
<1>1. Init => Workflow!AbstractInit
  BY InitMaps
<1>2. LifecycleInv /\ [Next]_vars => [Workflow!AbstractNext]_(Workflow!abstractVars)
  BY StepMaps
<1> QED
  BY <1>1, <1>2, LifecycleAlways, PTL DEF Spec, Workflow!AbstractSpec, ImplementsWorkflow

-----------------------------------------------------------------------------
(***************************************************************************)
(* The schedule that GenerateSchedule computes, for every principal, rate, *)
(* tenure, frequency, start and calendar of holidays.  First the months:   *)
(* MonthStart is increasing, so a day lies in one month.                   *)
(***************************************************************************)
Months == 1..Len(MonthLengths)

LEMMA CalendarTypes ==
  /\ Len(MonthLengths) \in Nat /\ DOMAIN MonthLengths = Months
  /\ \A m \in Months : MonthLengths[m] \in Nat \ {0}
BY CalendarAssumption DEF Months

LEMMA MonthStartExists ==
  \E g : g = [m \in 1..Len(MonthLengths) + 1 |->
                IF m = 1 THEN 0 ELSE g[m - 1] + MonthLengths[m - 1]]
<1> DEFINE n == Len(MonthLengths) + 1
           step == [m \in 1..n |-> [s \in Nat |-> s + MonthLengths[m - 1]]]
<1>1. n \in Int /\ 1 \in Int /\ 1 <= n /\ 0 \in Nat
  BY CalendarTypes
<1>2. \A m \in 1 + 1..n : MonthLengths[m - 1] \in Nat /\ m \in 1..n /\ m - 1 \in 1..n /\ m # 1
  BY CalendarTypes DEF Months
<1>3. \A m \in 1..n : \A s \in Nat : step[m][s] = s + MonthLengths[m - 1]
  OBVIOUS
<1> HIDE DEF n, step
<1>4. Steps(step, Nat, 1, n)
  BY <1>2, <1>3 DEF Steps
<1>5. PICK g : Recurses(g, Nat, 1, n, 0, step)
  BY <1>1, <1>4, RecursionExists, Zenon
<1>6. /\ g \in [1..n -> Nat] /\ g[1] = 0
      /\ \A m \in 1 + 1..n : g[m] = step[m][g[m - 1]]
  BY <1>5 DEF Recurses
<1>7. \A m \in 1 + 1..n : g[m] = g[m - 1] + MonthLengths[m - 1]
  BY <1>2, <1>3, <1>6
<1>8. \A m \in 1..n : m # 1 => m \in 1 + 1..n
  BY <1>1
<1>9. g = [m \in 1..n |-> IF m = 1 THEN 0 ELSE g[m - 1] + MonthLengths[m - 1]]
  BY <1>6, <1>7, <1>8
<1> QED
  BY <1>9 DEF n

LEMMA MonthStartRecursion ==
  /\ MonthStart[1] = 0
  /\ \A m \in Months : MonthStart[m + 1] = MonthStart[m] + MonthLengths[m]
  /\ \A m \in 1..Len(MonthLengths) + 1 : MonthStart[m] \in Nat
<1> DEFINE n == Len(MonthLengths)
           g == MonthStart
           X == {k \in Nat : k <= n => g[k + 1] \in Nat}
<1>1. g = [m \in 1..n + 1 |-> IF m = 1 THEN 0 ELSE g[m - 1] + MonthLengths[m - 1]]
  BY MonthStartExists, Zenon DEF MonthStart
<1>2. n \in Nat /\ Months = 1..n
  BY CalendarTypes DEF Months
<1> HIDE DEF g, n
<1>3. g[1] = 0
  BY <1>1, <1>2
<1>4. ASSUME NEW m \in Months PROVE g[m + 1] = g[m] + MonthLengths[m]
  <2>1. m + 1 \in 1..n + 1 /\ m + 1 # 1 /\ (m + 1) - 1 = m
    BY <1>2
  <2> QED
    BY <1>1, <2>1
<1>5. 0 \in X
  BY <1>3
<1>6. ASSUME NEW k \in Nat, k \in X PROVE k + 1 \in X
  <2> SUFFICES ASSUME k + 1 <= n PROVE g[(k + 1) + 1] \in Nat
    OBVIOUS
  <2>1. k + 1 \in Months /\ g[k + 1] \in Nat
    BY <1>2, <1>6
  <2> QED
    BY <1>4, <2>1, CalendarTypes
<1> HIDE DEF X
<1>7. X = Nat
  BY <1>5, <1>6, SetInduction DEF X
<1>8. ASSUME NEW m \in 1..n + 1 PROVE g[m] \in Nat
  <2>1. m - 1 \in X /\ m - 1 <= n /\ (m - 1) + 1 = m
    BY <1>2, <1>7
  <2> QED
    BY <2>1 DEF X
<1> QED
  BY <1>3, <1>4, <1>8 DEF g, n

LEMMA MonthsAscend ==
  ASSUME NEW m \in Months, NEW k \in 1..Len(MonthLengths) + 1, m < k
  PROVE  MonthStart[m + 1] <= MonthStart[k]
<1> DEFINE X == {j \in Nat : m + 1 + j <= Len(MonthLengths) + 1 =>
                               MonthStart[m + 1] <= MonthStart[m + 1 + j]}
<1>1. Len(MonthLengths) \in Nat /\ m \in Nat /\ k \in Nat
  BY CalendarTypes DEF Months
<1>2. 0 \in X
  <2>1. m + 1 \in 1..Len(MonthLengths) + 1 /\ m + 1 + 0 = m + 1
    BY <1>1 DEF Months
  <2>2. MonthStart[m + 1] \in Nat
    BY <2>1, MonthStartRecursion
  <2> QED
    BY <2>1, <2>2
<1>3. ASSUME NEW j \in Nat, j \in X PROVE j + 1 \in X
  <2> SUFFICES ASSUME m + 1 + (j + 1) <= Len(MonthLengths) + 1
               PROVE  MonthStart[m + 1] <= MonthStart[m + 1 + (j + 1)]
    OBVIOUS
  <2> DEFINE i == m + 1 + j
  <2>1. i \in Months /\ i + 1 = m + 1 + (j + 1) /\ m + 1 \in 1..Len(MonthLengths) + 1
        /\ i \in 1..Len(MonthLengths) + 1
    BY <1>1 DEF Months
  <2>2. MonthStart[m + 1] <= MonthStart[i]
    BY <1>1, <1>3, <2>1
  <2> HIDE DEF i
  <2>3. MonthStart[i + 1] = MonthStart[i] + MonthLengths[i] /\ MonthLengths[i] \in Nat
    BY <2>1, MonthStartRecursion, CalendarTypes
  <2>4. MonthStart[m + 1] \in Nat /\ MonthStart[i] \in Nat
    BY <2>1, MonthStartRecursion
  <2> QED
    BY <2>1, <2>2, <2>3, <2>4
<1> HIDE DEF X
<1>4. X = Nat
  BY <1>2, <1>3, SetInduction DEF X
<1>5. k - (m + 1) \in Nat /\ m + 1 + (k - (m + 1)) = k /\ k <= Len(MonthLengths) + 1
  BY <1>1
<1> QED
  BY <1>4, <1>5 DEF X

\* A day lies in one month.
LEMMA MonthOfIs ==
  ASSUME NEW d \in Int, NEW m \in Months, MonthStart[m] <= d, d < MonthStart[m + 1]
  PROVE  MonthOf(d) = m
<1> DEFINE k == MonthOf(d)
<1>1. k \in Months /\ MonthStart[k] <= d /\ d < MonthStart[k + 1]
  <2>1. \E j \in DOMAIN MonthLengths : MonthStart[j] <= d /\ d < MonthStart[j + 1]
    BY CalendarTypes
  <2> QED
    BY <2>1, CalendarTypes DEF MonthOf
<1> HIDE DEF k
<1>2. Len(MonthLengths) \in Nat /\ m \in Nat /\ k \in Nat
  BY <1>1, CalendarTypes DEF Months
<1>3. \A j \in {m, k} : j \in 1..Len(MonthLengths) + 1 /\ j + 1 \in 1..Len(MonthLengths) + 1
  BY <1>1, <1>2 DEF Months
<1>4. \A j \in {m, k} : MonthStart[j] \in Nat /\ MonthStart[j + 1] \in Nat
  BY <1>3, MonthStartRecursion
<1>5. ~ (m < k)
  <2> SUFFICES ASSUME m < k PROVE FALSE
    OBVIOUS
  <2>1. MonthStart[m + 1] <= MonthStart[k]
    BY <1>3, MonthsAscend
  <2> QED
    BY <1>1, <1>4, <2>1
<1>6. ~ (k < m)
  <2> SUFFICES ASSUME k < m PROVE FALSE
    OBVIOUS
  <2>1. MonthStart[k + 1] <= MonthStart[m]
    BY <1>1, <1>3, MonthsAscend
  <2> QED
    BY <1>1, <1>4, <2>1
<1> QED
  BY <1>2, <1>5, <1>6 DEF k

\* A day k months on is in the k-th month from its own.
LEMMA AddMonthsIs ==
  ASSUME NEW d \in Int, NEW m \in Months, MonthStart[m] <= d, d < MonthStart[m + 1],
         NEW k \in Int, m + k \in Months
  PROVE  /\ AddMonthsClamped(d, k) \in Int
         /\ MonthStart[m + k] <= AddMonthsClamped(d, k)
         /\ AddMonthsClamped(d, k) < MonthStart[m + k + 1]
<1>1. MonthOf(d) = m
  BY MonthOfIs
<1> DEFINE to == m + k
           into == Lesser(d - MonthStart[m], MonthLengths[to] - 1)
<1>2. AddMonthsClamped(d, k) = MonthStart[to] + into
  BY <1>1 DEF AddMonthsClamped
<1>3. /\ to \in Months /\ to \in 1..Len(MonthLengths) + 1 /\ m \in 1..Len(MonthLengths) + 1
      /\ to + 1 = m + k + 1
  BY CalendarTypes DEF Months
<1> HIDE DEF to
<1>4. /\ MonthStart[to] \in Nat /\ MonthStart[m] \in Nat /\ MonthLengths[to] \in Nat \ {0}
      /\ MonthStart[to + 1] = MonthStart[to] + MonthLengths[to]
  BY <1>3, CalendarTypes, MonthStartRecursion
<1>5. into \in Nat /\ into < MonthLengths[to]
  BY <1>4 DEF Lesser
<1> HIDE DEF into
<1>6. /\ MonthStart[to] + into \in Int /\ MonthStart[to] <= MonthStart[to] + into
      /\ MonthStart[to] + into < MonthStart[to + 1]
  BY <1>4, <1>5
<1> QED
  BY <1>2, <1>3, <1>6 DEF to

\* A start from which a schedule of the tenure stays in the calendar.
StartsInCalendar(start, tenure, frequency) ==
  start \in Int /\ (frequency = "monthly" => InCalendar(start, 0, tenure))

LEMMA StartForIs ==
  ASSUME NEW first \in Int, NEW tenure \in Nat \ {0}, NEW frequency \in Frequencies,
         InCalendar(first, 1, tenure - 1)
  PROVE  StartsInCalendar(StartFor(first, frequency), tenure, frequency)
<1> DEFINE start == StartFor(first, frequency)
<1>1. CASE frequency = "monthly"
  <2>1. PICK m \in DOMAIN MonthLengths :
          /\ MonthStart[m] <= first /\ first < MonthStart[m + 1]
          /\ 1 < m /\ m + (tenure - 1) <= Len(MonthLengths)
    BY DEF InCalendar
  <2>2. m \in Months /\ m - 1 \in Months /\ m + (-1) = m - 1 /\ m + (-1) + 1 = m - 1 + 1
    BY <2>1, CalendarTypes DEF Months
  <2>3. start = AddMonthsClamped(first, -1)
    BY <1>1 DEF StartFor, DueDate
  <2>4. start \in Int /\ MonthStart[m - 1] <= start /\ start < MonthStart[m - 1 + 1]
    BY <2>1, <2>2, <2>3, AddMonthsIs
  <2>5. 0 < m - 1 /\ m - 1 + tenure <= Len(MonthLengths)
    BY <2>1, <2>2, CalendarTypes DEF Months
  <2> HIDE DEF start
  <2>6. InCalendar(start, 0, tenure)
    BY <2>2, <2>4, <2>5, CalendarTypes DEF InCalendar
  <2> QED
    BY <2>4, <2>6 DEF StartsInCalendar, start
<1>2. CASE frequency # "monthly"
  <2>1. start = first - 7 \/ start = first - 1
    BY <1>2 DEF StartFor, DueDate, Frequencies
  <2> HIDE DEF start
  <2> QED
    BY <1>2, <2>1 DEF StartsInCalendar, start
<1> QED
  BY <1>1, <1>2

LEMMA InstallmentCountIs ==
  ASSUME NEW tenure \in Nat \ {0}, NEW frequency \in Frequencies
  PROVE  /\ InstallmentCount(tenure, frequency) \in Nat \ {0}
         /\ frequency = "monthly" => InstallmentCount(tenure, frequency) = tenure
<1>1. (52 * tenure + 12 - 1) \div 12 \in Nat \ {0} /\ (1461 * tenure + 48 - 1) \div 48 \in Nat \ {0}
  OBVIOUS
<1> QED
  BY <1>1 DEF InstallmentCount, CeilDiv, Frequencies

LEMMA DueDateType ==
  ASSUME NEW tenure \in Nat \ {0}, NEW frequency \in Frequencies, NEW start,
         StartsInCalendar(start, tenure, frequency),
         NEW i \in 1..InstallmentCount(tenure, frequency)
  PROVE  DueDate(start, i, frequency) \in Int
<1>1. start \in Int /\ i \in Int
  BY InstallmentCountIs DEF StartsInCalendar
<1>2. CASE frequency = "monthly"
  <2>1. PICK m \in DOMAIN MonthLengths :
          /\ MonthStart[m] <= start /\ start < MonthStart[m + 1]
          /\ 0 < m /\ m + tenure <= Len(MonthLengths)
    BY <1>2 DEF InCalendar, StartsInCalendar
  <2>2. i \in 1..tenure
    BY <1>2, InstallmentCountIs
  <2>3. m \in Months /\ m + i \in Months
    BY <2>1, <2>2, CalendarTypes DEF Months
  <2>4. AddMonthsClamped(start, i) \in Int
    BY <1>1, <2>1, <2>3, AddMonthsIs
  <2> QED
    BY <1>2, <2>4 DEF DueDate
<1>3. CASE frequency # "monthly"
  BY <1>1, <1>3 DEF DueDate, Frequencies
<1> QED
  BY <1>2, <1>3

-----------------------------------------------------------------------------
(* There is a working day among the first days that holidays can fill. *)
LEMMA HolidaysFinite ==
  Holidays \subseteq Int /\ IsFiniteSet(Holidays) /\ Cardinality(Holidays) \in Nat
<1>1. HolidayCalendar \subseteq Int /\ IsFiniteSet(HolidayCalendar)
  BY CalendarAssumption
<1>2. Holidays \subseteq Int
  BY <1>1 DEF Holidays
<1>3. IsFiniteSet(Holidays)
  <2> DEFINE f == [h \in HolidayCalendar |-> h - 1]
  <2>1. f \in Surjection(HolidayCalendar, Holidays)
    BY DEF Holidays, Surjection
  <2> QED
    BY <1>1, <2>1, FS_Surjection
<1> QED
  BY <1>2, <1>3, FS_CardinalityType

LEMMA NextWorkingDayIs ==
  ASSUME NEW d \in Int
  PROVE  /\ NextWorkingDay(d) \in Int /\ d <= NextWorkingDay(d)
         /\ NextWorkingDay(d) \notin Holidays
         /\ d \notin Holidays => NextWorkingDay(d) = d
<1> DEFINE c == Cardinality(Holidays)
           days == d..d + c
           Workdays == {i \in Nat : i <= c /\ d + i \notin Holidays}
<1>1. c \in Nat
  BY HolidaysFinite
<1> HIDE DEF c
<1>2. Workdays # {}
  <2> SUFFICES ASSUME Workdays = {} PROVE FALSE
    OBVIOUS
  <2>1. days \subseteq Holidays
    <3> SUFFICES ASSUME NEW w \in days PROVE w \in Holidays
      OBVIOUS
    <3>1. w - d \in Nat /\ w - d <= c /\ d + (w - d) = w
      BY <1>1
    <3> QED
      BY <3>1
  <2>2. Cardinality(days) = c + 1
    <3>1. d + c \in Int /\ ~ (d > d + c) /\ (d + c) - d + 1 = c + 1
      BY <1>1
    <3> QED
      BY <3>1, FS_Interval
  <2>3. Cardinality(days) <= c
    BY <2>1, HolidaysFinite, FS_Subset DEF c
  <2> QED
    BY <1>1, <2>2, <2>3
<1>3. PICK i \in Workdays : \A j \in Workdays : i <= j
  BY <1>2, LeastElement
<1>4. /\ d + i \in d..d + c /\ d + i \notin Holidays
  BY <1>1
<1>5. d..(d + i) - 1 \subseteq Holidays
  <2> SUFFICES ASSUME NEW w \in d..(d + i) - 1, w \notin Holidays PROVE FALSE
    OBVIOUS
  <2>1. w - d \in Nat /\ w - d <= c /\ d + (w - d) = w /\ w - d < i
    BY <1>1, <1>3
  <2> QED
    BY <1>3, <2>1
<1>6. \E w \in d..d + Cardinality(Holidays) : w \notin Holidays /\ d..w - 1 \subseteq Holidays
  BY <1>4, <1>5 DEF c
<1> DEFINE w == NextWorkingDay(d)
<1>7. w \in d..d + Cardinality(Holidays) /\ w \notin Holidays /\ d..w - 1 \subseteq Holidays
  BY <1>6 DEF NextWorkingDay
<1> HIDE DEF w
<1>8. w \in Int /\ d <= w
  BY <1>1, <1>7 DEF c
<1>9. ASSUME d \notin Holidays PROVE w = d
  <2>1. ~ (d \in d..w - 1)
    BY <1>7, <1>9
  <2> QED
    BY <1>8, <2>1
<1> QED
  BY <1>7, <1>8, <1>9 DEF w

LEMMA AdjustedExists ==
  ASSUME NEW n \in Nat \ {0}, NEW due \in [1..n -> Int]
  PROVE  \E g : g = [i \in DOMAIN due |->
                       LET own == NextWorkingDay(due[i])
                           before == IF i = 1 THEN own - 1 ELSE g[i - 1]
                       IN  IF own > before THEN own ELSE NextWorkingDay(before + 1)]
<1> DEFINE own(i) == NextWorkingDay(due[i])
           next(i, s) == IF own(i) > s THEN own(i) ELSE NextWorkingDay(s + 1)
           step == [i \in 1..n |-> [s \in Int |-> next(i, s)]]
<1>1. \A i \in 1..n : own(i) \in Int
  BY NextWorkingDayIs
<1>2. \A i \in 1..n : \A s \in Int : next(i, s) \in Int
  BY <1>1, NextWorkingDayIs
<1>3. \A i \in 1..n : \A s \in Int : step[i][s] = next(i, s)
  OBVIOUS
<1>4. n \in Int /\ 1 \in Int /\ 1 <= n /\ 1 \in 1..n /\ \A i \in 1 + 1..n : i \in 1..n /\ i # 1 /\ i - 1 \in 1..n
  OBVIOUS
<1> HIDE DEF step, next, own
<1>5. Steps(step, Int, 1, n)
  <2>1. ASSUME NEW i \in 1 + 1..n, NEW s \in Int PROVE step[i][s] \in Int
    <3>1. i \in 1..n
      BY <1>4
    <3> QED
      BY <1>2, <1>3, <3>1
  <2> QED
    BY <2>1 DEF Steps
<1>6. own(1) \in Int
  BY <1>1, <1>4
<1>7. PICK g : Recurses(g, Int, 1, n, own(1), step)
  BY <1>4, <1>5, <1>6, RecursionExists, Zenon
<1>8. /\ g \in [1..n -> Int] /\ g[1] = own(1)
      /\ \A i \in 1 + 1..n : g[i] = step[i][g[i - 1]]
  BY <1>7 DEF Recurses
<1>9. \A i \in 1 + 1..n : g[i] = next(i, g[i - 1])
  BY <1>3, <1>4, <1>8
<1>10. ASSUME NEW i \in 1..n
       PROVE  g[i] = LET before == IF i = 1 THEN own(i) - 1 ELSE g[i - 1]
                     IN  IF own(i) > before THEN own(i) ELSE NextWorkingDay(before + 1)
  <2>1. CASE i = 1
    BY <1>6, <1>8, <2>1
  <2>2. CASE i # 1
    <3>1. i \in 1 + 1..n
      BY <2>2
    <3> QED
      BY <1>9, <2>2, <3>1 DEF next
  <2> QED
    BY <2>1, <2>2
<1>11. g = [i \in 1..n |-> LET before == IF i = 1 THEN own(i) - 1 ELSE g[i - 1]
                           IN  IF own(i) > before THEN own(i) ELSE NextWorkingDay(before + 1)]
  BY <1>8, <1>10
<1>12. DOMAIN due = 1..n
  OBVIOUS
<1> QED
  BY <1>11, <1>12, Zenon DEF own

\* The days an installment is moved to ascend, whatever the calendar of
\* holidays: a day that meets the one before it is moved on.
LEMMA AdjustedAscends ==
  ASSUME NEW n \in Nat \ {0}, NEW due \in [1..n -> Int]
  PROVE  /\ AdjustForHolidays(due) \in [1..n -> Int]
         /\ AdjustForHolidays(due)[1] = NextWorkingDay(due[1])
         /\ \A i \in 1..n - 1 : AdjustForHolidays(due)[i] < AdjustForHolidays(due)[i + 1]
         /\ \A i \in 1..n : AdjustForHolidays(due)[i] \notin Holidays
<1> DEFINE g == AdjustForHolidays(due)
           own(i) == NextWorkingDay(due[i])
           X == {k \in Nat : k + 1 <= n => g[k + 1] \in Int}
<1>1. g = [i \in DOMAIN due |->
             LET before == IF i = 1 THEN own(i) - 1 ELSE g[i - 1]
             IN  IF own(i) > before THEN own(i) ELSE NextWorkingDay(before + 1)]
  BY AdjustedExists, Zenon DEF AdjustForHolidays
<1>2. DOMAIN due = 1..n /\ 1 \in 1..n
  OBVIOUS
<1>3. \A i \in 1..n : own(i) \in Int /\ own(i) \notin Holidays
  BY NextWorkingDayIs
<1> HIDE DEF g, own
<1>4. g[1] = own(1)
  <2>1. g[1] = IF own(1) > own(1) - 1 THEN own(1) ELSE NextWorkingDay(own(1) - 1 + 1)
    BY <1>1, <1>2
  <2> QED
    BY <1>2, <1>3, <2>1
<1>5. ASSUME NEW i \in 1..n - 1
      PROVE  g[i + 1] = IF own(i + 1) > g[i] THEN own(i + 1) ELSE NextWorkingDay(g[i] + 1)
  <2>1. i + 1 \in 1..n /\ i + 1 # 1 /\ (i + 1) - 1 = i
    OBVIOUS
  <2> QED
    BY <1>1, <1>2, <2>1
<1>6. ASSUME NEW i \in 1..n - 1, g[i] \in Int
      PROVE  g[i + 1] \in Int /\ g[i] < g[i + 1] /\ g[i + 1] \notin Holidays
  <2>1. i + 1 \in 1..n /\ g[i] + 1 \in Int
    BY <1>6
  <2>2. own(i + 1) \in Int /\ own(i + 1) \notin Holidays
    BY <1>3, <2>1
  <2>3. /\ NextWorkingDay(g[i] + 1) \in Int /\ g[i] + 1 <= NextWorkingDay(g[i] + 1)
        /\ NextWorkingDay(g[i] + 1) \notin Holidays
    BY <2>1, NextWorkingDayIs
  <2> QED
    BY <1>5, <1>6, <2>2, <2>3
<1>7. 0 \in X
  BY <1>2, <1>3, <1>4
<1>8. ASSUME NEW k \in Nat, k \in X PROVE k + 1 \in X
  <2> SUFFICES ASSUME (k + 1) + 1 <= n PROVE g[(k + 1) + 1] \in Int
    OBVIOUS
  <2>1. k + 1 \in 1..n - 1 /\ g[k + 1] \in Int
    BY <1>8
  <2> QED
    BY <1>6, <2>1
<1> HIDE DEF X
<1>9. X = Nat
  BY <1>7, <1>8, SetInduction DEF X
<1>10. ASSUME NEW i \in 1..n PROVE g[i] \in Int
  <2>1. i - 1 \in X /\ (i - 1) + 1 = i /\ i <= n
    BY <1>9
  <2> QED
    BY <2>1 DEF X
<1>11. ASSUME NEW i \in 1..n PROVE g[i] \notin Holidays
  <2>1. CASE i = 1
    BY <1>2, <1>3, <1>4, <2>1
  <2>2. CASE i # 1
    <3>1. i - 1 \in 1..n - 1 /\ (i - 1) + 1 = i /\ i - 1 \in 1..n
      BY <2>2
    <3> QED
      BY <1>6, <1>10, <3>1
  <2> QED
    BY <2>1, <2>2
<1>12. \A i \in 1..n - 1 : g[i] < g[i + 1]
  BY <1>6, <1>10
<1>13. g \in [1..n -> Int]
  BY <1>1, <1>2, <1>10
<1> QED
  BY <1>4, <1>11, <1>12, <1>13 DEF g, own

-----------------------------------------------------------------------------
(* The amounts. *)
LEMMA HalfUpType ==
  ASSUME NEW a \in Nat, NEW b \in Nat \ {0}
  PROVE  HalfUp(a, b) \in Nat
BY DEF HalfUp

PowerLoop(b, n) ==
  LET power[k \in 0..n] == IF k = 0 THEN 1 ELSE b * power[k - 1]
  IN  power

LEMMA PowerLoopExists ==
  ASSUME NEW b \in Nat, NEW n \in Nat
  PROVE  \E g : g = [k \in 0..n |-> IF k = 0 THEN 1 ELSE b * g[k - 1]]
<1> DEFINE step == [k \in 1..n |-> [s \in Nat |-> b * s]]
<1>1. \A k \in 1..n : \A s \in Nat : step[k][s] = b * s /\ b * s \in Nat
  OBVIOUS
<1>2. 0 \in Int /\ n \in Int /\ 0 <= n /\ 1 \in Nat /\ \A k \in 0 + 1..n : k \in 1..n
  OBVIOUS
<1> HIDE DEF step
<1>3. Steps(step, Nat, 0, n)
  BY <1>1, <1>2 DEF Steps
<1>4. PICK g : Recurses(g, Nat, 0, n, 1, step)
  BY <1>2, <1>3, RecursionExists, Zenon
<1>5. g \in [0..n -> Nat] /\ g[0] = 1 /\ \A k \in 0 + 1..n : g[k] = step[k][g[k - 1]]
  BY <1>4 DEF Recurses
<1>6. ASSUME NEW k \in 1..n PROVE g[k] = b * g[k - 1]
  <2>1. k \in 0 + 1..n /\ k - 1 \in 0..n
    OBVIOUS
  <2> QED
    BY <1>1, <1>5, <2>1
<1>7. g = [k \in 0..n |-> IF k = 0 THEN 1 ELSE b * g[k - 1]]
  BY <1>5, <1>6
<1> QED
  BY <1>7

LEMMA PowerRecursion ==
  ASSUME NEW b \in Nat, NEW n \in Nat
  PROVE  /\ Power(b, n) = PowerLoop(b, n)[n]
         /\ PowerLoop(b, n)[0] = 1
         /\ \A k \in 1..n : PowerLoop(b, n)[k] = b * PowerLoop(b, n)[k - 1]
<1> DEFINE g == PowerLoop(b, n)
<1>1. g = [k \in 0..n |-> IF k = 0 THEN 1 ELSE b * g[k - 1]]
  BY PowerLoopExists, Zenon DEF PowerLoop
<1>2. Power(b, n) = g[n]
  BY DEF Power, PowerLoop
<1> HIDE DEF g
<1> QED
  BY <1>1, <1>2 DEF g

\* A power of a larger number is larger: the divisor of the EMI is positive.
LEMMA PowerGrows ==
  ASSUME NEW b \in Nat \ {0}, NEW c \in Nat, b < c, NEW n \in Nat \ {0}
  PROVE  Power(b, n) \in Nat \ {0} /\ Power(c, n) \in Nat \ {0} /\ Power(b, n) < Power(c, n)
<1> DEFINE p == PowerLoop(b, n)
           q == PowerLoop(c, n)
           Good(k) == /\ p[k] \in Nat \ {0} /\ q[k] \in Nat \ {0} /\ p[k] <= q[k]
                      /\ k # 0 => p[k] < q[k]
           X == {k \in Nat : k <= n => Good(k)}
<1>1. p[0] = 1 /\ \A k \in 1..n : p[k] = b * p[k - 1]
  BY PowerRecursion
<1>2. q[0] = 1 /\ \A k \in 1..n : q[k] = c * q[k - 1]
  BY PowerRecursion
<1> HIDE DEF p, q
<1>3. 0 \in X
  BY <1>1, <1>2
<1>4. ASSUME NEW k \in Nat, k \in X PROVE k + 1 \in X
  <2> SUFFICES ASSUME k + 1 <= n PROVE Good(k + 1)
    OBVIOUS
  <2>1. k + 1 \in 1..n /\ (k + 1) - 1 = k /\ Good(k)
    BY <1>4
  <2>2. p[k + 1] = b * p[k] /\ q[k + 1] = c * q[k]
    BY <1>1, <1>2, <2>1
  <2>3. p[k] \in Nat \ {0} /\ q[k] \in Nat \ {0} /\ p[k] <= q[k]
    BY <2>1
  <2>4. \A x, y \in Nat \ {0} : x <= y => /\ b * x \in Nat \ {0} /\ c * y \in Nat \ {0}
                                          /\ b * x < c * y
    <3> SUFFICES ASSUME NEW x \in Nat \ {0}, NEW y \in Nat \ {0}, x <= y
                 PROVE  b * x \in Nat \ {0} /\ c * y \in Nat \ {0} /\ b * x < c * y
      OBVIOUS
    <3>1. b * x \in Nat \ {0} /\ c * y \in Nat \ {0} /\ b * y \in Nat
      OBVIOUS
    <3>2. b * x <= b * y
      OBVIOUS
    <3>3. b * y < c * y
      OBVIOUS
    <3> QED
      BY <3>1, <3>2, <3>3
  <2> QED
    BY <2>2, <2>3, <2>4
<1> HIDE DEF X
<1>5. X = Nat
  BY <1>3, <1>4, SetInduction DEF X
<1>6. Good(n)
  BY <1>5 DEF X
<1>7. Power(b, n) = p[n] /\ Power(c, n) = q[n]
  BY PowerRecursion DEF p, q
<1> QED
  BY <1>6, <1>7

LEMMA EmiType ==
  ASSUME NEW principal \in Nat, NEW rate \in Nat \ {0}, NEW base \in Nat \ {0},
         NEW n \in Nat \ {0}
  PROVE  Emi(principal, rate, base, n) \in Nat
<1> DEFINE p == Power(base, n)
           q == Power(base + rate, n)
<1>1. base + rate \in Nat /\ base < base + rate
  OBVIOUS
<1>2. p \in Nat /\ q \in Nat /\ p < q
  BY <1>1, PowerGrows
<1> HIDE DEF p, q
<1>3. principal * rate \in Nat /\ q - p \in Nat \ {0}
  BY <1>2
<1>4. principal * rate * q \in Nat
  BY <1>2, <1>3
<1>5. base * (q - p) \in Nat \ {0}
  BY <1>3
<1> QED
  BY <1>4, <1>5, HalfUpType DEF Emi, p, q

LEMMA PrincipalPartBounds ==
  ASSUME NEW emi \in Nat, NEW interest \in Nat, NEW left \in Nat
  PROVE  PrincipalPart(emi, interest, left) \in 0..left
BY DEF PrincipalPart, AtLeastZero, Lesser

IsBalance(g, principal, rate, base, n, emi) ==
  g = [i \in 0..n |->
         CASE i = 0 -> principal
           [] i = n -> 0
           [] OTHER ->
                LET before == g[i - 1]
                IN  before - PrincipalPart(emi, HalfUp(before * rate, base), before)]

LEMMA BalanceExists ==
  ASSUME NEW principal \in Nat, NEW rate \in Nat \ {0}, NEW base \in Nat \ {0},
         NEW n \in Nat \ {0}, NEW emi \in Nat
  PROVE  \E g : IsBalance(g, principal, rate, base, n, emi)
<1> DEFINE pays(s) == s - PrincipalPart(emi, HalfUp(s * rate, base), s)
           step == [i \in 1..n |-> [s \in Nat |-> IF i = n THEN 0 ELSE pays(s)]]
<1>1. \A s \in Nat : pays(s) \in Nat
  <2> SUFFICES ASSUME NEW s \in Nat PROVE pays(s) \in Nat
    OBVIOUS
  <2>1. s * rate \in Nat
    OBVIOUS
  <2>2. HalfUp(s * rate, base) \in Nat
    BY <2>1, HalfUpType
  <2>3. PrincipalPart(emi, HalfUp(s * rate, base), s) \in 0..s
    BY <2>2, PrincipalPartBounds
  <2> QED
    BY <2>3
<1> HIDE DEF pays
<1>2. \A i \in 1..n : \A s \in Nat : step[i][s] = IF i = n THEN 0 ELSE pays(s)
  OBVIOUS
<1>3. 0 \in Int /\ n \in Int /\ 0 <= n /\ \A i \in 0 + 1..n : i \in 1..n
  OBVIOUS
<1> HIDE DEF step
<1>4. Steps(step, Nat, 0, n)
  BY <1>1, <1>2, <1>3 DEF Steps
<1>5. PICK g : Recurses(g, Nat, 0, n, principal, step)
  BY <1>3, <1>4, RecursionExists, Zenon
<1>6. g \in [0..n -> Nat] /\ g[0] = principal /\ \A i \in 0 + 1..n : g[i] = step[i][g[i - 1]]
  BY <1>5 DEF Recurses
<1>7. ASSUME NEW i \in 1..n PROVE g[i] = IF i = n THEN 0 ELSE pays(g[i - 1])
  <2>1. i \in 0 + 1..n /\ i - 1 \in 0..n
    OBVIOUS
  <2> QED
    BY <1>2, <1>6, <2>1
<1>8. ASSUME NEW i \in 0..n
      PROVE  g[i] = CASE i = 0 -> principal
                      [] i = n -> 0
                      [] OTHER -> pays(g[i - 1])
  <2>1. CASE i = 0
    BY <1>6, <2>1
  <2>2. CASE i # 0
    <3>1. i \in 1..n
      BY <2>2
    <3> QED
      BY <1>7, <2>2, <3>1
  <2> QED
    BY <2>1, <2>2
<1>9. g = [i \in 0..n |-> CASE i = 0 -> principal [] i = n -> 0 [] OTHER -> pays(g[i - 1])]
  BY <1>6, <1>8
<1> QED
  BY <1>9, Zenon DEF pays, IsBalance

\* What is left of the principal starts at all of it, never grows and ends at
\* nothing, however the EMI was rounded.
LEMMA BalanceFalls ==
  ASSUME NEW principal \in Nat, NEW rate \in Nat \ {0}, NEW base \in Nat \ {0},
         NEW n \in Nat \ {0}
  PROVE  LET left == BalanceAfter(principal, rate, base, n)
         IN  /\ left[0] = principal /\ left[n] = 0
             /\ \A i \in 0..n : left[i] \in Nat
             /\ \A i \in 1..n : left[i] <= left[i - 1]
<1> DEFINE emi == Emi(principal, rate, base, n)
           left == BalanceAfter(principal, rate, base, n)
           part(s) == PrincipalPart(emi, HalfUp(s * rate, base), s)
           X == {i \in Nat : i <= n => left[i] \in Nat}
<1>1. emi \in Nat
  BY EmiType
<1>2. left = [i \in 0..n |->
                CASE i = 0 -> principal
                  [] i = n -> 0
                  [] OTHER -> left[i - 1] - part(left[i - 1])]
  <2> HIDE DEF emi
  <2>1. \E g : IsBalance(g, principal, rate, base, n, emi)
    BY <1>1, BalanceExists, Zenon
  <2> QED
    BY <2>1, Zenon DEF IsBalance, BalanceAfter, emi
<1>3. \A s \in Nat : part(s) \in 0..s
  <2> HIDE DEF emi
  <2> SUFFICES ASSUME NEW s \in Nat PROVE part(s) \in 0..s
    OBVIOUS
  <2>1. s * rate \in Nat
    OBVIOUS
  <2>2. HalfUp(s * rate, base) \in Nat
    BY <2>1, HalfUpType
  <2> QED
    BY <1>1, <2>2, PrincipalPartBounds
<1> HIDE DEF left, part, emi
<1>4. left[0] = principal /\ left[n] = 0
  <2>1. 0 \in 0..n /\ n \in 0..n /\ n # 0
    OBVIOUS
  <2> QED
    BY <1>2, <2>1
<1>5. \A i \in 1..n : i # n => left[i] = left[i - 1] - part(left[i - 1])
  BY <1>2
<1>6. ASSUME NEW i \in 1..n, left[i - 1] \in Nat PROVE left[i] \in 0..left[i - 1]
  <2>1. CASE i = n
    BY <1>4, <1>6, <2>1
  <2>2. CASE i # n
    BY <1>3, <1>5, <1>6, <2>2
  <2> QED
    BY <2>1, <2>2
<1>7. 0 \in X
  BY <1>4
<1>8. ASSUME NEW i \in Nat, i \in X PROVE i + 1 \in X
  <2> SUFFICES ASSUME i + 1 <= n PROVE left[i + 1] \in Nat
    OBVIOUS
  <2>1. i + 1 \in 1..n /\ (i + 1) - 1 = i /\ left[i] \in Nat
    BY <1>8
  <2> QED
    BY <1>6, <2>1
<1> HIDE DEF X
<1>9. X = Nat
  BY <1>7, <1>8, SetInduction DEF X
<1>10. \A i \in 0..n : left[i] \in Nat
  BY <1>9 DEF X
<1>11. ASSUME NEW i \in 1..n PROVE left[i] <= left[i - 1]
  <2>1. i - 1 \in 0..n
    OBVIOUS
  <2>2. left[i - 1] \in Nat /\ left[i] \in 0..left[i - 1]
    BY <1>6, <1>10, <2>1
  <2> QED
    BY <2>2
<1> QED
  BY <1>4, <1>10, <1>11 DEF left

\* The amounts of a schedule: no amount is negative, and the principal is
\* repaid exactly.
AddUp(amounts, n, principal) ==
  /\ DOMAIN amounts = 1..n
  /\ \A i \in 1..n : amounts[i].principal \in Nat /\ amounts[i].interest \in Nat
  /\ Total(n, [i \in 1..n |-> amounts[i].principal]) = principal

LEMMA SharesAddUp ==
  ASSUME NEW amount \in Nat, NEW n \in Nat \ {0}
  PROVE  /\ \A i \in 1..n : ShareOf(amount, n, i) \in Nat
         /\ Total(n, [i \in 1..n |-> ShareOf(amount, n, i)]) = amount
<1> DEFINE q == amount \div n
           r == amount % n
           f == [i \in 1..n |-> ShareOf(amount, n, i)]
           s == [k \in 0..n |-> k * q + Lesser(k, r)]
<1>1. q \in Nat /\ r \in Nat /\ r < n
  OBVIOUS
<1>2. amount = n * q + (r)
  OBVIOUS
<1>3. \A i \in 1..n : f[i] = q + (IF i - 1 < r THEN 1 ELSE 0)
  BY DEF ShareOf
<1> HIDE DEF q, r
<1>4. \A i \in 1..n : f[i] \in Nat
  BY <1>1, <1>3
<1>5. f \in [1..n -> Int]
  BY <1>4
<1>6. \A i \in 1..n : ShareOf(amount, n, i) \in Nat
  BY <1>4
<1> HIDE DEF f
<1>7. ASSUME NEW k \in 1..n PROVE s[k] = s[k - 1] + f[k]
  <2>1. k \in 0..n /\ k - 1 \in 0..n
    OBVIOUS
  <2>2. s[k] = k * q + Lesser(k, r) /\ s[k - 1] = (k - 1) * q + Lesser(k - 1, r)
    BY <2>1
  <2>3. k * q = (k - 1) * q + q /\ k * q \in Nat /\ (k - 1) * q \in Nat
    BY <1>1
  <2>4. Lesser(k, r) = Lesser(k - 1, r) + (IF k - 1 < r THEN 1 ELSE 0)
    BY <1>1 DEF Lesser
  <2>5. Lesser(k - 1, r) \in Nat
    BY <1>1 DEF Lesser
  <2>6. f[k] = q + (IF k - 1 < r THEN 1 ELSE 0)
    BY <1>3
  <2> HIDE DEF s
  <2> QED
    BY <1>1, <2>2, <2>3, <2>4, <2>5, <2>6
<1>8. s[0] = 0
  BY <1>1 DEF Lesser
<1>9. s[n] = amount
  BY <1>1, <1>2 DEF Lesser
<1> HIDE DEF s
<1>10. Total(n, f) = s[n]
  BY <1>5, <1>7, <1>8, TotalIs
<1> QED
  BY <1>6, <1>9, <1>10 DEF f

LEMMA FlatInterestType ==
  ASSUME NEW principal \in Nat, NEW rate \in Nat, NEW tenure \in Nat
  PROVE  FlatInterest(principal, rate, tenure) \in Nat
<1>1. principal * rate \in Nat
  OBVIOUS
<1>2. principal * rate * tenure \in Nat
  BY <1>1
<1>3. RateBase * 12 \in Nat \ {0}
  BY CalendarAssumption
<1> QED
  BY <1>2, <1>3, HalfUpType DEF FlatInterest

LEMMA FlatAmountsAddUp ==
  ASSUME NEW principal \in Nat, NEW rate \in Nat, NEW tenure \in Nat \ {0},
         NEW frequency \in Frequencies
  PROVE  LET n == InstallmentCount(tenure, frequency)
             amounts == FlatAmounts(principal, rate, tenure, frequency)
         IN  /\ AddUp(amounts, n, principal)
             /\ Total(n, [i \in 1..n |-> amounts[i].interest])
                  = FlatInterest(principal, rate, tenure)
<1> DEFINE n == InstallmentCount(tenure, frequency)
           amounts == FlatAmounts(principal, rate, tenure, frequency)
           interest == FlatInterest(principal, rate, tenure)
<1>1. n \in Nat \ {0} /\ interest \in Nat
  BY InstallmentCountIs, FlatInterestType
<1>2. amounts = [i \in 1..n |-> [principal |-> ShareOf(principal, n, i),
                                 interest |-> ShareOf(interest, n, i)]]
  BY DEF FlatAmounts
<1> HIDE DEF n, amounts, interest
<1>3. \A i \in 1..n : amounts[i].principal = ShareOf(principal, n, i)
                      /\ amounts[i].interest = ShareOf(interest, n, i)
  BY <1>2
<1>4. /\ [i \in 1..n |-> amounts[i].principal] = [i \in 1..n |-> ShareOf(principal, n, i)]
      /\ [i \in 1..n |-> amounts[i].interest] = [i \in 1..n |-> ShareOf(interest, n, i)]
  BY <1>3
<1>5. DOMAIN amounts = 1..n
  BY <1>2
<1>6. AddUp(amounts, n, principal)
  <2>1. Total(n, [i \in 1..n |-> amounts[i].principal]) = principal
    BY <1>1, <1>4, SharesAddUp
  <2>2. \A i \in 1..n : amounts[i].principal \in Nat /\ amounts[i].interest \in Nat
    BY <1>1, <1>3, SharesAddUp, ZenonT(60)
  <2> QED
    BY <1>5, <2>1, <2>2 DEF AddUp
<1>7. Total(n, [i \in 1..n |-> amounts[i].interest]) = interest
  BY <1>1, <1>4, SharesAddUp
<1> QED
  BY <1>6, <1>7 DEF n, amounts, interest

LEMMA ReducingAmountsAddUp ==
  ASSUME NEW principal \in Nat, NEW rate \in Nat, NEW tenure \in Nat \ {0},
         NEW frequency \in Frequencies
  PROVE  AddUp(ReducingAmounts(principal, rate, tenure, frequency),
               InstallmentCount(tenure, frequency), principal)
<1> DEFINE n == InstallmentCount(tenure, frequency)
           base == RateBase * PeriodsPerYear(frequency)
           left == BalanceAfter(principal, rate, base, n)
           floor == principal \div n
           amounts == ReducingAmounts(principal, rate, tenure, frequency)
           f == [i \in 1..n |-> amounts[i].principal]
<1>1. n \in Nat \ {0} /\ floor \in Nat
  BY InstallmentCountIs
<1>2. base \in Nat \ {0}
  BY CalendarAssumption DEF PeriodsPerYear, Frequencies
<1>3. amounts = [i \in 1..n |->
                   IF rate = 0
                   THEN [principal |-> IF i < n THEN floor ELSE principal - floor * (n - 1),
                         interest |-> 0]
                   ELSE [principal |-> left[i - 1] - left[i],
                         interest |-> HalfUp(left[i - 1] * rate, base)]]
  BY DEF ReducingAmounts
<1>4. CASE rate = 0
  <2> DEFINE s == [k \in 0..n |-> IF k < n THEN floor * k ELSE principal]
  <2>1. principal - floor * (n - 1) \in Nat /\ floor * (n - 1) \in Nat
    <3> HIDE DEF n
    <3>1. principal = n * floor + (principal % n) /\ principal % n \in Nat
      BY <1>1
    <3> HIDE DEF floor
    <3>2. n * floor = floor * (n - 1) + floor /\ floor * (n - 1) \in Nat
      BY <1>1
    <3> QED
      BY <1>1, <3>1, <3>2
  <2> HIDE DEF n, amounts, floor
  <2>2. \A i \in 1..n : /\ amounts[i].principal = IF i < n THEN floor
                                                  ELSE principal - floor * (n - 1)
                        /\ amounts[i].interest = 0
    BY <1>3, <1>4
  <2>3. \A i \in 1..n : f[i] \in Nat /\ f[i] = IF i < n THEN floor ELSE principal - floor * (n - 1)
    BY <1>1, <2>1, <2>2
  <2>4. ASSUME NEW k \in 1..n PROVE s[k] = s[k - 1] + f[k]
    <3>1. k \in 0..n /\ k - 1 \in 0..n /\ k - 1 < n
      BY <1>1
    <3>2. s[k - 1] = floor * (k - 1) /\ s[k] = IF k < n THEN floor * k ELSE principal
      BY <3>1
    <3>3. floor * k = floor * (k - 1) + floor /\ floor * (k - 1) \in Nat
      BY <1>1
    <3>4. CASE k < n
      BY <1>1, <2>3, <3>2, <3>3, <3>4
    <3>5. CASE k = n
      BY <1>1, <2>1, <2>3, <3>2, <3>5
    <3> QED
      BY <1>1, <3>4, <3>5
  <2>5. s[0] = 0 /\ s[n] = principal
    BY <1>1
  <2>6. f \in [1..n -> Int]
    BY <2>3
  <2> HIDE DEF s, f
  <2>7. Total(n, f) = principal
    BY <1>1, <2>4, <2>5, <2>6, TotalIs
  <2>8. DOMAIN amounts = 1..n
    BY <1>3
  <2>9. \A i \in 1..n : amounts[i].principal \in Nat /\ amounts[i].interest \in Nat
    BY <2>2, <2>3 DEF f
  <2> QED
    BY <2>7, <2>8, <2>9 DEF AddUp, f, n, amounts
<1>5. CASE rate # 0
  <2> DEFINE s == [k \in 0..n |-> principal - left[k]]
  <2> HIDE DEF n, amounts, floor, base
  <2>1. /\ left[0] = principal /\ left[n] = 0
        /\ \A i \in 0..n : left[i] \in Nat
        /\ \A i \in 1..n : left[i] <= left[i - 1]
    BY <1>1, <1>2, <1>5, BalanceFalls
  <2> HIDE DEF left
  <2>2. \A i \in 1..n : /\ amounts[i].principal = left[i - 1] - left[i]
                        /\ amounts[i].interest = HalfUp(left[i - 1] * rate, base)
    BY <1>3, <1>5
  <2>3. ASSUME NEW i \in 1..n
        PROVE  /\ left[i - 1] \in Nat /\ left[i] \in Nat /\ left[i - 1] - left[i] \in Nat
               /\ HalfUp(left[i - 1] * rate, base) \in Nat
    <3>1. i \in 0..n /\ i - 1 \in 0..n
      BY <1>1
    <3>2. left[i - 1] \in Nat /\ left[i] \in Nat /\ left[i] <= left[i - 1]
      BY <2>1, <3>1
    <3>3. left[i - 1] * rate \in Nat
      BY <3>2
    <3>4. HalfUp(left[i - 1] * rate, base) \in Nat
      BY <1>2, <3>3, HalfUpType
    <3> QED
      BY <3>2, <3>4
  <2>4. \A i \in 1..n : f[i] \in Nat /\ f[i] = left[i - 1] - left[i]
    BY <2>2, <2>3
  <2>5. ASSUME NEW k \in 1..n PROVE s[k] = s[k - 1] + f[k]
    <3>1. s[k] = principal - left[k] /\ s[k - 1] = principal - left[k - 1]
      BY <1>1
    <3> QED
      BY <2>3, <2>4, <3>1
  <2>6. s[0] = 0 /\ s[n] = principal
    BY <1>1, <2>1
  <2>7. f \in [1..n -> Int]
    BY <2>4
  <2> HIDE DEF s, f
  <2>8. Total(n, f) = principal
    BY <1>1, <2>5, <2>6, <2>7, TotalIs
  <2>9. DOMAIN amounts = 1..n
    BY <1>3
  <2>10. \A i \in 1..n : amounts[i].principal \in Nat /\ amounts[i].interest \in Nat
    BY <2>2, <2>3
  <2> QED
    BY <2>8, <2>9, <2>10 DEF AddUp, f, n, amounts
<1> QED
  BY <1>4, <1>5

-----------------------------------------------------------------------------
(* The schedule as a whole. *)
InstallmentRows == [due : Int, principal : Nat, interest : Nat]

IsSchedule(rows, principal) ==
  /\ rows \in Seq(InstallmentRows) /\ rows # <<>>
  /\ TotalPrincipal(rows) = principal
  /\ StrictlyLater(rows)

LEMMA RowsTyped ==
  ASSUME NEW rows \in Seq(InstallmentRows)
  PROVE  \A i \in DOMAIN rows :
           /\ rows[i].due \in Int /\ rows[i].principal \in Nat /\ rows[i].interest \in Nat
<1>1. \A i \in DOMAIN rows : rows[i] \in InstallmentRows
  OBVIOUS
<1> QED
  BY <1>1 DEF InstallmentRows

LEMMA GeneratedSchedule ==
  ASSUME NEW principal \in Nat, NEW tenure \in Nat \ {0}, NEW terms,
         terms.rate \in Nat, terms.frequency \in Frequencies,
         NEW start, StartsInCalendar(start, tenure, terms.frequency)
  PROVE  LET rows == GenerateSchedule(principal, tenure, terms, start)
         IN  /\ IsSchedule(rows, principal)
             /\ \A i \in DOMAIN rows : rows[i].due \notin Holidays
             /\ rows[1].due = NextWorkingDay(DueDate(start, 1, terms.frequency))
             /\ terms.interestType = "flat" =>
                  TotalInterest(rows) = FlatInterest(principal, terms.rate, tenure)
<1> DEFINE n == InstallmentCount(tenure, terms.frequency)
           amounts == IF terms.interestType = "flat"
                      THEN FlatAmounts(principal, terms.rate, tenure, terms.frequency)
                      ELSE ReducingAmounts(principal, terms.rate, tenure, terms.frequency)
           asked == [i \in DOMAIN amounts |-> DueDate(start, i, terms.frequency)]
           due == AdjustForHolidays(asked)
           rows == GenerateSchedule(principal, tenure, terms, start)
<1>1. n \in Nat \ {0} /\ 1 \in 1..n
  BY InstallmentCountIs
<1>2. AddUp(amounts, n, principal)
  BY FlatAmountsAddUp, ReducingAmountsAddUp
<1>3. terms.interestType = "flat" =>
        Total(n, [i \in 1..n |-> amounts[i].interest])
          = FlatInterest(principal, terms.rate, tenure)
  BY FlatAmountsAddUp
<1>4. rows = [i \in DOMAIN amounts |->
                [due |-> due[i], principal |-> amounts[i].principal,
                 interest |-> amounts[i].interest]]
  BY DEF GenerateSchedule
<1>5. \A i \in 1..n : DueDate(start, i, terms.frequency) \in Int
  BY DueDateType
<1> HIDE DEF n, amounts, due, rows
<1>6. /\ DOMAIN amounts = 1..n
      /\ \A i \in 1..n : amounts[i].principal \in Nat /\ amounts[i].interest \in Nat
      /\ Total(n, [i \in 1..n |-> amounts[i].principal]) = principal
  BY <1>2 DEF AddUp
<1>7. /\ asked \in [1..n -> Int]
      /\ asked[1] = DueDate(start, 1, terms.frequency)
  BY <1>1, <1>5, <1>6
<1> HIDE DEF asked
<1>8. /\ due \in [1..n -> Int] /\ due[1] = NextWorkingDay(asked[1])
      /\ \A i \in 1..n - 1 : due[i] < due[i + 1]
      /\ \A i \in 1..n : due[i] \notin Holidays
  BY <1>1, <1>7, AdjustedAscends DEF due
<1>9. \A i \in 1..n : /\ rows[i].due = due[i]
                      /\ rows[i].principal = amounts[i].principal
                      /\ rows[i].interest = amounts[i].interest
                      /\ rows[i] \in InstallmentRows
  BY <1>4, <1>6, <1>8 DEF InstallmentRows
<1>10. DOMAIN rows = 1..n
  BY <1>4, <1>6
<1>11. rows \in [1..n -> InstallmentRows]
  BY <1>4, <1>6, <1>9
<1>12. rows \in Seq(InstallmentRows) /\ Len(rows) = n
  BY <1>1, <1>11
<1>13. rows # <<>>
  BY <1>1, <1>12
<1>14. [i \in DOMAIN rows |-> rows[i].principal] = [i \in 1..n |-> amounts[i].principal]
  BY <1>9, <1>10
<1>15. [i \in DOMAIN rows |-> rows[i].interest] = [i \in 1..n |-> amounts[i].interest]
  BY <1>9, <1>10
<1>16. TotalPrincipal(rows) = principal
  BY <1>6, <1>12, <1>14 DEF TotalPrincipal
<1>17. terms.interestType = "flat" =>
         TotalInterest(rows) = FlatInterest(principal, terms.rate, tenure)
  BY <1>3, <1>12, <1>15 DEF TotalInterest
<1>18. StrictlyLater(rows)
  <2> SUFFICES ASSUME NEW i \in 1..n - 1 PROVE rows[i].due < rows[i + 1].due
    BY <1>12 DEF StrictlyLater
  <2>1. i \in 1..n /\ i + 1 \in 1..n
    BY <1>1
  <2> QED
    BY <1>8, <1>9, <2>1
<1>19. \A i \in DOMAIN rows : rows[i].due \notin Holidays
  BY <1>8, <1>9, <1>10
<1>20. rows[1].due = NextWorkingDay(DueDate(start, 1, terms.frequency))
  BY <1>1, <1>7, <1>8, <1>9
<1>21. IsSchedule(rows, principal)
  BY <1>12, <1>13, <1>16, <1>18 DEF IsSchedule
<1> QED
  BY <1>17, <1>19, <1>20, <1>21 DEF rows

\* For every input the run tries; GeneratedSchedule says it for all others.
LEMMA AuditedSchedules == SchedulesAddUp
<1> SUFFICES ASSUME NEW principal \in AuditPrincipals, NEW rate \in AuditRates,
                    NEW tenure \in AuditTenures, NEW type \in {"flat", "reducing_balance"},
                    NEW frequency \in Frequencies, NEW first \in AuditDays
             PROVE  LET terms == [interestType |-> type, rate |-> rate, frequency |-> frequency]
                        start == StartFor(first, frequency)
                        rows == GenerateSchedule(principal, tenure, terms, start)
                    IN  /\ TotalPrincipal(rows) = principal
                        /\ \A i \in DOMAIN rows :
                             rows[i].principal >= 0 /\ rows[i].interest >= 0
                             /\ rows[i].due \notin Holidays
                        /\ type = "flat" =>
                             TotalInterest(rows) = FlatInterest(principal, rate, tenure)
                        /\ StrictlyLater(rows)
                        /\ (frequency = "monthly" => DueDate(start, 1, frequency) = first)
                           => FirstDue(rows) = NextWorkingDay(first)
  BY DEF SchedulesAddUp
<1> DEFINE terms == [interestType |-> type, rate |-> rate, frequency |-> frequency]
           start == StartFor(first, frequency)
           rows == GenerateSchedule(principal, tenure, terms, start)
<1>1. /\ principal \in Nat /\ rate \in Nat /\ tenure \in Nat \ {0} /\ first \in Int
      /\ InCalendar(first, 1, tenure - 1)
  BY AuditAssumption
<1>2. StartsInCalendar(start, tenure, frequency)
  BY <1>1, StartForIs
<1>3. terms.rate = rate /\ terms.frequency = frequency /\ terms.interestType = type
  OBVIOUS
<1>4. frequency # "monthly" => DueDate(start, 1, frequency) = first
  BY <1>1 DEF StartFor, DueDate, Frequencies
<1> HIDE DEF terms, start
<1>5. /\ IsSchedule(rows, principal)
      /\ \A i \in DOMAIN rows : rows[i].due \notin Holidays
      /\ rows[1].due = NextWorkingDay(DueDate(start, 1, frequency))
      /\ type = "flat" => TotalInterest(rows) = FlatInterest(principal, rate, tenure)
  BY <1>1, <1>2, <1>3, GeneratedSchedule
<1> HIDE DEF rows
<1>6. \A i \in DOMAIN rows : rows[i].principal >= 0 /\ rows[i].interest >= 0
  <2>1. rows \in Seq(InstallmentRows)
    BY <1>5 DEF IsSchedule
  <2> QED
    BY <2>1, RowsTyped
<1>7. (frequency = "monthly" => DueDate(start, 1, frequency) = first)
        => FirstDue(rows) = NextWorkingDay(first)
  BY <1>4, <1>5 DEF FirstDue
<1> QED
  BY <1>5, <1>6, <1>7 DEF IsSchedule, terms, start, rows

(* Whatever the principal, the rate, the tenure, the kind of interest, the
   frequency, the day asked for and the holidays, generateSchedule repays exactly
   the principal, earns exactly the flat interest, and puts the installments on
   ascending working days. *)
THEOREM SchedulesAddUpAlways == Spec => []SchedulesAddUp
<1>1. SchedulesAddUp
  BY AuditedSchedules
<1> QED
  BY <1>1, PTL

-----------------------------------------------------------------------------
(***************************************************************************)
(* The types, and the schedule in force.  A loan carries a schedule from   *)
(* its approval on; the due-date columns are written by the disbursement.  *)
(* The date of an approval was read from the terms of the loan, which no   *)
(* handler changes.                                                        *)
(***************************************************************************)
Scheduled == {"approved"} \union PaidOut

LoanOk(loan) ==
  /\ loan \in LoanRows
  /\ loan.approver # Nobody <=> loan.status \in Scheduled
  /\ loan.rows # <<>> <=> loan.status \in Scheduled
  /\ loan.status \in Scheduled =>
       IsSchedule(loan.rows, loan.principal) /\ TotalInterest(loan.rows) = loan.totalInterest
  /\ loan.disbursedOn # NoDay =>
       /\ loan.status \in PaidOut
       /\ loan.firstDue = FirstDue(loan.rows) /\ loan.lastDue = LastDue(loan.rows)

StartsInv ==
  \A a \in Staff :
    requests[a].op = "approved" =>
      LET loan == loans[requests[a].loan]
      IN  StartsInCalendar(requests[a].start, loan.tenure, loan.terms.frequency)

LoansOk == \A l \in Loans : Exists(l) => LoanOk(loans[l])

AllAsked == \A a \in Staff : requests[a] \in Asked

ProductOk ==
  /\ product.active \in BOOLEAN /\ product.current \in 1..MaxEdits
  /\ product.versions \subseteq [number : 1..MaxEdits, terms : Terms]

TypeInv ==
  /\ LoansOk
  /\ AllAsked
  /\ StartsInv
  /\ ProductOk
  /\ blacklisted \subseteq Customers
  /\ day \in Days

LEMMA TypeInvImplies == LifecycleInv /\ TypeInv => TypeOK /\ ScheduleInForce
<1> SUFFICES ASSUME LifecycleInv, TypeInv PROVE TypeOK /\ ScheduleInForce
  OBVIOUS
<1>1. loans \in [Loans -> LoanRows \union {Absent}]
  BY DEF LifecycleInv, Shaped, TypeInv, LoansOk, LoanOk, Exists
<1>2. history \in [Loans -> Seq(HistoryRows)]
  <2>1. Entries = HistoryRows
    BY DEF Entries, HistoryRows, Decisions
  <2> QED
    BY <2>1 DEF LifecycleInv, Shaped
<1>3. requests \in [Staff -> Asked]
  BY DEF LifecycleInv, Shaped, TypeInv, AllAsked
<1>4. ASSUME NEW l \in Loans, Exists(l)
      PROVE  LET decided == loans[l].status \notin {"draft", "submitted", "under_review",
                                                    "rejected"}
             IN  (loans[l].approver # Nobody <=> decided) /\ (loans[l].rows # <<>> <=> decided)
  <2>1. LoanOk(loans[l]) /\ loans[l].status \in Before \union PaidOut
    BY <1>4 DEF TypeInv, LoansOk, LifecycleInv, Shaped, IsLoan
  <2>2. loans[l].status \in Scheduled
          <=> loans[l].status \notin {"draft", "submitted", "under_review", "rejected"}
    BY <2>1 DEF Scheduled, PaidOut, Before
  <2> QED
    BY <2>1, <2>2 DEF LoanOk
<1>5. TypeOK
  BY <1>1, <1>2, <1>3, <1>4 DEF TypeOK, TypeInv, ProductOk
<1>6. ASSUME NEW l \in Loans, StageOf(l) \in {"approved", "disbursed"}
      PROVE  LET loan == loans[l]
             IN  /\ TotalPrincipal(loan.rows) = loan.principal
                 /\ TotalInterest(loan.rows) = loan.totalInterest
                 /\ StrictlyLater(loan.rows)
                 /\ loan.disbursedOn # NoDay =>
                      loan.firstDue = FirstDue(loan.rows) /\ loan.lastDue = LastDue(loan.rows)
  <2>1. Exists(l)
    BY <1>6 DEF StageOf, Exists, Absent, Live
  <2>2. LoanOk(loans[l]) /\ loans[l].status \in Before \union PaidOut
    BY <2>1 DEF TypeInv, LoansOk, LifecycleInv, Shaped, IsLoan
  <2>3. loans[l].status \in Scheduled
    BY <1>6, <2>2 DEF StageOf, Live, Scheduled, PaidOut, Before
  <2> QED
    BY <2>2, <2>3 DEF LoanOk, IsSchedule
<1>7. ScheduleInForce
  BY <1>6 DEF ScheduleInForce
<1> QED
  BY <1>5, <1>7

LEMMA InitTypes == Init => TypeInv
<1> SUFFICES ASSUME Init PROVE TypeInv
  OBVIOUS
<1>1. LoansOk
  BY DEF Init, LoansOk, Exists
<1>2. AllAsked
  BY DEF Init, AllAsked, Asked
<1>3. StartsInv
  BY DEF Init, StartsInv, Idle
<1>4. ProductOk
  BY LifecycleBoundAssumption DEF Init, ProductOk
<1> QED
  BY <1>1, <1>2, <1>3, <1>4 DEF Init, TypeInv

\* The columns a schedule fills.
LEMMA ScheduleColumns ==
  ASSUME NEW rows, NEW principal, IsSchedule(rows, principal)
  PROVE  /\ rows \in Seq([due : Int, principal : Nat, interest : Nat]) /\ rows # <<>>
         /\ TotalInterest(rows) \in Nat
         /\ FirstDue(rows) \in Int /\ LastDue(rows) \in Int
<1>1. rows \in Seq(InstallmentRows) /\ rows # <<>>
  BY DEF IsSchedule
<1>2. Len(rows) \in Nat /\ DOMAIN rows = 1..Len(rows) /\ 1 \in 1..Len(rows)
      /\ Len(rows) \in 1..Len(rows)
  BY <1>1
<1>3. [i \in DOMAIN rows |-> rows[i].interest] \in [1..Len(rows) -> Nat]
  BY <1>1, <1>2, RowsTyped
<1>4. TotalInterest(rows) \in Nat
  BY <1>2, <1>3, TotalNonNegative DEF TotalInterest
<1>5. FirstDue(rows) \in Int /\ LastDue(rows) \in Int
  BY <1>1, <1>2, RowsTyped DEF FirstDue, LastDue
<1> QED
  BY <1>1, <1>4, <1>5 DEF InstallmentRows

\* A loan gets a whole schedule, from whatever start was read for it.
LEMMA RowsAreSchedule ==
  ASSUME NEW loan \in LoanRows, NEW start,
         StartsInCalendar(start, loan.tenure, loan.terms.frequency)
  PROVE  IsSchedule(Rows(loan, start), loan.principal)
<1>1. /\ loan.principal \in Nat /\ loan.tenure \in Nat \ {0}
      /\ loan.terms.rate \in Nat /\ loan.terms.frequency \in Frequencies
  BY LifecycleBoundAssumption DEF LoanRows, Terms
<1> QED
  BY <1>1, GeneratedSchedule DEF Rows

LEMMA FirstDateStarts ==
  ASSUME NEW loan \in LoanRows, NEW first \in FirstDates
  PROVE  StartsInCalendar(StartFor(first, loan.terms.frequency), loan.tenure,
                          loan.terms.frequency)
<1>1. /\ loan.tenure \in Tenures /\ loan.tenure \in Nat \ {0}
      /\ loan.terms.frequency \in Frequencies /\ first \in Int
  BY LifecycleBoundAssumption DEF LoanRows, Terms
<1>2. InCalendar(first, 1, loan.tenure - 1)
  BY <1>1, CalendarReaches
<1> QED
  BY <1>1, <1>2, StartForIs

LEMMA TodayStarts ==
  ASSUME NEW loan \in LoanRows, day \in Days
  PROVE  StartsInCalendar(day, loan.tenure, loan.terms.frequency)
<1>1. loan.tenure \in Tenures /\ day \in Int
  BY LifecycleBoundAssumption DEF LoanRows
<1> QED
  BY <1>1, CalendarReaches DEF StartsInCalendar

-----------------------------------------------------------------------------
(* What a step does to one loan, and to one request. *)
LEMMA AskedFields ==
  ASSUME NEW r \in Asked
  PROVE  /\ r.op = "create" => /\ r.customer \in Customers /\ r.terms \in Terms
                               /\ r.principal \in Principals /\ r.tenure \in Tenures
         /\ r.op = "disburse" => r.first \in AnyDate
         /\ r.op = "regenerate" => r.first \in FirstDates
         /\ r.op \in {"edit", "numbered"} => r.terms \in Terms
         /\ r.op = "numbered" => r.number \in Nat
BY DEF Asked, Idle

LEMMA LoanWrittenOk ==
  ASSUME LifecycleInv, LoansOk, NEW l \in Loans, NEW new, LoanOk(new),
         loans' = [loans EXCEPT ![l] = new]
  PROVE  LoansOk'
BY DEF LifecycleInv, Shaped, LoansOk, Exists

LEMMA RequestTyped ==
  ASSUME LifecycleInv, AllAsked, NEW a \in Staff, NEW r \in Asked,
         requests' = [requests EXCEPT ![a] = r]
  PROVE  /\ AllAsked'
         /\ \A b \in Staff : requests'[b] = IF b = a THEN r ELSE requests[b]
BY DEF LifecycleInv, Shaped, AllAsked

LEMMA DoneTyped ==
  ASSUME LifecycleInv, AllAsked, NEW a \in Staff, Done(a)
  PROVE  /\ AllAsked'
         /\ \A b \in Staff : requests'[b] = requests[b] \/ requests'[b].op # "approved"
<1>1. Idle \in Asked /\ Idle.op # "approved"
  BY DEF Asked, Idle
<1>2. requests' = [requests EXCEPT ![a] = Idle]
  BY DEF Done
<1>3. AllAsked' /\ \A b \in Staff : requests'[b] = IF b = a THEN Idle ELSE requests[b]
  BY <1>1, <1>2, RequestTyped
<1> QED
  BY <1>1, <1>3

LEMMA StartsKept ==
  ASSUME LifecycleInv, StartsInv,
         \A l \in Loans : Exists(l) => /\ loans'[l].tenure = loans[l].tenure
                                       /\ loans'[l].terms = loans[l].terms,
         \A a \in Staff : requests'[a] = requests[a] \/ requests'[a].op # "approved"
  PROVE  StartsInv'
<1> SUFFICES ASSUME NEW a \in Staff, requests'[a] = requests[a], requests[a].op = "approved"
             PROVE  LET loan == loans'[requests[a].loan]
                    IN  StartsInCalendar(requests[a].start, loan.tenure, loan.terms.frequency)
  BY DEF StartsInv
<1>1. requests[a].loan \in Loans /\ Exists(requests[a].loan)
  BY DEF LifecycleInv, DecisionsInv, Decisions
<1> QED
  BY <1>1 DEF StartsInv

StartsRight(r) ==
  LET loan == loans[r.loan]
  IN  StartsInCalendar(r.start, loan.tenure, loan.terms.frequency)

\* The requests, each with what it was read for.
LEMMA RequestTypes ==
  ASSUME LifecycleInv, VersionsInv, TypeInv, NEW a \in Staff, Request(a)
  PROVE  \E r \in Asked : /\ requests' = [requests EXCEPT ![a] = r]
                          /\ r.op = "approved" => StartsRight(r)
<1> DEFINE Puts == \E r \in Asked : /\ requests' = [requests EXCEPT ![a] = r]
                                    /\ r.op = "approved" => StartsRight(r)
<1>1. ASSUME NEW c \in Customers, NEW p \in Principals, NEW t \in Tenures,
             ReadCreate(a, c, p, t)
      PROVE  Puts
  <2>1. PICK v \in product.versions :
          requests' = [requests EXCEPT ![a] =
            [op |-> "create", customer |-> c, terms |-> v.terms,
             principal |-> p, tenure |-> t]]
    BY <1>1 DEF ReadCreate, Ask
  <2>2. v.terms \in Terms
    BY DEF TypeInv, ProductOk
  <2> DEFINE r == [op |-> "create", customer |-> c, terms |-> v.terms,
                   principal |-> p, tenure |-> t]
  <2>3. r \in Asked /\ r.op # "approved"
    BY <2>2 DEF Asked
  <2> QED
    BY <2>1, <2>3
<1>2. ASSUME NEW l \in Loans, NEW to \in Decisions, NEW first \in AnyDate,
             ReadDecision(a, l, to, first)
      PROVE  Puts
  <2> DEFINE start == IF first = NoDay THEN day ELSE StartFor(first, loans[l].terms.frequency)
             r == [op |-> to, loan |-> l, version |-> loans[l].version, start |-> start]
  <2>1. /\ Exists(l) /\ requests' = [requests EXCEPT ![a] = r]
        /\ to # "approved" => first = NoDay
    BY <1>2 DEF ReadDecision, Ask
  <2>2. LoanOk(loans[l]) /\ day \in Days /\ day \in Int
    BY <2>1, LifecycleBoundAssumption DEF TypeInv, LoansOk
  <2>3. loans[l] \in LoanRows /\ loans[l].version \in 1..MaxVersion
    BY <2>2 DEF LoanOk, LoanRows
  <2>4. StartsInCalendar(start, loans[l].tenure, loans[l].terms.frequency)
    BY <2>2, <2>3, FirstDateStarts, TodayStarts DEF AnyDate
  <2>5. start \in Int
    BY <2>4 DEF StartsInCalendar
  <2> HIDE DEF start
  <2>6. r \in Asked /\ r.loan = l /\ r.start = start
    BY <2>3, <2>5 DEF Asked, Decisions
  <2> QED
    BY <2>1, <2>4, <2>6 DEF StartsRight
<1>3. ASSUME NEW l \in Loans, NEW first \in AnyDate, ReadDisburse(a, l, first)
      PROVE  Puts
  <2> DEFINE r == [op |-> "disburse", loan |-> l, first |-> first]
  <2>1. requests' = [requests EXCEPT ![a] = r]
    BY <1>3 DEF ReadDisburse, Ask
  <2>2. r \in Asked /\ r.op # "approved"
    BY DEF Asked
  <2> QED
    BY <2>1, <2>2
<1>4. ASSUME NEW l \in Loans, NEW first \in FirstDates, ReadRegenerate(a, l, first)
      PROVE  Puts
  <2> DEFINE r == [op |-> "regenerate", loan |-> l, version |-> loans[l].version, first |-> first]
  <2>1. Exists(l) /\ requests' = [requests EXCEPT ![a] = r]
    BY <1>4 DEF ReadRegenerate, Ask
  <2>2. loans[l].version \in 1..MaxVersion
    BY <2>1 DEF TypeInv, LoansOk, LoanOk, LoanRows
  <2>3. r \in Asked /\ r.op # "approved"
    BY <2>2 DEF Asked
  <2> QED
    BY <2>1, <2>3
<1>5. ASSUME NEW rate \in Rates, NEW cap \in Caps, ReadProduct(a, rate, cap)
      PROVE  Puts
  <2> DEFINE r == [op |-> "edit",
                   terms |-> [CurrentTerms EXCEPT !.rate = rate, !.maxConcurrent = cap]]
  <2>1. requests' = [requests EXCEPT ![a] = r]
    BY <1>5 DEF ReadProduct, Ask
  <2>2. CurrentTerms \in Terms
    <3>1. \E v \in product.versions : v.number = product.current
      BY DEF VersionsInv, Numbers
    <3>2. (CHOOSE v \in product.versions : v.number = product.current) \in product.versions
      BY <3>1
    <3> QED
      BY <3>2 DEF CurrentTerms, TypeInv, ProductOk
  <2>3. [CurrentTerms EXCEPT !.rate = rate, !.maxConcurrent = cap] \in Terms
    <3>1. rate \in Nat /\ cap \in Nat
      BY LifecycleBoundAssumption
    <3> QED
      BY <2>2, <3>1 DEF Terms
  <2>4. r \in Asked /\ r.op # "approved"
    BY <2>3 DEF Asked
  <2> QED
    BY <2>1, <2>4
<1>6. ASSUME ReadDeactivate(a) PROVE Puts
  <2> DEFINE r == [op |-> "deactivate"]
  <2>1. requests' = [requests EXCEPT ![a] = r]
    BY <1>6 DEF ReadDeactivate, Ask
  <2>2. r \in Asked /\ r.op # "approved"
    BY DEF Asked
  <2> QED
    BY <2>1, <2>2
<1> HIDE DEF Puts
<1>7. Puts
  BY <1>1, <1>2, <1>3, <1>4, <1>5, <1>6 DEF Request, Decisions
<1> QED
  BY <1>7 DEF Puts

LEMMA RequestsKeepTypes ==
  ASSUME LifecycleInv, VersionsInv, TypeInv, NEW a \in Staff, Request(a)
  PROVE  TypeInv'
<1>1. UNCHANGED <<loans, blacklisted, product, day>>
  BY DEF Request, ReadCreate, ReadDecision, ReadDisburse, ReadRegenerate, ReadProduct,
         ReadDeactivate
<1>2. PICK r \in Asked : /\ requests' = [requests EXCEPT ![a] = r]
                         /\ r.op = "approved" => StartsRight(r)
  BY RequestTypes
<1>3. AllAsked' /\ \A b \in Staff : requests'[b] = IF b = a THEN r ELSE requests[b]
  BY <1>2, RequestTyped DEF TypeInv
<1>4. StartsInv'
  <2> SUFFICES ASSUME NEW b \in Staff, requests'[b].op = "approved"
               PROVE  LET loan == loans[requests'[b].loan]
                      IN  StartsInCalendar(requests'[b].start, loan.tenure, loan.terms.frequency)
    BY <1>1 DEF StartsInv
  <2>1. CASE b = a
    BY <1>2, <1>3, <2>1 DEF StartsRight
  <2>2. CASE b # a
    BY <1>3, <2>2 DEF TypeInv, StartsInv
  <2> QED
    BY <2>1, <2>2
<1>5. LoansOk' /\ ProductOk'
  BY <1>1 DEF TypeInv, LoansOk, ProductOk, Exists
<1> QED
  BY <1>1, <1>3, <1>4, <1>5 DEF TypeInv

-----------------------------------------------------------------------------
(* The writes. *)

\* One loan is written, and nobody is left approving it on other terms.
LEMMA WriteTypes ==
  ASSUME LifecycleInv, TypeInv, NEW l \in Loans, NEW new, LoanOk(new),
         loans' = [loans EXCEPT ![l] = new],
         Exists(l) => new.tenure = loans[l].tenure /\ new.terms = loans[l].terms,
         AllAsked',
         \A b \in Staff : requests'[b] = requests[b] \/ requests'[b].op # "approved",
         UNCHANGED <<blacklisted, product, day>>
  PROVE  TypeInv'
<1>1. \A k \in Loans : loans'[k] = IF k = l THEN new ELSE loans[k]
  BY DEF LifecycleInv, Shaped
<1>2. StartsInv'
  BY <1>1, StartsKept DEF TypeInv
<1>3. LoansOk'
  BY LoanWrittenOk DEF TypeInv
<1>4. ProductOk'
  BY DEF TypeInv, ProductOk
<1> QED
  BY <1>2, <1>3, <1>4 DEF TypeInv

LEMMA InsertTypes ==
  ASSUME LifecycleInv, TypeInv, NEW a \in Staff, NEW l \in Loans, InsertLoan(a, l)
  PROVE  TypeInv'
<1> DEFINE r == requests[a]
           new == [status |-> "draft", version |-> 1, customer |-> r.customer,
                   terms |-> r.terms, principal |-> r.principal, tenure |-> r.tenure,
                   maker |-> a, approver |-> Nobody, rows |-> <<>>, totalInterest |-> 0,
                   firstDue |-> NoDay, lastDue |-> NoDay, disbursedOn |-> NoDay,
                   collected |-> FALSE]
           asked == [op |-> "created", loan |-> l]
<1>1. /\ r.op = "create" /\ ~ Exists(l) /\ loans' = [loans EXCEPT ![l] = new]
      /\ requests' = [requests EXCEPT ![a] = asked] /\ UNCHANGED <<blacklisted, product, day>>
  BY DEF InsertLoan, Ask
<1>2. /\ r.customer \in Customers /\ r.terms \in Terms
      /\ r.principal \in Principals /\ r.tenure \in Tenures
  BY <1>1, AskedFields DEF TypeInv, AllAsked
<1>3. asked \in Asked /\ asked.op # "approved"
  BY DEF Asked
<1> HIDE DEF r, asked
<1>4. new \in LoanRows
  <2>1. 1 \in 1..MaxVersion
    BY LifecycleBoundAssumption
  <2>2. <<>> \in Seq([due : Int, principal : Nat, interest : Nat])
    OBVIOUS
  <2> QED
    BY <1>2, <2>1, <2>2 DEF LoanRows, Open
<1>5. /\ new.status = "draft" /\ new.approver = Nobody /\ new.rows = <<>>
      /\ new.disbursedOn = NoDay
  OBVIOUS
<1> HIDE DEF new
<1>6. LoanOk(new)
  BY <1>4, <1>5 DEF LoanOk, Scheduled, PaidOut
<1>7. AllAsked' /\ \A b \in Staff : requests'[b] = IF b = a THEN asked ELSE requests[b]
  BY <1>1, <1>3, RequestTyped DEF TypeInv
<1> QED
  BY <1>1, <1>3, <1>6, <1>7, WriteTypes

LEMMA DecideTypes ==
  ASSUME LifecycleInv, TypeInv, NEW a \in Staff, Decide(a)
  PROVE  TypeInv'
<1> DEFINE r == requests[a]
           l == r.loan
           old == loans[l]
           new == [old EXCEPT !.status = r.op, !.version = old.version + 1]
<1>1. /\ r.op \in {"submitted", "under_review", "rejected"} /\ StillAt(r) /\ Done(a)
      /\ UNCHANGED <<blacklisted, product, day>>
  BY DEF Decide
<1>2. l \in Loans /\ Exists(l) /\ old.status \in {"draft", "submitted", "under_review"}
      /\ old.version < MaxVersion
  BY <1>1, DecisionAllowed DEF Decisions, StillAt
<1>3. loans' = [loans EXCEPT ![l] = new]
  BY DEF Decide
<1>4. LoanOk(old)
  BY <1>2 DEF TypeInv, LoansOk
<1> HIDE DEF r, l, old
<1>5. old \in LoanRows /\ old.version + 1 \in 1..MaxVersion
  BY <1>2, <1>4, LifecycleBoundAssumption DEF LoanOk, LoanRows
<1>6. new \in LoanRows
  BY <1>1, <1>5 DEF LoanRows, Open
<1>7. /\ new.status = r.op /\ new.approver = old.approver /\ new.rows = old.rows
      /\ new.disbursedOn = old.disbursedOn /\ new.tenure = old.tenure /\ new.terms = old.terms
  BY <1>5 DEF LoanRows
<1> HIDE DEF new
<1>8. LoanOk(new)
  BY <1>1, <1>2, <1>4, <1>6, <1>7 DEF LoanOk, Scheduled, PaidOut
<1>9. AllAsked' /\ \A b \in Staff : requests'[b] = requests[b] \/ requests'[b].op # "approved"
  BY <1>1, DoneTyped DEF TypeInv
<1> QED
  BY <1>1, <1>2, <1>3, <1>7, <1>8, <1>9, WriteTypes DEF old

LEMMA ApproveTypes ==
  ASSUME LifecycleInv, TypeInv, NEW a \in Staff, Approve(a)
  PROVE  TypeInv'
<1> DEFINE r == requests[a]
           l == r.loan
           old == loans[l]
           rows == Rows(old, r.start)
           interest == TotalInterest(rows)
           new == [old EXCEPT !.status = "approved", !.version = old.version + 1,
                              !.approver = a, !.rows = rows, !.totalInterest = interest]
<1>1. /\ r.op = "approved" /\ StillAt(r) /\ Done(a)
      /\ UNCHANGED <<blacklisted, product, day>>
  BY DEF Approve
<1>2. l \in Loans /\ Exists(l) /\ old.status = "under_review" /\ old.version < MaxVersion
  BY <1>1, DecisionAllowed DEF Decisions, StillAt
<1>3. loans' = [loans EXCEPT ![l] = new]
  BY DEF Approve
<1>4. LoanOk(old) /\ old \in LoanRows
  BY <1>2 DEF TypeInv, LoansOk, LoanOk
<1>5. StartsInCalendar(r.start, old.tenure, old.terms.frequency)
  BY <1>1 DEF TypeInv, StartsInv
<1>6. IsSchedule(rows, old.principal)
  BY <1>4, <1>5, RowsAreSchedule
<1>7. /\ rows \in Seq([due : Int, principal : Nat, interest : Nat]) /\ rows # <<>>
      /\ interest \in Nat
  BY <1>6, ScheduleColumns
<1>8. interest = TotalInterest(rows)
  OBVIOUS
<1> HIDE DEF r, l, old, rows, interest
<1>9. old.version + 1 \in 1..MaxVersion
  BY <1>2, <1>4, LifecycleBoundAssumption DEF LoanRows
<1>10. new \in LoanRows
  BY <1>4, <1>7, <1>9 DEF LoanRows, Open
<1>11. /\ new.status = "approved" /\ new.approver = a /\ new.rows = rows
       /\ new.totalInterest = interest /\ new.principal = old.principal
       /\ new.disbursedOn = old.disbursedOn /\ new.tenure = old.tenure /\ new.terms = old.terms
  BY <1>4 DEF LoanRows
<1> HIDE DEF new
<1>12. old.disbursedOn = NoDay
  BY <1>2, <1>4 DEF LoanOk, PaidOut
<1>13. LoanOk(new)
  BY <1>6, <1>7, <1>8, <1>10, <1>11, <1>12, StaffAssumption DEF LoanOk, Scheduled
<1>14. AllAsked' /\ \A b \in Staff : requests'[b] = requests[b] \/ requests'[b].op # "approved"
  BY <1>1, DoneTyped DEF TypeInv
<1> QED
  BY <1>1, <1>2, <1>3, <1>11, <1>13, <1>14, WriteTypes DEF old

LEMMA DisburseTypes ==
  ASSUME LifecycleInv, TypeInv, NEW a \in Staff, Disburse(a)
  PROVE  TypeInv'
<1> DEFINE r == requests[a]
           l == r.loan
           old == loans[l]
           rows == IF r.first = NoDay THEN old.rows
                   ELSE Rows(old, StartFor(r.first, old.terms.frequency))
           interest == TotalInterest(rows)
           begins == FirstDue(rows)
           ends == LastDue(rows)
           new == [old EXCEPT !.status = "active", !.version = old.version + 1, !.rows = rows,
                              !.totalInterest = interest, !.firstDue = begins,
                              !.lastDue = ends, !.disbursedOn = day]
<1>1. /\ r.op = "disburse" /\ "disbursed" \in Allowed(old.status) /\ old.version < MaxVersion
      /\ Done(a) /\ UNCHANGED <<blacklisted, product, day>>
  BY DEF Disburse
<1>2. l \in Loans /\ Exists(l) /\ old.status = "approved"
  BY <1>1, AllowedIs, SMTT(60) DEF LifecycleInv, DecisionsInv
<1>3. loans' = [loans EXCEPT ![l] = new]
  BY ZenonT(60) DEF Disburse
<1>4. LoanOk(old) /\ old \in LoanRows
  BY <1>2 DEF TypeInv, LoansOk, LoanOk
<1>5. r.first \in FirstDates \/ r.first = NoDay
  BY <1>1, AskedFields DEF TypeInv, AllAsked, AnyDate
<1>6. IsSchedule(rows, old.principal)
  <2>1. CASE r.first = NoDay
    BY <1>2, <1>4, <2>1 DEF LoanOk, Scheduled
  <2>2. CASE r.first # NoDay
    BY <1>4, <1>5, <2>2, FirstDateStarts, RowsAreSchedule
  <2> QED
    BY <2>1, <2>2
<1>7. /\ rows \in Seq([due : Int, principal : Nat, interest : Nat]) /\ rows # <<>>
      /\ interest \in Nat /\ begins \in Int /\ ends \in Int
  BY <1>6, ScheduleColumns
<1>8. interest = TotalInterest(rows) /\ begins = FirstDue(rows) /\ ends = LastDue(rows)
  OBVIOUS
<1> HIDE DEF r, l, old, rows, interest, begins, ends
<1>9. old.version + 1 \in 1..MaxVersion /\ day \in Days
  BY <1>1, <1>4, LifecycleBoundAssumption DEF LoanRows, TypeInv
<1>10. new \in LoanRows
  BY <1>4, <1>7, <1>9 DEF LoanRows, Open
<1>11. /\ new.status = "active" /\ new.approver = old.approver /\ new.rows = rows
       /\ new.totalInterest = interest /\ new.principal = old.principal
       /\ new.firstDue = begins /\ new.lastDue = ends
       /\ new.tenure = old.tenure /\ new.terms = old.terms
  BY <1>4 DEF LoanRows
<1> HIDE DEF new
<1>12. old.approver # Nobody
  BY <1>2, <1>4 DEF LoanOk, Scheduled
<1>13. LoanOk(new)
  BY <1>6, <1>7, <1>8, <1>10, <1>11, <1>12 DEF LoanOk, Scheduled, PaidOut
<1>14. AllAsked' /\ \A b \in Staff : requests'[b] = requests[b] \/ requests'[b].op # "approved"
  BY <1>1, DoneTyped DEF TypeInv
<1> QED
  BY <1>1, <1>2, <1>3, <1>11, <1>13, <1>14, WriteTypes DEF old

LEMMA RegenerateTypes ==
  ASSUME LifecycleInv, TypeInv, NEW a \in Staff, Regenerate(a)
  PROVE  TypeInv'
<1> DEFINE r == requests[a]
           l == r.loan
           old == loans[l]
           rows == Rows(old, StartFor(r.first, old.terms.frequency))
           new == Rescheduled(old, rows)
<1>1. /\ r.op = "regenerate" /\ old.status \in {"approved", "active"}
      /\ old.version < MaxVersion
      /\ Done(a) /\ UNCHANGED <<blacklisted, product, day>>
  BY DEF Regenerate, StillRegenerable, Regenerable, StillAt
<1>2. l \in Loans /\ Exists(l)
  BY <1>1 DEF LifecycleInv, DecisionsInv
<1>3. loans' = [loans EXCEPT ![l] = new]
  BY DEF Regenerate
<1>4. LoanOk(old) /\ old \in LoanRows
  BY <1>2 DEF TypeInv, LoansOk, LoanOk
<1>5. r.first \in FirstDates
  BY <1>1, AskedFields DEF TypeInv, AllAsked
<1>6. IsSchedule(rows, old.principal)
  BY <1>4, <1>5, FirstDateStarts, RowsAreSchedule
<1>7. /\ rows \in Seq([due : Int, principal : Nat, interest : Nat]) /\ rows # <<>>
      /\ TotalInterest(rows) \in Nat /\ FirstDue(rows) \in Int /\ LastDue(rows) \in Int
  BY <1>6, ScheduleColumns
<1> HIDE DEF r, l, old, rows
<1>8. old.version + 1 \in 1..MaxVersion
  BY <1>1, <1>4, LifecycleBoundAssumption DEF LoanRows
<1>9. new \in LoanRows
  BY <1>4, <1>7, <1>8 DEF LoanRows, Rescheduled
<1>10. /\ new.status = old.status /\ new.approver = old.approver /\ new.rows = rows
       /\ new.totalInterest = TotalInterest(rows) /\ new.principal = old.principal
       /\ new.firstDue = FirstDue(rows) /\ new.lastDue = LastDue(rows)
       /\ new.disbursedOn = old.disbursedOn /\ new.tenure = old.tenure /\ new.terms = old.terms
  BY <1>4 DEF LoanRows, Rescheduled
<1> HIDE DEF new
<1>11. LoanOk(new)
  BY <1>1, <1>4, <1>6, <1>7, <1>9, <1>10 DEF LoanOk, Scheduled, PaidOut
<1>12. AllAsked' /\ \A b \in Staff : requests'[b] = requests[b] \/ requests'[b].op # "approved"
  BY <1>1, DoneTyped DEF TypeInv
<1> QED
  BY <1>1, <1>2, <1>3, <1>10, <1>11, <1>12, WriteTypes DEF old

\* A step of LoanAccount, which leaves the schedule and the decisions alone.
LEMMA ServicedTypes ==
  ASSUME LifecycleInv, TypeInv, NEW l \in Loans, NEW new \in LoanRows, Exists(l),
         loans' = [loans EXCEPT ![l] = new], UNCHANGED <<blacklisted, product, requests, day>>,
         loans[l].status \in PaidOut, new.status \in PaidOut,
         \A f \in {"approver", "rows", "totalInterest", "principal", "firstDue", "lastDue",
                   "disbursedOn", "tenure", "terms"} : new[f] = loans[l][f]
  PROVE  TypeInv'
<1>1. LoanOk(loans[l])
  BY DEF TypeInv, LoansOk
<1>2. /\ new.approver = loans[l].approver /\ new.rows = loans[l].rows
      /\ new.totalInterest = loans[l].totalInterest /\ new.principal = loans[l].principal
      /\ new.firstDue = loans[l].firstDue /\ new.lastDue = loans[l].lastDue
      /\ new.disbursedOn = loans[l].disbursedOn /\ new.tenure = loans[l].tenure
      /\ new.terms = loans[l].terms
  OBVIOUS
<1>3. LoanOk(new)
  BY <1>1, <1>2 DEF LoanOk, Scheduled
<1>4. AllAsked' /\ \A b \in Staff : requests'[b] = requests[b]
  BY DEF TypeInv, AllAsked
<1> QED
  BY <1>2, <1>3, <1>4, WriteTypes

LEMMA PaidOutTypes ==
  ASSUME LifecycleInv, TypeInv, NEW l \in Loans, Collect(l) \/ FallOverdue(l) \/ Settle(l)
  PROVE  TypeInv'
<1> DEFINE old == loans[l]
           Same(new) == \A f \in {"approver", "rows", "totalInterest", "principal", "firstDue",
                                  "lastDue", "disbursedOn", "tenure", "terms"} : new[f] = old[f]
<1>1. /\ Exists(l) /\ old.status \in Live
      /\ UNCHANGED <<blacklisted, product, requests, day>>
  BY DEF Collect, FallOverdue, Settle, Live
<1>2. old \in LoanRows
  BY <1>1 DEF TypeInv, LoansOk, LoanOk
<1>3. \E new \in LoanRows : /\ loans' = [loans EXCEPT ![l] = new]
                            /\ new.status \in PaidOut /\ Same(new)
  <2>1. CASE loans' = [loans EXCEPT ![l].collected = TRUE]
    <3>1. loans' = [loans EXCEPT ![l] = [old EXCEPT !.collected = TRUE]]
      BY <2>1
    <3> HIDE DEF old
    <3>2. LET new == [old EXCEPT !.collected = TRUE]
          IN  new \in LoanRows /\ new.status \in PaidOut /\ Same(new)
      BY <1>1, <1>2 DEF LoanRows, Live, PaidOut
    <3> QED
      BY <3>1, <3>2
  <2>2. CASE /\ old.version < MaxVersion
             /\ loans' = [loans EXCEPT ![l].collected = TRUE, ![l].status = "active",
                                       ![l].version = @ + 1]
    <3>1. loans' = [loans EXCEPT ![l] = [old EXCEPT !.collected = TRUE, !.status = "active",
                                                    !.version = old.version + 1]]
      BY <2>2
    <3> HIDE DEF old
    <3>2. old.version + 1 \in 1..MaxVersion
      BY <1>2, <2>2, LifecycleBoundAssumption, SMTT(60) DEF LoanRows
    <3>3. LET new == [old EXCEPT !.collected = TRUE, !.status = "active",
                                 !.version = old.version + 1]
          IN  new \in LoanRows /\ new.status \in PaidOut /\ Same(new)
      BY <1>1, <1>2, <3>2 DEF LoanRows, Open, PaidOut
    <3> QED
      BY <3>1, <3>3
  <2>3. CASE loans' = [loans EXCEPT ![l].status = "overdue"]
    <3>1. loans' = [loans EXCEPT ![l] = [old EXCEPT !.status = "overdue"]]
      BY <2>3
    <3> HIDE DEF old
    <3>2. LET new == [old EXCEPT !.status = "overdue"]
          IN  new \in LoanRows /\ new.status \in PaidOut /\ Same(new)
      BY <1>2 DEF LoanRows, Open, PaidOut
    <3> QED
      BY <3>1, <3>2
  <2>4. ASSUME NEW s \in {"closed", "foreclosed"},
               loans' = [loans EXCEPT ![l].collected = TRUE, ![l].status = s]
        PROVE  \E new \in LoanRows : /\ loans' = [loans EXCEPT ![l] = new]
                                     /\ new.status \in PaidOut /\ Same(new)
    <3>1. loans' = [loans EXCEPT ![l] = [old EXCEPT !.collected = TRUE, !.status = s]]
      BY <2>4
    <3> HIDE DEF old
    <3>2. LET new == [old EXCEPT !.collected = TRUE, !.status = s]
          IN  new \in LoanRows /\ new.status \in PaidOut /\ Same(new)
      BY <1>2 DEF LoanRows, Open, PaidOut
    <3> QED
      BY <3>1, <3>2
  <2> QED
    BY <2>1, <2>2, <2>3, <2>4 DEF Collect, FallOverdue, Settle
<1> QED
  BY <1>1, <1>3, ServicedTypes DEF Live, PaidOut

\* A step that changes no loan, with a request that is not an approval.
LEMMA ElsewhereTypes ==
  ASSUME LifecycleInv, TypeInv, UNCHANGED loans, AllAsked', ProductOk',
         \A b \in Staff : requests'[b] = requests[b] \/ requests'[b].op # "approved",
         blacklisted' \subseteq Customers, day' \in Days
  PROVE  TypeInv'
<1>1. StartsInv'
  BY StartsKept DEF TypeInv
<1>2. LoansOk'
  BY DEF TypeInv, LoansOk, Exists
<1> QED
  BY <1>1, <1>2 DEF TypeInv

LEMMA DoneTypes ==
  ASSUME LifecycleInv, TypeInv, NEW a \in Staff,
         RecordCreation(a) \/ Deactivate(a) \/ Abandon(a)
  PROVE  TypeInv'
<1>1. Done(a) /\ UNCHANGED <<loans, blacklisted, day>>
  BY DEF RecordCreation, Deactivate, Abandon
<1>2. ProductOk'
  <2>1. CASE UNCHANGED product
    BY <2>1 DEF TypeInv, ProductOk
  <2>2. CASE Deactivate(a)
    <3>1. product' = [product EXCEPT !.active = FALSE]
      BY <2>2 DEF Deactivate
    <3>2. product'.current = product.current /\ product'.versions = product.versions
      BY <3>1
    <3>3. product'.active \in BOOLEAN
      BY <3>1 DEF TypeInv, ProductOk
    <3> QED
      BY <3>2, <3>3 DEF TypeInv, ProductOk
  <2> QED
    BY <2>1, <2>2 DEF RecordCreation, Abandon
<1>3. AllAsked' /\ \A b \in Staff : requests'[b] = requests[b] \/ requests'[b].op # "approved"
  BY <1>1, DoneTyped DEF TypeInv
<1> QED
  BY <1>1, <1>2, <1>3, ElsewhereTypes DEF TypeInv

LEMMA NumberTypes ==
  ASSUME LifecycleInv, VersionsInv, TypeInv, NEW a \in Staff, NumberVersion(a)
  PROVE  TypeInv'
<1> DEFINE r == [op |-> "numbered", terms |-> requests[a].terms, number |-> LatestNumber + 1]
<1>1. /\ requests[a].op = "edit" /\ requests' = [requests EXCEPT ![a] = r]
      /\ UNCHANGED <<loans, blacklisted, product, day>>
  BY DEF NumberVersion, Ask
<1>2. requests[a].terms \in Terms /\ LatestNumber + 1 \in Nat
  BY <1>1, AskedFields, LatestIsCurrent DEF TypeInv, AllAsked, VersionsInv
<1>3. r \in Asked /\ r.op # "approved"
  BY <1>2 DEF Asked
<1> HIDE DEF r
<1>4. AllAsked' /\ \A b \in Staff : requests'[b] = IF b = a THEN r ELSE requests[b]
  BY <1>1, <1>3, RequestTyped DEF TypeInv
<1>5. ProductOk'
  BY <1>1 DEF TypeInv, ProductOk
<1> QED
  BY <1>1, <1>3, <1>4, <1>5, ElsewhereTypes DEF TypeInv

LEMMA CreateTypes ==
  ASSUME LifecycleInv, VersionsInv, TypeInv, NEW a \in Staff, CreateNewVersion(a)
  PROVE  TypeInv'
<1> DEFINE n == requests[a].number
           new == [number |-> n, terms |-> requests[a].terms]
<1>1. /\ requests[a].op = "numbered" /\ n <= MaxEdits
      /\ product' = [product EXCEPT !.current = n, !.versions = product.versions \union {new}]
      /\ Done(a) /\ UNCHANGED <<loans, blacklisted, day>>
  BY DEF CreateNewVersion
<1>2. requests[a].terms \in Terms /\ n \in 1..MaxEdits
  BY <1>1, AskedFields, LifecycleBoundAssumption DEF TypeInv, AllAsked, VersionsInv
<1>3. new \in [number : 1..MaxEdits, terms : Terms]
  BY <1>2
<1> HIDE DEF n, new
<1>4. /\ product'.active = product.active /\ product'.current = n
      /\ product'.versions = product.versions \union {new}
  BY <1>1 DEF VersionsInv
<1>5. ProductOk'
  BY <1>2, <1>3, <1>4 DEF TypeInv, ProductOk
<1>6. AllAsked' /\ \A b \in Staff : requests'[b] = requests[b] \/ requests'[b].op # "approved"
  BY <1>1, DoneTyped DEF TypeInv
<1> QED
  BY <1>1, <1>5, <1>6, ElsewhereTypes DEF TypeInv

LEMMA BesidesTypes ==
  ASSUME LifecycleInv, TypeInv,
         \/ \E c \in Customers : Blacklist(c) \/ Reinstate(c)
         \/ Tick \/ UNCHANGED vars
  PROVE  TypeInv'
<1>1. UNCHANGED <<loans, product, requests>>
  BY DEF Blacklist, Reinstate, Tick, vars
<1>2. AllAsked' /\ ProductOk'
  BY <1>1 DEF TypeInv, AllAsked, ProductOk
<1>3. blacklisted' \subseteq Customers /\ day' \in Days
  BY DEF Blacklist, Reinstate, Tick, vars, TypeInv
<1> QED
  BY <1>1, <1>2, <1>3, ElsewhereTypes

LEMMA TypesNext == LifecycleInv /\ VersionsInv /\ TypeInv /\ [Next]_vars => TypeInv'
<1> SUFFICES ASSUME LifecycleInv, VersionsInv, TypeInv, [Next]_vars PROVE TypeInv'
  OBVIOUS
<1>1. ASSUME NEW a \in Staff, Request(a) PROVE TypeInv'
  BY <1>1, RequestsKeepTypes
<1>2. ASSUME NEW a \in Staff, Write(a) PROVE TypeInv'
  BY <1>2, InsertTypes, DecideTypes, ApproveTypes, DisburseTypes, RegenerateTypes, DoneTypes,
     NumberTypes, CreateTypes DEF Write
<1>3. CASE \E l \in Loans : Collect(l) \/ FallOverdue(l) \/ Settle(l)
  BY <1>3, PaidOutTypes
<1> QED
  BY <1>1, <1>2, <1>3, BesidesTypes DEF Next

LEMMA TypesAlways == Spec => [](LifecycleInv /\ VersionsInv /\ TypeInv)
<1>1. Init => LifecycleInv /\ VersionsInv /\ TypeInv
  BY InitLifecycle, InitVersions, InitTypes
<1>2. LifecycleInv /\ VersionsInv /\ TypeInv /\ [Next]_vars
        => (LifecycleInv /\ VersionsInv /\ TypeInv)'
  BY LifecycleNext, VersionsNext, TypesNext
<1> QED
  BY <1>1, <1>2, PTL DEF Spec

(* Whatever the requests read, the tables keep their types and bounds, and a
   loan has an approver and a schedule exactly from its approval on. *)
THEOREM LifecycleTypeCorrect == Spec => []TypeOK
<1>1. LifecycleInv /\ TypeInv => TypeOK
  BY TypeInvImplies
<1> QED
  BY <1>1, TypesAlways, PTL

(* The schedule in force is one whole schedule whichever of approve, disburse
   and regenerateSchedule wrote it last: it repays the principal, the loan row
   has its interest, its due dates ascend, and the due-date columns of a
   disbursed loan are its first and last day. *)
THEOREM ScheduleInForceAlways == Spec => []ScheduleInForce
<1>1. LifecycleInv /\ TypeInv => ScheduleInForce
  BY TypeInvImplies
<1> QED
  BY <1>1, TypesAlways, PTL
=============================================================================
