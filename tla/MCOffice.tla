------------------------------ MODULE MCOffice ------------------------------
(***************************************************************************)
(* Books: three business days, the amounts 1 and 2 and the zero of a part  *)
(* that is missing; two entries are enough for one and its reversal.       *)
(* Administration: two super_admins and an account that does not exist     *)
(* yet, two requests at once; a file of two holidays and one of products.  *)
(* Portfolio: a loan repaid in two parts, two officers, two days and three *)
(* entries; on the dashboard a second loan beside it, and a second after   *)
(* which what was cached has expired.  Exports: everything, one day, each  *)
(* end alone, and an inverted range of one loan.                           *)
(***************************************************************************)
EXTENDS BackOffice

CONSTANTS meera, ravi, sita, v1, v2, r1, r2, gold, silver, l1, l2

MCUsers ==
  [u \in Staff |->
     IF u = sita THEN Absent
     ELSE [role |-> "super_admin", status |-> "active", version |-> 1]]

MCFiles ==
  {[domain |-> "holidays", rows |-> <<1, 2>>, errors |-> 0],
   [domain |-> "loan-products", rows |-> <<gold, silver>>, errors |-> 1]}

FirstOfficer == CHOOSE o \in Officers : TRUE

\* Bound: a second loan only on the dashboard, where it is paid out first and
\* then stays as it is while the first one is written, and where the outstanding
\* is read after the two counts.
SecondLoanStays ==
  IF screen = "dashboard"
  THEN /\ loans[l2].officer = FirstOfficer /\ loans[l2].paid = 0
       /\ entries # <<>> => loans[l2].disbursed = 1
       /\ \A e \in DOMAIN entries : entries[e].source \in Lent
       /\ \A r \in Refreshes :
            Board!Reading(r) /\ "outstanding" \notin Board!Missing(r) => Board!Missing(r) = {}
  ELSE loans[l2].status = "approved" /\ loans[l2].officer = FirstOfficer

\* Bound: a third entry in the reports only if no expense is among them.
ThreeOfALoan ==
  screen = "reports" /\ 3 \in DOMAIN entries =>
    \A e \in DOMAIN entries : entries[e].source # 0

Input(from, to, loan) == [from |-> from, to |-> to, loan |-> loan]

MCInputs ==
  {Input(0, 0, "any"), Input(1, 1, "any"), Input(2, 0, "any"), Input(0, 1, "any"),
   Input(2, 1, l1)}
=============================================================================
