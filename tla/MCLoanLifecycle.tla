-------------------------- MODULE MCLoanLifecycle --------------------------
(***************************************************************************)
(* One customer and two members of staff, of whom neither is exempt from   *)
(* maker-checker, on a calendar of short months with holidays that move    *)
(* the first installment.                                                  *)
(***************************************************************************)
EXTENDS LoanLifecycle

CONSTANTS asha, meera, ravi

MCMonthLengths == <<4, 3, 4, 4, 3, 4, 4>>
MCHolidays == {14, 15}
MCOfficer == [c \in {asha} |-> ravi]
MCFirstTerms ==
  [interestType |-> "flat", rate |-> 1, frequency |-> "monthly",
   minPrincipal |-> 1, maxPrincipal |-> 7, minTenure |-> 2, maxTenure |-> 2,
   maxConcurrent |-> 1]
MCFirstDates == {13}
MCDays == {7, 12}
MCAuditPrincipals == {1, 2, 7, 50}
MCAuditRates == {0, 1, 6}
MCAuditTenures == 1..3
MCAuditDays == 7..12
=============================================================================
