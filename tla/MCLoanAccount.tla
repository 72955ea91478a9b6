--------------------------- MODULE MCLoanAccount ---------------------------
(***************************************************************************)
(* Small instances of LoanAccount.  Amounts are a few paise: every branch  *)
(* of the handlers depends only on which of two sums is larger.            *)
(***************************************************************************)
EXTENDS LoanAccount

MCPrincipal == [i \in 1..N |-> 2]
MCInterest == [i \in 1..N |-> 1]
MCDueDay == [i \in 1..N |-> i]

PenaltyFirst == <<"penalty", "interest", "principal">>
PenaltyThenPrincipal == <<"penalty", "principal", "interest">>
=============================================================================
