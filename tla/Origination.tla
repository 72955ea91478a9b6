----------------------------- MODULE Origination -----------------------------
(***************************************************************************)
(* What the approval workflow promises, whatever requests overlap: a loan  *)
(* goes through the stages in order, one decision at a time, and every     *)
(* decision leaves one row in its history together with the change.        *)
(***************************************************************************)
EXTENDS Sequences

CONSTANT Loans

VARIABLES
  stage,  \* "none" before the loan exists
  trail   \* the stages each loan has been moved to, in the order of the rows

abstractVars == <<stage, trail>>

Stages == {"none", "draft", "submitted", "under_review", "approved",
           "rejected", "disbursed"}

\* The table of the workflow.
Follows(to) ==
  CASE to = "submitted" -> "draft"
    [] to = "under_review" -> "submitted"
    [] to = "approved" -> "under_review"
    [] to = "rejected" -> "under_review"
    [] to = "disbursed" -> "approved"

AbstractInit ==
  /\ stage = [l \in Loans |-> "none"]
  /\ trail = [l \in Loans |-> <<>>]

Create(l) ==
  /\ stage[l] = "none"
  /\ stage' = [stage EXCEPT ![l] = "draft"]
  /\ UNCHANGED trail

Decide(l, to) ==
  /\ stage[l] = Follows(to)
  /\ stage' = [stage EXCEPT ![l] = to]
  /\ trail' = [trail EXCEPT ![l] = Append(@, to)]

AbstractNext ==
  \E l \in Loans :
    \/ Create(l)
    \/ \E to \in Stages \ {"none", "draft"} : Decide(l, to)

AbstractSpec == AbstractInit /\ [][AbstractNext]_abstractVars

\* The stages a loan at this stage has been through since it was a draft.
PathTo(s) ==
  CASE s \in {"none", "draft"} -> <<>>
    [] s = "submitted" -> <<"submitted">>
    [] s = "under_review" -> <<"submitted", "under_review">>
    [] s \in {"approved", "rejected"} -> <<"submitted", "under_review", s>>
    [] s = "disbursed" -> <<"submitted", "under_review", "approved", "disbursed">>

\* The history tells exactly how the loan came to its stage.
HistoryTellsStage == \A l \in Loans : trail[l] = PathTo(stage[l])
=============================================================================
