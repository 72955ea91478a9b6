------------------------------ MODULE MCPages ------------------------------
(***************************************************************************)
(* Small instances of the four pages.                                      *)
(*                                                                         *)
(* LoanDesk: a loan of two paise, a penalty of two, quotes that may be one *)
(* paisa off, two of them; a manager to whom nothing is hidden at first,   *)
(* or a field officer and one thing her page cannot know.                  *)
(* Documents: two members of staff, one KYC type and one other, three      *)
(* keys, one death.  Imports: a setting that is an array, one edit, two    *)
(* uploads, one change elsewhere, a look-up that takes one import, two     *)
(* days.  Settings: two tabs, numbers that may be typed with a blank       *)
(* behind them, or wrongly, two writes.                                    *)
(***************************************************************************)
EXTENDS Pages, TLC

CONSTANTS k1, k2, k3, rate, grace

MCKind == [reminders |-> "array"]
MCParsed == ("1" :> "n1") @@ ("1 " :> "n1") @@ ("2" :> "n2")
MCStringified == ("n1" :> "1") @@ ("n2" :> "2")

\* Keys of documents are interchangeable: no action or invariant names one.
KeySymmetry == Permutations({k1, k2, k3})

Barred(who, lacks) == [barred |-> who, lacks |-> lacks]
AllFit == Barred("other", "nothing")

MCInit ==
  /\ PagesInit
  /\ \/ role = "manager" /\ hidden = AllFit
     \/ role = "field_officer" /\ hidden \in {Barred("other", "standing"), Barred("other", "kyc")}
  /\ screen # "loan" => role = "manager"
  /\ screen # "settings" => values = [k \in SettingKeys |-> "n1"]

\* Bound: once a loan has two quotes, no payment comes between them, and no
\* penalty is left when one of them is executed.
TwoQuotesOnePosting ==
  2 \in DOMAIN quotes =>
    loan.rows = "none" \/ (loan.status = "foreclosed" /\ loan.penalty = "none")

Imported == {trail[i].draft : i \in {j \in DOMAIN trail : trail[j].sheet # <<>>}}
Committing == {q.body : q \in {r \in sent : r.ask = "commit" /\ r.step # "refused"}}

\* Bound: a look-up fails where nothing else goes wrong or changes.
OneThingWrong ==
  \A d \in previews \cup Imported \cup Committing : ~d.looked => changes = 0

MCSpec == MCInit /\ [][PagesNext]_pageVars
=============================================================================
