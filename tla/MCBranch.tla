------------------------------ MODULE MCBranch ------------------------------
(***************************************************************************)
(* Three customers, two with a loan; groups of two members instead of five *)
(* to fifteen.  Group collections name the loans in either order, or one   *)
(* loan twice.  The files: one that is right, with a group larger           *)
(* than the application allows; one whose loan came before; one that       *)
(* repeats a loan, which the dry run lets pass; and one with an error.     *)
(***************************************************************************)
EXTENDS Branch

CONSTANTS asha, bina, chand, l1, l2, l3, k1, k2, meera, ravi, anil, sita

MCCustomerOf == l1 :> asha @@ l2 :> bina
MCLent == l1 :> 1 @@ l2 :> 1

Part(l, amount) == [loan |-> l, amount |-> amount]
MCBreakdowns == {<<Part(l1, 1), Part(l2, 1)>>, <<Part(l2, 1), Part(l1, 1)>>,
                 <<Part(l1, 1), Part(l1, 1)>>}

Person(c) == [id |-> c]
Loan(l, c, g, paid) ==
  [id |-> l, customer |-> c, group |-> g, principal |-> 4, interest |-> 1,
   tenure |-> 3, paid |-> paid]

Legacy ==
  [customers |-> <<Person(asha), Person(bina), Person(chand)>>,
   groups |-> <<[id |-> "g", leader |-> asha]>>,
   members |-> <<[group |-> "g", customer |-> bina], [group |-> "g", customer |-> asha],
                 [group |-> "g", customer |-> chand]>>,
   loans |-> <<Loan(l1, asha, "g", 2), Loan(l2, bina, "g", 2)>>,
   collections |-> <<[id |-> "x", loan |-> l1, amount |-> 1]>>]

LaterOffice ==
  [Legacy EXCEPT !.groups = <<>>, !.members = <<>>,
                 !.loans = <<Loan(l1, asha, NoDraft, 0)>>]

Repeated ==
  [LaterOffice EXCEPT !.customers = <<Person(chand)>>,
                      !.loans = <<Loan(l3, chand, NoDraft, 0), Loan(l3, chand, NoDraft, 1)>>,
                      !.collections = <<>>]

Wrong == [Repeated EXCEPT !.loans = <<Loan(l3, chand, NoDraft, 4)>>]

MCFiles == {Legacy, LaterOffice, Repeated, Wrong}
=============================================================================
