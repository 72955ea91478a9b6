------------------------------ MODULE OnceOnly ------------------------------
(***************************************************************************)
(* What an idempotency key promises: the operation it names is performed   *)
(* at most once, and whoever is answered gets the result of that one       *)
(* performance.                                                            *)
(***************************************************************************)
CONSTANTS Requests, Keys, KeyOf, None

VARIABLES performed, answered

vars == <<performed, answered>>

Init ==
  /\ performed = [k \in Keys |-> None]
  /\ answered = [r \in Requests |-> None]

Perform(r) ==
  /\ performed[KeyOf[r]] = None
  /\ performed' = [performed EXCEPT ![KeyOf[r]] = r]
  /\ UNCHANGED answered

Answer(r) ==
  /\ performed[KeyOf[r]] # None
  /\ answered[r] = None
  /\ answered' = [answered EXCEPT ![r] = performed[KeyOf[r]]]
  /\ UNCHANGED performed

Next == \E r \in Requests : Perform(r) \/ Answer(r)

Spec == Init /\ [][Next]_vars
=============================================================================
