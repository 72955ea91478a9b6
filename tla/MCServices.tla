----------------------------- MODULE MCServices -----------------------------
(***************************************************************************)
(* What every request that writes goes through: the session of its user    *)
(* and its idempotency key.  The two share no state, so a behaviour        *)
(* exercises one of them.                                                  *)
(*                                                                         *)
(* One collection and one expense, each sent twice; one browser tab, whose *)
(* timer and whose shared refresh overlap, and restore() making two        *)
(* attempts instead of three.                                              *)
(***************************************************************************)
EXTENDS Idempotency, Sessions, TLC

CONSTANTS c1, c2, e1, e2, collectionKey, expenseKey, loan1, tab1

MCRequests == {c1, c2, e1, e2}
MCKeys == {collectionKey, expenseKey}
MCKeyOf == (c1 :> collectionKey) @@ (c2 :> collectionKey)
             @@ (e1 :> expenseKey) @@ (e2 :> expenseKey)
MCTransactional == {collectionKey}
MCLoanOf == collectionKey :> loan1

VARIABLE exercised

servicesVars == <<vars, sessionsVars, exercised>>

ServicesInit ==
  /\ Init /\ SessionsInit
  /\ exercised \in {"idempotency", "sessions"}

ServicesNext ==
  /\ \/ exercised = "idempotency" /\ Next /\ UNCHANGED sessionsVars
     \/ exercised = "sessions" /\ SessionsNext /\ UNCHANGED vars
  /\ UNCHANGED exercised

ServicesSpec == ServicesInit /\ [][ServicesNext]_servicesVars
=============================================================================
