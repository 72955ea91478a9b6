------------------------------ MODULE MCOutbox ------------------------------
(***************************************************************************)
(* Two messages, two replicas that claim both at once, and two attempts.   *)
(***************************************************************************)
EXTENDS Outbox

MCBackoff == [retries \in 0..(MaxRetries - 1) |-> retries + 1]
=============================================================================
