----------------------------- MODULE Idempotency -----------------------------
(***************************************************************************)
(* Requests that carry an idempotency key, from the first look at the key  *)
(* to the answer.  A retry of a client is another request with the same    *)
(* key; it may overlap the first one.                                      *)
(*                                                                         *)
(* A transactional operation (collection, reversal, disbursement,          *)
(* foreclosure) writes its effect and its key in one transaction that      *)
(* locks the loan first, and the row of its effect has a unique            *)
(* idempotency_key column of its own.  A cashbook operation (expense,      *)
(* handover) commits its effect first and stores the key after.            *)
(***************************************************************************)
EXTENDS Integers, FiniteSets

CONSTANTS
  Requests,       \* the requests that ever arrive
  Keys,           \* idempotency keys
  KeyOf,          \* key of each request
  Transactional,  \* keys of operations that store the key in their transaction
  Loans,
  LoanOf,         \* the loan a transactional operation locks
  TTL,            \* KEY_TTL_MS, in ticks
  MaxTime,        \* bound: last tick of the clock
  None

Cashbook == Keys \ Transactional

ASSUME KeysAssumption ==
  /\ KeyOf \in [Requests -> Keys]
  /\ Transactional \subseteq Keys
  /\ LoanOf \in [Transactional -> Loans]
  /\ TTL \in Nat /\ MaxTime \in Nat
  /\ None \notin Requests

VARIABLES
  pc,       \* how far each request has come
  effects,  \* requests whose effect is committed
  keys,     \* idempotency_keys: the row of each key, or None
  lock,     \* holder of the row lock of each loan, or None
  reply,    \* the request whose result each request was answered with
  now       \* system clock

vars == <<pc, effects, keys, lock, reply, now>>

Row(r) == [result |-> r, expires |-> now + TTL]

\* find() ignores a row that has expired and has not been cleaned up.
Valid(k) == keys[k] # None /\ keys[k].expires > now

Init ==
  /\ pc = [r \in Requests |-> "new"]
  /\ effects = {}
  /\ keys = [k \in Keys |-> None]
  /\ lock = [l \in Loans |-> None]
  /\ reply = [r \in Requests |-> None]
  /\ now = 0

Goto(r, to) == pc' = [pc EXCEPT ![r] = to]

\* The key has a result: it is returned, nothing is executed.
Replay(r) ==
  /\ pc[r] = "new"
  /\ Valid(KeyOf[r])
  /\ reply' = [reply EXCEPT ![r] = keys[KeyOf[r]].result]
  /\ Goto(r, "answered")
  /\ UNCHANGED <<effects, keys, lock, now>>

Miss(r) ==
  /\ pc[r] = "new"
  /\ ~ Valid(KeyOf[r])
  /\ Goto(r, "missed")
  /\ UNCHANGED <<effects, keys, lock, reply, now>>

-----------------------------------------------------------------------------
(* A transactional operation. *)

\* The transaction begins by SELECT ... FOR UPDATE on the loan.
LockLoan(r) ==
  /\ pc[r] = "missed"
  /\ KeyOf[r] \in Transactional
  /\ lock[LoanOf[KeyOf[r]]] = None
  /\ lock' = [lock EXCEPT ![LoanOf[KeyOf[r]]] = r]
  /\ Goto(r, "locked")
  /\ UNCHANGED <<effects, keys, reply, now>>

Unlock(r) == lock' = [l \in Loans |-> IF lock[l] = r THEN None ELSE lock[l]]

\* Slip: the row of the effect has no unique key.
NoRowWithKey(k) == TRUE

\* The unique column idempotency_key of collections, disbursements and
\* group_collections: it knows nothing of expiry.
NoEffectWithKey(k) == \A s \in effects : KeyOf[s] # k

\* The unique column key of idempotency_keys: an expired row still counts.
NoKeyRow(k) == keys[k] = None

\* Slip: the key is stored outside the transaction, which rolls back.
CommitKeyOnly(r) ==
  /\ keys' = [keys EXCEPT ![KeyOf[r]] = Row(r)]
  /\ UNCHANGED effects

CommitBoth(r) ==
  /\ effects' = effects \union {r}
  /\ keys' = [keys EXCEPT ![KeyOf[r]] = Row(r)]

Commit(r) ==
  /\ pc[r] = "locked"
  /\ NoEffectWithKey(KeyOf[r])
  /\ NoKeyRow(KeyOf[r])
  /\ CommitBoth(r)
  /\ Unlock(r)
  /\ Goto(r, "stored")
  /\ UNCHANGED <<reply, now>>

\* P2002 inside the transaction: it rolls back and the client is told of a
\* failure, although the key may have a result by now.
Conflict(r) ==
  /\ pc[r] = "locked"
  /\ ~ (NoEffectWithKey(KeyOf[r]) /\ NoKeyRow(KeyOf[r]))
  /\ Unlock(r)
  /\ Goto(r, "conflict")
  /\ UNCHANGED <<effects, keys, reply, now>>

\* A business rule, or the transaction timeout, rolls back.
Refuse(r) ==
  /\ \/ pc[r] = "locked"
     \/ pc[r] = "missed"
  /\ Unlock(r)
  /\ Goto(r, "refused")
  /\ UNCHANGED <<effects, keys, reply, now>>

-----------------------------------------------------------------------------
(* A cashbook operation. *)

PostCashbook(r) ==
  /\ pc[r] = "missed"
  /\ KeyOf[r] \in Cashbook
  /\ effects' = effects \union {r}
  /\ Goto(r, "posted")
  /\ UNCHANGED <<keys, lock, reply, now>>

StoreKey(r) ==
  /\ pc[r] = "posted"
  /\ NoKeyRow(KeyOf[r])
  /\ keys' = [keys EXCEPT ![KeyOf[r]] = Row(r)]
  /\ Goto(r, "stored")
  /\ UNCHANGED <<effects, lock, reply, now>>

StoreConflict(r) ==
  /\ pc[r] = "posted"
  /\ ~ NoKeyRow(KeyOf[r])
  /\ Goto(r, "waiting")
  /\ UNCHANGED <<effects, keys, lock, reply, now>>

\* After the delay store() looks again; the controller ignores what it finds
\* and answers with its own result, or fails if the row has gone or expired.
FoundAfterDelay(r) ==
  /\ pc[r] = "waiting"
  /\ Valid(KeyOf[r])
  /\ Goto(r, "stored")
  /\ UNCHANGED <<effects, keys, lock, reply, now>>

NotFoundAfterDelay(r) ==
  /\ pc[r] = "waiting"
  /\ ~ Valid(KeyOf[r])
  /\ Goto(r, "conflict")
  /\ UNCHANGED <<effects, keys, lock, reply, now>>

-----------------------------------------------------------------------------
Reply(r) ==
  /\ pc[r] = "stored"
  /\ reply' = [reply EXCEPT ![r] = r]
  /\ Goto(r, "answered")
  /\ UNCHANGED <<effects, keys, lock, now>>

InFlight == {"missed", "locked", "posted", "waiting", "stored"}
Ended == {"answered", "conflict", "refused", "lost"}

\* The process or the connection dies: an open transaction rolls back, what is
\* committed stays, the client hears nothing.
Crash(r) ==
  /\ pc[r] \in InFlight
  /\ Unlock(r)
  /\ Goto(r, "lost")
  /\ UNCHANGED <<effects, keys, reply, now>>

Outdated(k) == keys[k] # None /\ keys[k].expires < now

CleanupExpired ==
  /\ \E k \in Keys : Outdated(k)
  /\ keys' = [k \in Keys |-> IF Outdated(k) THEN None ELSE keys[k]]
  /\ UNCHANGED <<pc, effects, lock, reply, now>>

Tick ==
  /\ now < MaxTime
  /\ now' = now + 1
  /\ UNCHANGED <<pc, effects, keys, lock, reply>>

Serve(r) ==
  \/ Replay(r) \/ Miss(r)
  \/ LockLoan(r) \/ Commit(r) \/ Conflict(r) \/ Refuse(r)
  \/ PostCashbook(r) \/ StoreKey(r) \/ StoreConflict(r)
  \/ FoundAfterDelay(r) \/ NotFoundAfterDelay(r)
  \/ Reply(r)

Next ==
  \/ \E r \in Requests : Serve(r) \/ Crash(r)
  \/ CleanupExpired
  \/ Tick

Spec == Init /\ [][Next]_vars

-----------------------------------------------------------------------------
(* Properties *)

Steps == {"new"} \union InFlight \union Ended

\* Every variable holds a value of its table or of the request's life cycle,
\* and the row lock of a loan is held by exactly the request that is inside its
\* transaction.
TypeOK ==
  /\ pc \in [Requests -> Steps]
  /\ effects \subseteq Requests
  /\ keys \in [Keys -> [result : Requests, expires : Nat] \union {None}]
  /\ lock \in [Loans -> Requests \union {None}]
  /\ reply \in [Requests -> Requests \union {None}]
  /\ now \in 0..MaxTime
  /\ \A r \in Requests : pc[r] = "locked" => KeyOf[r] \in Transactional
  /\ \A r \in Requests, l \in Loans :
       lock[l] = r <=> pc[r] = "locked" /\ LoanOf[KeyOf[r]] = l

\* Nobody is told of a result that was rolled back, nor of the result of an
\* operation with another key; a request still on its way has been told nothing.
RepliesAreCommitted ==
  \A r \in Requests :
    IF pc[r] = "answered"
    THEN reply[r] \in effects /\ KeyOf[reply[r]] = KeyOf[r]
    ELSE reply[r] = None

EffectIn(E, k) ==
  IF \E r \in E : KeyOf[r] = k
  THEN CHOOSE r \in E : KeyOf[r] = k
  ELSE None

TransactionalRequests == {r \in Requests : KeyOf[r] \in Transactional}

Once == INSTANCE OnceOnly WITH
  Requests <- TransactionalRequests,
  Keys <- Transactional,
  performed <- [k \in Transactional |-> EffectIn(effects, k)],
  answered <- [r \in TransactionalRequests |-> reply[r]]

\* A transactional operation is performed at most once for its key, however
\* its requests overlap, crash, or come back after the key has expired and been
\* cleaned up, and every answer is the result of that one performance.
ImplementsOnceOnly == Once!Spec

\* Stated by docs/finance-invariants.md:15, "Same key -> same result, no
\* duplicate effects", of every key.
NoDuplicateEffects ==
  \A r, s \in effects : KeyOf[r] = KeyOf[s] => r = s
=============================================================================
