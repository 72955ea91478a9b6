-------------------------- MODULE Idempotency_proofs --------------------------
(***************************************************************************)
(* Idempotency implements OnceOnly for its transactional keys, for any     *)
(* number of requests, keys and loans, any TTL and any clock.              *)
(*                                                                         *)
(* The refinement needs three facts that are not visible in the abstract   *)
(* specification: a row of idempotency_keys always names a committed       *)
(* effect of its own key, a request past its commit is among the effects,  *)
(* and the unique column leaves one effect for each transactional key.     *)
(***************************************************************************)
EXTENDS Idempotency, Outbox, TLAPS

KeyRowsAreEffects ==
  \A k \in Keys :
    keys[k] # None => keys[k].result \in effects /\ KeyOf[keys[k].result] = k

PastCommit ==
  \A r \in Requests : pc[r] \in {"posted", "waiting", "stored"} => r \in effects

OneEffectPerKey ==
  \A r, s \in effects :
    KeyOf[r] = KeyOf[s] /\ KeyOf[r] \in Transactional => r = s

IInv ==
  /\ TypeOK
  /\ KeyRowsAreEffects
  /\ PastCommit
  /\ OneEffectPerKey
  /\ RepliesAreCommitted

-----------------------------------------------------------------------------
\* The requests have not begun and nothing is stored.
LEMMA InitInv == Init => IInv
BY KeysAssumption
   DEF Init, IInv, TypeOK, Steps, KeyRowsAreEffects, PastCommit, OneEffectPerKey,
       RepliesAreCommitted

\* A handler step preserves the types: each action moves one request, and the
\* lock changes hands with it.
LEMMA TypeStep == TypeOK /\ [Next]_vars => TypeOK'
<1> SUFFICES ASSUME TypeOK, [Next]_vars PROVE TypeOK'
  OBVIOUS
<1> USE KeysAssumption DEF TypeOK, Steps, InFlight, Ended, Goto
<1>1. ASSUME NEW r \in Requests, Replay(r) PROVE TypeOK'
  BY <1>1 DEF Replay, Valid
<1>2. ASSUME NEW r \in Requests, Miss(r) PROVE TypeOK'
  BY <1>2 DEF Miss
<1>3. ASSUME NEW r \in Requests, LockLoan(r) PROVE TypeOK'
  BY <1>3 DEF LockLoan
<1>4. ASSUME NEW r \in Requests, Commit(r) PROVE TypeOK'
  BY <1>4 DEF Commit, CommitBoth, Row, Unlock
<1>5. ASSUME NEW r \in Requests, Conflict(r) PROVE TypeOK'
  BY <1>5 DEF Conflict, Unlock
<1>6. ASSUME NEW r \in Requests, Refuse(r) PROVE TypeOK'
  BY <1>6 DEF Refuse, Unlock
<1>7. ASSUME NEW r \in Requests, PostCashbook(r) PROVE TypeOK'
  BY <1>7 DEF PostCashbook
<1>8. ASSUME NEW r \in Requests, StoreKey(r) PROVE TypeOK'
  BY <1>8 DEF StoreKey, Row
<1>9. ASSUME NEW r \in Requests, StoreConflict(r) PROVE TypeOK'
  BY <1>9 DEF StoreConflict
<1>10. ASSUME NEW r \in Requests, FoundAfterDelay(r) PROVE TypeOK'
  BY <1>10 DEF FoundAfterDelay
<1>11. ASSUME NEW r \in Requests, NotFoundAfterDelay(r) PROVE TypeOK'
  BY <1>11 DEF NotFoundAfterDelay
<1>12. ASSUME NEW r \in Requests, Reply(r) PROVE TypeOK'
  BY <1>12 DEF Reply
<1>13. ASSUME NEW r \in Requests, Crash(r) PROVE TypeOK'
  BY <1>13 DEF Crash, Unlock
<1>14. CASE CleanupExpired
  BY <1>14 DEF CleanupExpired
<1>15. CASE Tick
  BY <1>15 DEF Tick
<1>16. CASE UNCHANGED vars
  BY <1>16 DEF vars
<1> QED
  BY <1>1, <1>2, <1>3, <1>4, <1>5, <1>6, <1>7, <1>8, <1>9, <1>10, <1>11, <1>12,
     <1>13, <1>14, <1>15, <1>16 DEF Next, Serve

\* A handler step keeps rows, effects and answers in agreement.  The unique
\* column is what keeps OneEffectPerKey when the key row has been cleaned up.
LEMMA AgreementStep == IInv /\ [Next]_vars => IInv'
<1> SUFFICES ASSUME IInv, [Next]_vars PROVE IInv'
  OBVIOUS
<1> DEFINE Agree == KeyRowsAreEffects /\ PastCommit /\ OneEffectPerKey /\ RepliesAreCommitted
<1>0. TypeOK'
  BY TypeStep DEF IInv
<1> USE KeysAssumption
    DEF IInv, TypeOK, Goto, KeyRowsAreEffects, PastCommit, OneEffectPerKey,
        RepliesAreCommitted
<1>1. ASSUME NEW r \in Requests, Replay(r) PROVE Agree'
  BY <1>1 DEF Replay, Valid
<1>2. ASSUME NEW r \in Requests, Miss(r) PROVE Agree'
  BY <1>2 DEF Miss
<1>3. ASSUME NEW r \in Requests, LockLoan(r) PROVE Agree'
  BY <1>3 DEF LockLoan
<1>4. ASSUME NEW r \in Requests, Commit(r) PROVE Agree'
  BY <1>4 DEF Commit, CommitBoth, Row, NoEffectWithKey
<1>5. ASSUME NEW r \in Requests, Conflict(r) PROVE Agree'
  BY <1>5 DEF Conflict
<1>6. ASSUME NEW r \in Requests, Refuse(r) PROVE Agree'
  BY <1>6 DEF Refuse
<1>7. ASSUME NEW r \in Requests, PostCashbook(r) PROVE Agree'
  BY <1>7 DEF PostCashbook, Cashbook
<1>8. ASSUME NEW r \in Requests, StoreKey(r) PROVE Agree'
  BY <1>8 DEF StoreKey, Row
<1>9. ASSUME NEW r \in Requests, StoreConflict(r) PROVE Agree'
  BY <1>9 DEF StoreConflict
<1>10. ASSUME NEW r \in Requests, FoundAfterDelay(r) PROVE Agree'
  BY <1>10 DEF FoundAfterDelay
<1>11. ASSUME NEW r \in Requests, NotFoundAfterDelay(r) PROVE Agree'
  BY <1>11 DEF NotFoundAfterDelay
<1>12. ASSUME NEW r \in Requests, Reply(r) PROVE Agree'
  BY <1>12 DEF Reply
<1>13. ASSUME NEW r \in Requests, Crash(r) PROVE Agree'
  BY <1>13 DEF Crash, InFlight
<1>14. CASE CleanupExpired
  BY <1>14 DEF CleanupExpired
<1>15. CASE Tick
  BY <1>15 DEF Tick
<1>16. CASE UNCHANGED vars
  BY <1>16 DEF vars
<1>17. Agree'
  BY <1>1, <1>2, <1>3, <1>4, <1>5, <1>6, <1>7, <1>8, <1>9, <1>10, <1>11, <1>12,
     <1>13, <1>14, <1>15, <1>16 DEF Next, Serve
<1> QED
  BY <1>0, <1>17

\* The invariant holds of every behaviour.
LEMMA InvariantHolds == Spec => []IInv
<1>1. Init => IInv
  BY InitInv
<1>2. IInv /\ [Next]_vars => IInv'
  BY AgreementStep
<1> QED
  BY <1>1, <1>2, PTL DEF Spec

\* The tables, the life cycle of a request and the row locks keep their types,
\* and a lock is held only by the request inside its transaction.
THEOREM IdempotencyTypeCorrect == Spec => []TypeOK
<1>1. IInv => TypeOK
  BY DEF IInv
<1> QED
  BY <1>1, InvariantHolds, PTL

\* Whatever a client is answered is a committed effect of the key it sent.
THEOREM RepliesAreCommittedAlways == Spec => []RepliesAreCommitted
<1>1. IInv => RepliesAreCommitted
  BY DEF IInv
<1> QED
  BY <1>1, InvariantHolds, PTL

-----------------------------------------------------------------------------
\* When a key has one effect, that is what EffectIn names.
LEMMA EffectIsUnique ==
  ASSUME NEW E, NEW k, NEW s \in E, KeyOf[s] = k,
         \A r \in E : KeyOf[r] = k => r = s
  PROVE  EffectIn(E, k) = s
BY DEF EffectIn

\* A key without effects maps to None.
LEMMA NoEffectIsNone ==
  ASSUME NEW E, NEW k, \A r \in E : KeyOf[r] # k
  PROVE  EffectIn(E, k) = None
BY DEF EffectIn

\* An effect with another key changes nothing for this one.
LEMMA OtherKeysKeepTheirEffect ==
  ASSUME NEW E, NEW k, NEW r, KeyOf[r] # k,
         \A s, t \in E : KeyOf[s] = k /\ KeyOf[t] = k => s = t
  PROVE  EffectIn(E \union {r}, k) = EffectIn(E, k)
<1>1. CASE \E s \in E : KeyOf[s] = k
  <2>1. PICK s \in E : KeyOf[s] = k
    BY <1>1
  <2>2. EffectIn(E, k) = s
    BY <2>1, EffectIsUnique
  <2>3. s \in E \union {r} /\ \A t \in E \union {r} : KeyOf[t] = k => t = s
    BY <2>1
  <2>4. EffectIn(E \union {r}, k) = s
    BY <2>1, <2>3, EffectIsUnique
  <2> QED
    BY <2>2, <2>4
<1>2. CASE ~ \E s \in E : KeyOf[s] = k
  <2>1. EffectIn(E, k) = None
    BY <1>2, NoEffectIsNone
  <2>2. \A s \in E \union {r} : KeyOf[s] # k
    BY <1>2
  <2>3. EffectIn(E \union {r}, k) = None
    BY <2>2, NoEffectIsNone
  <2> QED
    BY <2>1, <2>3
<1> QED
  BY <1>1, <1>2

-----------------------------------------------------------------------------
Performed == [k \in Transactional |-> EffectIn(effects, k)]
Answered == [r \in TransactionalRequests |-> reply[r]]

\* Nothing is performed or answered at first.
LEMMA InitMaps == Init => Once!Init
BY DEF Init, Once!Init, EffectIn, TransactionalRequests

\* A committed transaction is the performance of its key.
LEMMA CommitMaps ==
  ASSUME IInv, NEW r \in Requests, Commit(r)
  PROVE  Once!Perform(r) /\ r \in TransactionalRequests
<1>1. KeyOf[r] \in Transactional
  BY DEF Commit, IInv, TypeOK
<1>2. EffectIn(effects, KeyOf[r]) = None
  BY NoEffectIsNone DEF Commit, NoEffectWithKey
<1>3. effects' = effects \union {r}
  BY DEF Commit, CommitBoth
<1>4. EffectIn(effects', KeyOf[r]) = r
  <2>1. r \in effects' /\ \A s \in effects' : KeyOf[s] = KeyOf[r] => s = r
    BY <1>3 DEF Commit, NoEffectWithKey
  <2> QED
    BY <2>1, EffectIsUnique
<1>5. \A k \in Transactional \ {KeyOf[r]} : EffectIn(effects', k) = EffectIn(effects, k)
  <2>1. SUFFICES ASSUME NEW k \in Transactional \ {KeyOf[r]}
                 PROVE  EffectIn(effects', k) = EffectIn(effects, k)
    OBVIOUS
  <2>2. \A s, t \in effects : KeyOf[s] = k /\ KeyOf[t] = k => s = t
    BY <2>1 DEF IInv, OneEffectPerKey
  <2> QED
    BY <2>1, <2>2, <1>3, OtherKeysKeepTheirEffect
<1>6. Answered' = Answered
  BY DEF Commit, Answered, TransactionalRequests
<1>7. Performed' = [Performed EXCEPT ![KeyOf[r]] = r]
  BY <1>1, <1>4, <1>5 DEF Performed
<1> QED
  BY <1>1, <1>2, <1>6, <1>7 DEF Once!Perform, Performed, Answered, TransactionalRequests

\* An answered request is answered with the performance of its key.
LEMMA AnswerMaps ==
  ASSUME IInv, NEW r \in Requests, NEW s \in effects, KeyOf[s] = KeyOf[r],
         reply[r] = None, reply' = [reply EXCEPT ![r] = s], UNCHANGED effects
  PROVE  Once!Next \/ UNCHANGED Once!vars
<1>1. Performed' = Performed
  BY DEF Performed
<1>2. CASE r \in TransactionalRequests
  <2>1. \A t \in effects : KeyOf[t] = KeyOf[r] => t = s
    BY <1>2 DEF IInv, OneEffectPerKey, TransactionalRequests
  <2>2. EffectIn(effects, KeyOf[r]) = s
    BY <2>1, EffectIsUnique
  <2>3. s # None
    BY KeysAssumption DEF IInv, TypeOK
  <2>4. Answered' = [Answered EXCEPT ![r] = s]
    BY <1>2 DEF Answered, TransactionalRequests, IInv, TypeOK
  <2>5. Once!Answer(r)
    BY <1>1, <1>2, <2>2, <2>3, <2>4
       DEF Once!Answer, Performed, Answered, TransactionalRequests
  <2> QED
    BY <1>2, <2>5 DEF Once!Next
<1>3. CASE r \notin TransactionalRequests
  <2>1. Answered' = Answered
    BY <1>3 DEF Answered, TransactionalRequests, IInv, TypeOK
  <2> QED
    BY <1>1, <2>1 DEF Once!vars, Performed, Answered
<1> QED
  BY <1>2, <1>3

\* Steps that commit nothing and answer nobody are stutters.
LEMMA QuietMaps ==
  ASSUME UNCHANGED <<effects, reply>>
  PROVE  UNCHANGED Once!vars
BY DEF Once!vars, TransactionalRequests

\* Every step of the handlers is a performance, an answer or a stutter.
LEMMA StepMaps == IInv /\ [Next]_vars => [Once!Next]_(Once!vars)
<1> SUFFICES ASSUME IInv, [Next]_vars PROVE Once!Next \/ UNCHANGED Once!vars
  OBVIOUS
<1>1. ASSUME NEW r \in Requests, Replay(r) PROVE Once!Next \/ UNCHANGED Once!vars
  <2>1. KeyOf[r] \in Keys
    BY KeysAssumption
  <2>2. keys[KeyOf[r]].result \in effects /\ KeyOf[keys[KeyOf[r]].result] = KeyOf[r]
    BY <1>1, <2>1 DEF Replay, Valid, IInv, KeyRowsAreEffects
  <2>3. reply[r] = None
    BY <1>1 DEF Replay, IInv, RepliesAreCommitted
  <2> QED
    BY <1>1, <2>2, <2>3, AnswerMaps DEF Replay
<1>2. ASSUME NEW r \in Requests, Commit(r) PROVE Once!Next \/ UNCHANGED Once!vars
  BY <1>2, CommitMaps DEF Once!Next
<1>3. ASSUME NEW r \in Requests, Reply(r) PROVE Once!Next \/ UNCHANGED Once!vars
  <2>1. r \in effects /\ reply[r] = None
    BY <1>3 DEF Reply, IInv, PastCommit, RepliesAreCommitted
  <2> QED
    BY <1>3, <2>1, AnswerMaps DEF Reply
<1>4. ASSUME NEW r \in Requests, PostCashbook(r) PROVE Once!Next \/ UNCHANGED Once!vars
  <2>1. effects' = effects \union {r} /\ reply' = reply
    BY <1>4 DEF PostCashbook
  <2>2. ASSUME NEW k \in Transactional
        PROVE  EffectIn(effects', k) = EffectIn(effects, k)
    <3>1. KeyOf[r] # k
      BY <1>4 DEF PostCashbook, Cashbook
    <3>2. \A s, t \in effects : KeyOf[s] = k /\ KeyOf[t] = k => s = t
      BY DEF IInv, OneEffectPerKey
    <3> QED
      BY <2>1, <3>1, <3>2, OtherKeysKeepTheirEffect
  <2> QED
    BY <2>1, <2>2 DEF Once!vars, TransactionalRequests
<1>5. CASE UNCHANGED <<effects, reply>>
  BY <1>5, QuietMaps
<1> QED
  BY <1>1, <1>2, <1>3, <1>4, <1>5
     DEF Next, Serve, Miss, LockLoan, Conflict, Refuse, StoreKey, StoreConflict,
         FoundAfterDelay, NotFoundAfterDelay, Crash, CleanupExpired, Tick, vars

\* A transactional operation is performed at most once for its key, and every
\* answer is the result of that performance, although requests overlap, crash
\* and return after their key has expired.
THEOREM OnceOnlyImplemented == Spec => ImplementsOnceOnly
<1>1. Init => Once!Init
  BY InitMaps
<1>2. IInv /\ [Next]_vars => [Once!Next]_(Once!vars)
  BY StepMaps
<1> QED
  BY <1>1, <1>2, InvariantHolds, PTL DEF Spec, Once!Spec, ImplementsOnceOnly
-----------------------------------------------------------------------------
(* The outbox, whose rows are handed over at most once at a time in the same
   spirit.

   SingleDispatch is inductive together with the types: a replica that has not
   outlived its lease holds a row that is in processing and not yet due, and
   such a row can be neither claimed, nor reset, nor recorded by another
   replica. *)

OutboxInv == OutboxTypeOK /\ SingleDispatch /\ SentWasDelivered

\* A replica claims rows that are processable, whatever the batch size.
LEMMA NextBatchIsProcessable ==
  NextBatch \subseteq Messages /\ \A m \in NextBatch : Processable(m)
BY DEF NextBatch

\* Nothing is enqueued or held at first.
LEMMA InitOutbox == OutboxInit => OutboxInv
BY OutboxAssumption
   DEF OutboxInit, OutboxInv, OutboxTypeOK, SingleDispatch, SentWasDelivered, Nothing, Held, Rows, Messages

-----------------------------------------------------------------------------
\* What recording an outcome makes of a row.
LEMMA RecordedRow ==
  ASSUME NEW r \in Rows, NEW entry \in Entries
  PROVE  /\ Recorded(r, entry) \in Rows
         /\ Recorded(r, entry).status \in {"sent", "failed", "dead_letter"}
         /\ Recorded(r, entry).status = "failed" => Recorded(r, entry).retries < MaxRetries
         /\ Recorded(r, entry).status = "dead_letter" => Recorded(r, entry).retries = MaxRetries
         /\ Recorded(r, entry).status = "sent" => entry.outcome = "sent"
<1>1. CASE entry.outcome = "sent"
  BY <1>1 DEF Recorded, Rows
<1>2. CASE entry.outcome # "sent"
  <2>1. entry.retries \in 0..(MaxRetries - 1) /\ r.wait \in Nat
    BY DEF Entries, Rows
  <2>2. Backoff[entry.retries] \in Nat
    BY <2>1, OutboxAssumption
  <2> QED
    BY <1>2, <2>1, <2>2, OutboxAssumption DEF Recorded, FailedRow, Rows
<1> QED
  BY <1>1, <1>2

LEMMA EnqueueStep ==
  ASSUME OutboxInv, NEW m \in Messages, Enqueue(m)
  PROVE  OutboxInv'
<1> DEFINE r == [row[m] EXCEPT !.status = "pending"]
<1>1. row' = [row EXCEPT ![m] = r] /\ UNCHANGED <<batch, delivered, overran, faults, manual>>
  BY DEF Enqueue, OutboxInv, OutboxTypeOK
<1>2. r \in Rows /\ r.status = "pending" /\ r.retries = row[m].retries
  BY DEF OutboxInv, OutboxTypeOK, Rows
<1>3. row[m].status = "absent"
  BY DEF Enqueue
<1>4. row[m].retries < MaxRetries
  BY <1>3 DEF OutboxInv, OutboxTypeOK
<1> HIDE DEF r
<1>5. OutboxTypeOK'
  BY <1>1, <1>2, <1>4 DEF OutboxInv, OutboxTypeOK, Held
<1>6. SingleDispatch'
  BY <1>1, <1>3 DEF OutboxInv, OutboxTypeOK, SingleDispatch, Held
<1>7. SentWasDelivered'
  BY <1>1, <1>2 DEF OutboxInv, OutboxTypeOK, SentWasDelivered, Held
<1> QED
  BY <1>5, <1>6, <1>7 DEF OutboxInv

LEMMA ResetStep ==
  ASSUME OutboxInv, NEW m \in Messages, ResetForRetry(m)
  PROVE  OutboxInv'
BY OutboxAssumption
   DEF ResetForRetry, Retryable, OutboxInv, OutboxTypeOK, SingleDispatch, SentWasDelivered, Held, Rows

LEMMA ClaimStep ==
  ASSUME OutboxInv, NEW w \in Workers, Claim(w)
  PROVE  OutboxInv'
<1> DEFINE B == NextBatch
<1>1. /\ row' = [m \in Messages |-> IF m \in B THEN Claimed(row[m]) ELSE row[m]]
      /\ batch' = [batch EXCEPT ![w] =
                     [m \in B |-> [retries |-> row[m].retries, outcome |-> "none"]]]
      /\ UNCHANGED <<delivered, overran, faults, manual>>
  BY DEF Claim
<1>2. B \subseteq Messages /\ \A m \in B : Processable(m)
  BY NextBatchIsProcessable
<1> HIDE DEF B
<1>3. OutboxTypeOK'
  <2>1. \A m \in B : /\ Claimed(row[m]) \in Rows /\ Claimed(row[m]).status = "processing"
                     /\ row[m].retries < MaxRetries
                     /\ Claimed(row[m]).retries = row[m].retries
    BY <1>2, OutboxAssumption DEF OutboxInv, OutboxTypeOK, Claimed, Processable, Rows
  <2>2. row' \in [Messages -> Rows]
    BY <1>1, <2>1 DEF OutboxInv, OutboxTypeOK
  <2>3. \A m \in Messages :
          /\ row'[m].status \in {"absent", "pending", "processing", "failed"} => row'[m].retries < MaxRetries
          /\ row'[m].status = "dead_letter" => row'[m].retries = MaxRetries
    BY <1>1, <2>1 DEF OutboxInv, OutboxTypeOK
  <2>4. \A m \in B : [retries |-> row[m].retries, outcome |-> "none"] \in Entries
    BY <1>2, <2>1, OutboxAssumption DEF OutboxInv, OutboxTypeOK, Rows, Entries
  <2>5. \A v \in Workers :
          Held(v)' \subseteq Messages /\ batch'[v] \in [Held(v)' -> Entries]
    BY <1>1, <1>2, <2>4 DEF OutboxInv, OutboxTypeOK, Held
  <2>6. batch' = [v \in Workers |-> batch'[v]]
    BY <1>1 DEF OutboxInv, OutboxTypeOK
  <2> QED
    BY <1>1, <2>2, <2>3, <2>5, <2>6 DEF OutboxInv, OutboxTypeOK
<1>4. \A m \in B \ overran, v \in Workers : m \notin Held(v)
  BY <1>2 DEF OutboxInv, SingleDispatch, Processable, OutboxTypeOK, Rows
<1>5. SingleDispatch'
  <2>1. SUFFICES ASSUME NEW m \in Messages \ overran, NEW v \in Workers, m \in Held(v)'
                 PROVE  /\ (row[m].status = "processing")' /\ (row[m].wait > 0)'
                        /\ (row[m].retries = batch[v][m].retries)'
                        /\ \A u \in Workers : m \in Held(u)' => v = u
    BY <1>1 DEF SingleDispatch
  <2>2. CASE v = w
    <3>1. m \in B /\ batch'[v][m] = [retries |-> row[m].retries, outcome |-> "none"]
      BY <1>1, <2>1, <2>2 DEF OutboxInv, OutboxTypeOK, Held
    <3>2. row'[m] = Claimed(row[m]) /\ row[m] \in Rows
      BY <1>1, <3>1 DEF OutboxInv, OutboxTypeOK
    <3>3. \A u \in Workers : u # w => Held(u)' = Held(u)
      BY <1>1 DEF OutboxInv, OutboxTypeOK, Held
    <3>4. m \in B \ overran
      BY <2>1, <3>1
    <3> QED
      BY <1>4, <2>2, <3>1, <3>2, <3>3, <3>4, OutboxAssumption DEF Claimed, Rows
  <2>3. CASE v # w
    BY <1>1, <1>2, <1>4, <2>1, <2>3 DEF OutboxInv, OutboxTypeOK, SingleDispatch, Held
  <2> QED
    BY <2>2, <2>3
<1>6. SentWasDelivered'
  BY <1>1, <1>2 DEF OutboxInv, OutboxTypeOK, SentWasDelivered, Held, Claimed, Rows
<1> QED
  BY <1>3, <1>5, <1>6 DEF OutboxInv

LEMMA SendStep ==
  ASSUME OutboxInv, NEW w \in Workers, SendSome(w)
  PROVE  OutboxInv'
<1>1. PICK m \in Held(w), outcome \in {"sent", "failed"}, arrives \in BOOLEAN :
        Send(w, m, outcome, arrives)
  BY DEF SendSome
<1>2. m \in Messages
  BY DEF OutboxInv, OutboxTypeOK
<1>3. \A v \in Workers : Held(v)' = Held(v)
  BY <1>1 DEF Send, Held, OutboxInv, OutboxTypeOK
<1>4. OutboxTypeOK'
  <2>1. [batch[w][m] EXCEPT !.outcome = outcome] \in Entries
    BY <1>1 DEF OutboxInv, OutboxTypeOK, Entries
  <2>2. batch' = [batch EXCEPT ![w] = [batch[w] EXCEPT ![m] =
                                         [batch[w][m] EXCEPT !.outcome = outcome]]]
    BY <1>1 DEF Send
  <2>3. \A v \in Workers : batch'[v] \in [Held(v) -> Entries]
    BY <1>1, <2>1, <2>2 DEF OutboxInv, OutboxTypeOK
  <2>4. batch' = [v \in Workers |-> batch'[v]]
    BY <2>2 DEF OutboxInv, OutboxTypeOK
  <2>5. delivered' \subseteq Messages /\ UNCHANGED <<row, overran, faults, manual>>
    BY <1>1, <1>2 DEF Send, OutboxInv, OutboxTypeOK
  <2> QED
    BY <1>3, <2>3, <2>4, <2>5 DEF OutboxInv, OutboxTypeOK
<1>5. SingleDispatch'
  BY <1>1, <1>3 DEF Send, OutboxInv, OutboxTypeOK, SingleDispatch, Held, Entries
<1>6. SentWasDelivered'
  BY <1>1, <1>2, <1>3 DEF Send, OutboxInv, OutboxTypeOK, SentWasDelivered, Held, Entries
<1> QED
  BY <1>4, <1>5, <1>6 DEF OutboxInv

\* Dropping an entry of a batch leaves the other entries as they were.
LEMMA DroppedBatch ==
  ASSUME OutboxTypeOK, NEW w \in Workers, NEW m \in Messages, Dropped(w, m)
  PROVE  /\ batch' = [v \in Workers |-> batch'[v]]
         /\ \A v \in Workers :
              /\ Held(v)' = IF v = w THEN Held(v) \ {m} ELSE Held(v)
              /\ \A o \in Held(v)' : batch'[v][o] = batch[v][o]
              /\ batch'[v] = [o \in Held(v)' |-> batch[v][o]]
BY DEF Dropped, OutboxTypeOK, Held

LEMMA RecordStep ==
  ASSUME OutboxInv, NEW w \in Workers, Record(w)
  PROVE  OutboxInv'
<1>1. PICK m \in Messages :
        /\ NextToRecord(w, m)
        /\ row' = [row EXCEPT ![m] = Recorded(@, batch[w][m])]
        /\ Dropped(w, m)
        /\ UNCHANGED <<delivered, overran, faults, manual>>
  BY DEF Record
<1> DEFINE r == Recorded(row[m], batch[w][m])
<1>2. m \in Held(w)
  BY <1>1 DEF NextToRecord
<1>3. /\ r \in Rows /\ r.status \in {"sent", "failed", "dead_letter"}
      /\ r.status = "failed" => r.retries < MaxRetries
      /\ r.status = "dead_letter" => r.retries = MaxRetries
      /\ r.status = "sent" => batch[w][m].outcome = "sent"
  BY <1>2, RecordedRow DEF OutboxInv, OutboxTypeOK
<1>4. row' = [row EXCEPT ![m] = r]
  BY <1>1
<1> HIDE DEF r
<1>5. /\ batch' = [v \in Workers |-> batch'[v]]
      /\ \A v \in Workers :
           /\ Held(v)' = IF v = w THEN Held(v) \ {m} ELSE Held(v)
           /\ \A o \in Held(v)' : batch'[v][o] = batch[v][o]
           /\ batch'[v] = [o \in Held(v)' |-> batch[v][o]]
  BY <1>1, DroppedBatch DEF OutboxInv
<1>6. OutboxTypeOK'
  <2>1. row' \in [Messages -> Rows]
    BY <1>3, <1>4 DEF OutboxInv, OutboxTypeOK
  <2>2. \A v \in Workers : Held(v)' \subseteq Messages /\ batch'[v] \in [Held(v)' -> Entries]
    BY <1>5 DEF OutboxInv, OutboxTypeOK
  <2>3. \A o \in Messages :
          /\ row'[o].status \in {"absent", "pending", "processing", "failed"} => row'[o].retries < MaxRetries
          /\ row'[o].status = "dead_letter" => row'[o].retries = MaxRetries
    BY <1>3, <1>4 DEF OutboxInv, OutboxTypeOK
  <2> QED
    BY <1>1, <1>5, <2>1, <2>2, <2>3 DEF OutboxInv, OutboxTypeOK
<1>7. SingleDispatch'
  BY <1>1, <1>2, <1>4, <1>5 DEF OutboxInv, OutboxTypeOK, SingleDispatch
<1>8. SentWasDelivered'
  BY <1>1, <1>2, <1>3, <1>4, <1>5 DEF OutboxInv, OutboxTypeOK, SentWasDelivered
<1> QED
  BY <1>6, <1>7, <1>8 DEF OutboxInv

LEMMA RecordFailsStep ==
  ASSUME OutboxInv, NEW w \in Workers, RecordFails(w)
  PROVE  OutboxInv'
<1>1. PICK m \in Messages : NextToRecord(w, m) /\ Dropped(w, m)
  BY DEF RecordFails
<1>2. /\ batch' = [v \in Workers |-> batch'[v]]
      /\ \A v \in Workers :
           /\ Held(v)' = IF v = w THEN Held(v) \ {m} ELSE Held(v)
           /\ \A o \in Held(v)' : batch'[v][o] = batch[v][o]
           /\ batch'[v] = [o \in Held(v)' |-> batch[v][o]]
  BY <1>1, DroppedBatch DEF OutboxInv
<1>3. UNCHANGED <<row, delivered, overran, manual>> /\ faults' \in 0..MaxFaults
  BY OutboxAssumption DEF RecordFails, OutboxInv, OutboxTypeOK
<1>4. \A v \in Workers : Held(v)' \subseteq Messages /\ batch'[v] \in [Held(v)' -> Entries]
  BY <1>2 DEF OutboxInv, OutboxTypeOK
<1>5. OutboxTypeOK'
  BY <1>2, <1>3, <1>4 DEF OutboxInv, OutboxTypeOK
<1>6. SingleDispatch'
  BY <1>2, <1>3 DEF OutboxInv, OutboxTypeOK, SingleDispatch
<1>7. SentWasDelivered'
  BY <1>2, <1>3 DEF OutboxInv, OutboxTypeOK, SentWasDelivered
<1> QED
  BY <1>5, <1>6, <1>7 DEF OutboxInv

LEMMA CrashStep ==
  ASSUME OutboxInv, NEW w \in Workers, WorkerDies(w)
  PROVE  OutboxInv'
<1>1. /\ batch' = [batch EXCEPT ![w] = Nothing]
      /\ UNCHANGED <<row, delivered, overran, manual>>
      /\ faults' \in 0..MaxFaults
  BY OutboxAssumption DEF WorkerDies, OutboxInv, OutboxTypeOK
<1>2. \A v \in Workers :
        /\ Held(v)' = IF v = w THEN {} ELSE Held(v)
        /\ v # w => batch'[v] = batch[v]
  BY <1>1 DEF OutboxInv, OutboxTypeOK, Held, Nothing
<1>3. OutboxTypeOK'
  BY <1>1, <1>2 DEF OutboxInv, OutboxTypeOK, Nothing
<1>4. SingleDispatch'
  BY <1>1, <1>2 DEF OutboxInv, SingleDispatch
<1>5. SentWasDelivered'
  BY <1>1, <1>2 DEF OutboxInv, SentWasDelivered
<1> QED
  BY <1>3, <1>4, <1>5 DEF OutboxInv

LEMMA TickStep ==
  ASSUME OutboxInv, ClockTicks
  PROVE  OutboxInv'
<1>1. /\ UNCHANGED <<batch, delivered, faults, manual>>
      /\ \A v \in Workers : Held(v)' = Held(v)
  BY DEF ClockTicks, Held
<1>2. \A m \in Messages :
        /\ row'[m].status = row[m].status /\ row'[m].retries = row[m].retries
        /\ row'[m].wait = IF row[m].wait > 0 THEN row[m].wait - 1 ELSE row[m].wait
        /\ row'[m] \in Rows
  BY DEF ClockTicks, OutboxInv, OutboxTypeOK, Rows
<1>3. /\ overran' \subseteq Messages /\ overran \subseteq overran'
      /\ \A m \in Messages \ overran', v \in Workers :
           m \in Held(v) => ~ (row[m].status = "processing" /\ row[m].wait = 1)
  BY DEF ClockTicks, OutboxInv, OutboxTypeOK
<1>4. OutboxTypeOK'
  <2>1. row' \in [Messages -> Rows]
    BY <1>2 DEF ClockTicks
  <2> QED
    BY <1>1, <1>2, <1>3, <2>1 DEF OutboxInv, OutboxTypeOK
<1>5. SingleDispatch'
  BY <1>1, <1>2, <1>3 DEF OutboxInv, SingleDispatch, OutboxTypeOK, Rows
<1>6. SentWasDelivered'
  BY <1>1, <1>2 DEF OutboxInv, SentWasDelivered
<1> QED
  BY <1>4, <1>5, <1>6 DEF OutboxInv

LEMMA NextInv == OutboxInv /\ [OutboxNext]_outboxVars => OutboxInv'
<1> SUFFICES ASSUME OutboxInv, [OutboxNext]_outboxVars PROVE OutboxInv'
  OBVIOUS
<1>1. CASE UNCHANGED outboxVars
  BY <1>1 DEF outboxVars, OutboxInv, OutboxTypeOK, SingleDispatch, SentWasDelivered, Held
<1>2. CASE OutboxNext
  BY <1>2, EnqueueStep, ResetStep, ClaimStep, SendStep, RecordStep, RecordFailsStep,
     CrashStep, TickStep DEF OutboxNext
<1> QED
  BY <1>1, <1>2

-----------------------------------------------------------------------------
\* The types, the single dispatch and the deliveries hold together.
THEOREM OutboxInvariant == OutboxSpec => []OutboxInv
<1>1. OutboxInit => OutboxInv
  BY InitOutbox
<1>2. OutboxInv /\ [OutboxNext]_outboxVars => OutboxInv'
  BY NextInv
<1> QED
  BY <1>1, <1>2, PTL DEF OutboxSpec

\* Without an overrun lease no two replicas ever hold one message, whatever
\* crashes, lost writes and manual retries happen (processNextBatch,
\* fetchProcessableBatch, markProcessing).
THEOREM SingleDispatchAlways == OutboxSpec => []SingleDispatch
<1>1. OutboxInv => SingleDispatch
  BY DEF OutboxInv
<1> QED
  BY <1>1, OutboxInvariant, PTL

\* A message recorded as sent has reached the customer (recordOutcome).
THEOREM SentWasDeliveredAlways == OutboxSpec => []SentWasDelivered
<1>1. OutboxInv => SentWasDelivered
  BY DEF OutboxInv
<1> QED
  BY <1>1, OutboxInvariant, PTL

\* One step takes a sent message back only when a lease on it was overrun.
LEMMA SentStep ==
  ASSUME OutboxInv, [OutboxNext]_outboxVars, NEW m \in Messages,
         row[m].status = "sent", row'[m].status # "sent"
  PROVE  m \in overran
<1>1. ASSUME NEW w \in Workers, Record(w) PROVE m \in overran
  <2>1. PICK o \in Messages :
          NextToRecord(w, o) /\ row' = [row EXCEPT ![o] = Recorded(@, batch[w][o])]
    BY <1>1 DEF Record
  <2>2. m = o
    BY <2>1 DEF OutboxInv, OutboxTypeOK
  <2>3. m \in Held(w)
    BY <2>1, <2>2 DEF NextToRecord
  <2> QED
    BY <2>3 DEF OutboxInv, SingleDispatch
<1>2. ASSUME NEW w \in Workers, Claim(w) PROVE FALSE
  <2>1. m \notin NextBatch
    BY NextBatchIsProcessable DEF Processable
  <2> QED
    BY <1>2, <2>1 DEF Claim
<1>3. ASSUME NEW o \in Messages, Enqueue(o) \/ ResetForRetry(o) PROVE FALSE
  BY <1>3 DEF Enqueue, ResetForRetry, Retryable, OutboxInv, OutboxTypeOK
<1>4. CASE ClockTicks
  BY <1>4 DEF ClockTicks
<1>5. ASSUME row' = row PROVE FALSE
  BY <1>5
<1> QED
  BY <1>1, <1>2, <1>3, <1>4, <1>5
     DEF OutboxNext, outboxVars, SendSome, Send, RecordFails, WorkerDies

\* Only a replica that outlived its lease can take a sent message back
\* (markSent, markFailed, resetForRetry).
THEOREM SentUndoneOnlyByOverrunAlways == OutboxSpec => SentUndoneOnlyByOverrun
<1> DEFINE A == \A m \in Messages :
                  row[m].status = "sent" /\ row'[m].status # "sent" => m \in overran
<1>1. OutboxInv /\ [OutboxNext]_outboxVars => [A]_outboxVars
  BY SentStep
<1>2. OutboxSpec => [][A]_outboxVars
  BY <1>1, OutboxInvariant, PTL DEF OutboxSpec
<1> QED
  BY <1>2 DEF SentUndoneOnlyByOverrun
=============================================================================
