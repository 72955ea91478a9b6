------------------------------- MODULE Outbox -------------------------------
(***************************************************************************)
(* The SMS outbox: messages written with the business transaction that     *)
(* causes them, processor replicas that claim a batch, send it outside any *)
(* transaction and then record each outcome, and the manual retry.         *)
(*                                                                         *)
(* next_retry_at is modelled by the time that is left until it, "wait": it *)
(* counts down with the clock and is due at 0.  On a processing row it is  *)
(* the lease of the processor that claimed the row.                        *)
(***************************************************************************)
EXTENDS Integers, FiniteSets

CONSTANTS
  Count,      \* messages are 1..Count, in the order of created_at
  Workers,    \* processor replicas, each with its own "processing" flag
  BatchSize,
  MaxRetries, \* max_retries of a message
  Lease,      \* PROCESSING_LEASE_MS, in ticks
  Backoff,    \* 30 * 4 ^ retry_count seconds, in ticks, for 0..MaxRetries - 1
  MaxFaults,  \* bound: crashes and failed writes of an outcome
  MaxManual   \* bound: manual retries

Messages == 1..Count

ASSUME OutboxAssumption ==
  /\ Count \in Nat /\ BatchSize \in Nat \ {0} /\ MaxRetries \in Nat \ {0}
  /\ Lease \in Nat \ {0}
  /\ Backoff \in [0..(MaxRetries - 1) -> Nat]
  /\ MaxFaults \in Nat /\ MaxManual \in Nat

VARIABLES
  row,       \* outbox_messages: status, retry_count, time until next_retry_at
  batch,     \* per worker, what it has claimed and not yet recorded: for each
             \* message the retry_count it read and the outcome of the send
  delivered, \* messages the customer has received at least once
  overran,   \* history: messages some worker still held when its lease ended
  faults,    \* crashes and failed writes so far
  manual     \* manual retries so far

outboxVars == <<row, batch, delivered, overran, faults, manual>>

Nothing == [m \in {} |-> 0]
Held(w) == DOMAIN batch[w]

OutboxInit ==
  /\ row = [m \in Messages |-> [status |-> "absent", retries |-> 0, wait |-> 0]]
  /\ batch = [w \in Workers |-> Nothing]
  /\ delivered = {}
  /\ overran = {}
  /\ faults = 0
  /\ manual = 0

Enqueue(m) ==
  /\ row[m].status = "absent"
  /\ \A o \in Messages : o < m => row[o].status # "absent"
  /\ row' = [row EXCEPT ![m].status = "pending"]
  /\ UNCHANGED <<batch, delivered, overran, faults, manual>>

-----------------------------------------------------------------------------
(* Phase 1: lock a batch. *)

\* Slip: a row left in processing by a crash is not recovered.
ProcessableUnlessClaimed(m) ==
  /\ \/ row[m].status = "pending"
     \/ row[m].status = "failed" /\ row[m].wait = 0
  /\ row[m].retries < MaxRetries

Processable(m) ==
  /\ \/ row[m].status = "pending"
     \/ row[m].status \in {"failed", "processing"} /\ row[m].wait = 0
  /\ row[m].retries < MaxRetries

\* ORDER BY created_at LIMIT BatchSize
NextBatch ==
  LET due == {m \in Messages : Processable(m)}
  IN  {m \in due : Cardinality({o \in due : o < m}) < BatchSize}

\* Slip: the row is flipped to processing without a lease.
ClaimedWithoutLease(r) == [r EXCEPT !.status = "processing"]

Claimed(r) == [r EXCEPT !.status = "processing", !.wait = Lease]

Claim(w) ==
  /\ Held(w) = {}
  /\ NextBatch # {}
  /\ row' = [m \in Messages |-> IF m \in NextBatch THEN Claimed(row[m]) ELSE row[m]]
  /\ batch' = [batch EXCEPT ![w] =
       [m \in NextBatch |-> [retries |-> row[m].retries, outcome |-> "none"]]]
  /\ UNCHANGED <<delivered, overran, faults, manual>>

-----------------------------------------------------------------------------
(* Phase 2: send, outside the transaction; the sends overlap.  The provider
   may have delivered a message that it reports as failed. *)

Send(w, m, outcome, arrives) ==
  /\ batch[w][m].outcome = "none"
  /\ outcome = "sent" => arrives
  /\ batch' = [batch EXCEPT ![w][m].outcome = outcome]
  /\ delivered' = IF arrives THEN delivered \union {m} ELSE delivered
  /\ UNCHANGED <<row, overran, faults, manual>>

-----------------------------------------------------------------------------
(* Phase 3: when every send has settled, record the outcomes in order, with
   the retry_count read in phase 1 and whatever the row is now. *)

NextToRecord(w, m) ==
  /\ m \in Held(w)
  /\ \A o \in Held(w) : o >= m /\ batch[w][o].outcome # "none"

Dropped(w, m) == batch' = [batch EXCEPT ![w] = [o \in Held(w) \ {m} |-> @[o]]]

FailedRow(retries, wait) ==
  IF retries + 1 >= MaxRetries
  THEN [status |-> "dead_letter", retries |-> retries + 1, wait |-> wait]
  ELSE [status |-> "failed", retries |-> retries + 1, wait |-> Backoff[retries]]

\* Slip: any settled dispatch counts as sent.
RecordedAsSent(r, entry) == [r EXCEPT !.status = "sent"]

Recorded(r, entry) ==
  IF entry.outcome = "sent" THEN [r EXCEPT !.status = "sent"]
  ELSE FailedRow(entry.retries, r.wait)

Record(w) ==
  \E m \in Messages :
    /\ NextToRecord(w, m)
    /\ row' = [row EXCEPT ![m] = Recorded(@, batch[w][m])]
    /\ Dropped(w, m)
    /\ UNCHANGED <<delivered, overran, faults, manual>>

\* A write that fails is logged and the loop goes on with the next message.
RecordFails(w) ==
  /\ faults < MaxFaults
  /\ faults' = faults + 1
  /\ \E m \in Messages : NextToRecord(w, m) /\ Dropped(w, m)
  /\ UNCHANGED <<row, delivered, overran, manual>>

WorkerDies(w) ==
  /\ Held(w) # {}
  /\ faults < MaxFaults
  /\ faults' = faults + 1
  /\ batch' = [batch EXCEPT ![w] = Nothing]
  /\ UNCHANGED <<row, delivered, overran, manual>>

-----------------------------------------------------------------------------
\* Slip: a sent message may be retried too.
RetryableIfSent(m) == row[m].status \in {"failed", "dead_letter", "sent"}

Retryable(m) == row[m].status \in {"failed", "dead_letter"}

ResetForRetry(m) ==
  /\ Retryable(m)
  /\ manual < MaxManual
  /\ manual' = manual + 1
  /\ row' = [row EXCEPT ![m] = [status |-> "pending", retries |-> 0, wait |-> 0]]
  /\ UNCHANGED <<batch, delivered, overran, faults>>

ClockTicks ==
  /\ \E m \in Messages : row[m].wait > 0
  /\ row' = [m \in Messages |->
               IF row[m].wait > 0 THEN [row[m] EXCEPT !.wait = @ - 1] ELSE row[m]]
  /\ overran' = overran \union
       {m \in Messages : /\ row[m].status = "processing" /\ row[m].wait = 1
                         /\ \E w \in Workers : m \in Held(w)}
  /\ UNCHANGED <<batch, delivered, faults, manual>>

SendSome(w) ==
  \E m \in Held(w), outcome \in {"sent", "failed"}, arrives \in BOOLEAN :
    Send(w, m, outcome, arrives)

OutboxNext ==
  \/ \E m \in Messages : Enqueue(m) \/ ResetForRetry(m)
  \/ \E w \in Workers :
       Claim(w) \/ SendSome(w) \/ Record(w) \/ RecordFails(w) \/ WorkerDies(w)
  \/ ClockTicks

OutboxSpec == OutboxInit /\ [][OutboxNext]_outboxVars

\* @Interval(10_000) calls every processor again; a send settles and its outcome
\* is recorded; the clock runs.
OutboxFairness ==
  /\ \A w \in Workers : WF_outboxVars(Claim(w)) /\ WF_outboxVars(SendSome(w)) /\ WF_outboxVars(Record(w))
  /\ WF_outboxVars(ClockTicks)

FairSpec == OutboxSpec /\ OutboxFairness

-----------------------------------------------------------------------------
(* Properties *)

Rows ==
  [status : {"absent", "pending", "processing", "failed", "sent", "dead_letter"},
   retries : 0..MaxRetries, wait : Nat]

Entries == [retries : 0..(MaxRetries - 1), outcome : {"none", "sent", "failed"}]

\* Rows and claims have their types, a row that can still be sent has retries
\* left and a dead letter has none.
OutboxTypeOK ==
  /\ row \in [Messages -> Rows]
  /\ batch = [w \in Workers |-> batch[w]]
  /\ \A w \in Workers : Held(w) \subseteq Messages /\ batch[w] \in [Held(w) -> Entries]
  /\ \A m \in Messages :
       /\ row[m].status \in {"absent", "pending", "processing", "failed"} => row[m].retries < MaxRetries
       /\ row[m].status = "dead_letter" => row[m].retries = MaxRetries
  /\ delivered \subseteq Messages /\ overran \subseteq Messages
  /\ faults \in 0..MaxFaults /\ manual \in 0..MaxManual

\* Replicas never work on the same message together, and one that holds a
\* message still has the row in processing under its lease, as long as no
\* replica outlived a lease on it: crashes, lost writes and manual retries are
\* not enough for a double dispatch.
SingleDispatch ==
  \A m \in Messages \ overran, v, w \in Workers :
    m \in Held(v) =>
      /\ row[m].status = "processing" /\ row[m].wait > 0
      /\ row[m].retries = batch[v][m].retries
      /\ m \in Held(w) => v = w

\* A message recorded as sent, or held with that outcome, reached the customer:
\* the outcome of one send is never recorded for another message of the batch.
SentWasDelivered ==
  \A m \in Messages :
    \/ row[m].status = "sent"
    \/ \E w \in Workers : m \in Held(w) /\ batch[w][m].outcome = "sent"
    => m \in delivered

\* Only a replica that outlived its lease can take a sent message back.
SentUndoneOnlyByOverrun ==
  [][\A m \in Messages :
       row[m].status = "sent" /\ row'[m].status # "sent" => m \in overran]_outboxVars

\* Every message that was enqueued is in the end sent or a dead letter for good,
\* even when replicas crash while they hold it, lose the write of an outcome or
\* overwrite each other's retry_count.
EveryMessageSettles ==
  \A m \in Messages :
    row[m].status # "absent" ~> [](row[m].status \in {"sent", "dead_letter"})
=============================================================================
