------------------------------- MODULE Client -------------------------------
(***************************************************************************)
(* The forms of the web client that move money, from the click to the      *)
(* answer, over a connection that may lose a request or an answer.         *)
(*                                                                         *)
(* A visit is one form from its mounting to its success or to the moment   *)
(* the user leaves it.  There is no timeout and no automatic retry of a    *)
(* mutation; a lost answer shows as an error and the user may submit       *)
(* again.  What the client took for lost may still reach the server.       *)
(*                                                                         *)
(* The server is seen as OnceOnly promises it: a key that is stored is     *)
(* answered with its stored result, whatever the request carries now.      *)
(***************************************************************************)
EXTENDS Naturals, FiniteSets

CONSTANTS
  Kinds,       \* the forms the run opens
  Inputs,      \* what the user may enter: loan and amount, or what is acted on
  MaxVisits,   \* bound: forms opened
  MaxSubmits,  \* bound: submissions
  NoForm

\* Forms that keep one idempotency key, and forms that have none.  A decision
\* submits, reviews, approves, rejects or closes a loan, or waives a penalty.
KeepsKey == {"collection", "reversal"}
Keyless == {"application", "decision"}
\* Their target takes the operation once: its status refuses a second.
OnceByStatus == {"reversal", "disbursement", "foreclosure", "decision"}
\* The cash book commits the effect before it stores the key, and a loan is
\* inserted before its history: an error may follow.
CommitsFirst == {"expense", "handover", "application"}
AllKinds == KeepsKey \union OnceByStatus \union CommitsFirst \union {"group"}

\* A visit is known by its number, and so is a key; 0 is no key.
Forms == [visit : Nat, kind : Kinds, input : Inputs, busy : BOOLEAN, key : Nat]

ASSUME ClientAssumption ==
  /\ Kinds \subseteq AllKinds
  /\ MaxVisits \in Nat /\ MaxSubmits \in Nat
  /\ NoForm \notin Forms

VARIABLES
  form,      \* the form on screen
  visits,    \* visits so far
  keys,      \* keys generated so far (crypto.randomUUID)
  submits,   \* submissions so far
  requests,  \* requests on their way, being served, or answered
  effects,   \* what the server committed
  told,      \* submissions reported as successful
  lost       \* visits that were not told the outcome of one of their submissions

vars == <<form, visits, keys, submits, requests, effects, told, lost>>

Init ==
  /\ form = NoForm
  /\ visits = 0 /\ keys = 0 /\ submits = 0
  /\ requests = {} /\ effects = {} /\ told = {} /\ lost = {}

-----------------------------------------------------------------------------
(* The form. *)

Mounted(kind, input) ==
  [visit |-> visits + 1, kind |-> kind, input |-> input, busy |-> FALSE,
   key |-> IF kind \in KeepsKey THEN keys + 1 ELSE 0]

\* A page that keeps its key makes it when it is mounted, the reversal dialog
\* when it is opened on a collection.
Open(kind, input) ==
  /\ visits < MaxVisits
  /\ form = NoForm
  /\ form' = Mounted(kind, input)
  /\ visits' = visits + 1
  /\ keys' = IF kind \in KeepsKey THEN keys + 1 ELSE keys
  /\ UNCHANGED <<submits, requests, effects, told, lost>>

\* After an error the fields can be edited; the key stays.  What a form of
\* OnceByStatus acts on is fixed by the page it is on.
Edit(input) ==
  /\ form # NoForm /\ ~ form.busy
  /\ form.kind \notin OnceByStatus
  /\ input # form.input
  /\ form' = [form EXCEPT !.input = input]
  /\ UNCHANGED <<visits, keys, submits, requests, effects, told, lost>>

\* Slip: the key is made anew for every submission.
FreshKey(f) == keys + 1

\* Slip: the key is made once and never changed.
OneKey(f) == 1

\* The key a submission carries.
KeyOf(f) ==
  CASE f.kind \in KeepsKey -> f.key
    [] f.kind \in Keyless -> 0
    [] OTHER -> keys + 1

\* The button is disabled while the mutation is pending.
Submit ==
  /\ form # NoForm /\ ~ form.busy
  /\ submits < MaxSubmits
  /\ form' = [form EXCEPT !.busy = TRUE]
  /\ submits' = submits + 1
  /\ keys' = IF KeyOf(form) > keys THEN KeyOf(form) ELSE keys
  /\ requests' = requests \union
       {[number |-> submits + 1, visit |-> form.visit, kind |-> form.kind,
         input |-> form.input, key |-> KeyOf(form), waited |-> TRUE, answer |-> "none"]}
  /\ UNCHANGED <<visits, effects, told, lost>>

\* The user leaves the page, and forgets the submission under way: a dialog
\* may refuse to close while it waits, the page can still be left.
Leave ==
  /\ form # NoForm
  /\ form' = NoForm
  /\ requests' = {IF r.visit = form.visit THEN [r EXCEPT !.waited = FALSE] ELSE r : r \in requests}
  /\ lost' = IF form.busy THEN lost \union {form.visit} ELSE lost
  /\ UNCHANGED <<visits, keys, submits, effects, told>>

-----------------------------------------------------------------------------
(* The server, as one client sees it. *)

Stored(key) == key # 0 /\ \E e \in effects : e.key = key

Refused(r) ==
  r.kind \in OnceByStatus /\ \E e \in effects : e.kind = r.kind /\ e.input = r.input

EffectOf(r) ==
  [number |-> r.number, visit |-> r.visit, kind |-> r.kind, input |-> r.input, key |-> r.key]

Answered(r, answer) == (requests \ {r}) \union {[r EXCEPT !.answer = answer]}

Commit(r) ==
  /\ ~ Stored(r.key)
  /\ ~ Refused(r)
  /\ effects' = effects \union {EffectOf(r)}
  /\ \/ requests' = Answered(r, "success") /\ UNCHANGED lost
     \/ /\ r.kind \in CommitsFirst
        /\ requests' = Answered(r, "failure")
        /\ lost' = lost \union {r.visit}

\* The stored result is returned; the request is not compared with it.
Replay(r) ==
  /\ Stored(r.key)
  /\ requests' = Answered(r, "success")
  /\ UNCHANGED <<effects, lost>>

\* A check fails, the transaction rolls back, or the token cannot be renewed.
Refuse(r) ==
  /\ ~ Stored(r.key)
  /\ requests' = Answered(r, "failure")
  /\ UNCHANGED <<effects, lost>>

Serve(r) ==
  /\ r.answer = "none"
  /\ Commit(r) \/ Replay(r) \/ Refuse(r)
  /\ UNCHANGED <<form, visits, keys, submits, told>>

\* A request nobody waits for any more is dropped on its way, or its answer is.
Forgotten(r) ==
  /\ ~ r.waited
  /\ requests' = requests \ {r}
  /\ UNCHANGED <<form, visits, keys, submits, effects, told, lost>>

-----------------------------------------------------------------------------
(* The answer. *)

Waiting(r) == form # NoForm /\ r.waited /\ r.visit = form.visit

\* The toast, and the page goes elsewhere.
Succeed(r) ==
  /\ Waiting(r) /\ r.answer = "success"
  /\ told' = told \union {[visit |-> r.visit, kind |-> r.kind, input |-> r.input, key |-> r.key]}
  /\ form' = NoForm
  /\ requests' = requests \ {r}
  /\ UNCHANGED <<visits, keys, submits, effects, lost>>

Fail(r) ==
  /\ Waiting(r) /\ r.answer = "failure"
  /\ form' = [form EXCEPT !.busy = FALSE]
  /\ requests' = requests \ {r}
  /\ UNCHANGED <<visits, keys, submits, effects, told, lost>>

\* fetch rejects: the request or its answer was lost, which the client cannot
\* tell apart.
Disconnect(r) ==
  /\ Waiting(r)
  /\ form' = [form EXCEPT !.busy = FALSE]
  /\ requests' = (requests \ {r}) \union {[r EXCEPT !.waited = FALSE]}
  /\ lost' = lost \union {r.visit}
  /\ UNCHANGED <<visits, keys, submits, effects, told>>

Next ==
  \/ \E kind \in Kinds, input \in Inputs : Open(kind, input)
  \/ \E input \in Inputs : Edit(input)
  \/ Submit
  \/ Leave
  \/ \E r \in requests : Serve(r) \/ Forgotten(r) \/ Succeed(r) \/ Fail(r) \/ Disconnect(r)

Spec == Init /\ [][Next]_vars

-----------------------------------------------------------------------------
(* Properties. *)

Submission == [visit : 1..MaxVisits, kind : Kinds, input : Inputs, key : 0..MaxVisits + MaxSubmits]

TypeOK ==
  /\ form = NoForm \/ form \in
       [visit : 1..MaxVisits, kind : Kinds, input : Inputs, busy : BOOLEAN,
        key : 0..MaxVisits + MaxSubmits]
  /\ visits \in 0..MaxVisits /\ submits \in 0..MaxSubmits /\ keys \in 0..MaxVisits + MaxSubmits
  /\ \A r \in requests : r.answer \in {"none", "success", "failure"}
  /\ told \subseteq Submission
  /\ lost \subseteq 1..MaxVisits
  /\ form # NoForm /\ form.busy =>
       Cardinality({r \in requests : Waiting(r)}) = 1

\* What the user is told was posted was posted, as it was entered.  The one
\* exception is the collection page, which keeps its key while its fields are
\* edited: once an answer was lost, the next submission may be answered with
\* the result of the one before (collections/new/page.tsx, find of
\* IdempotencyService).
ToldIsPosted ==
  \A t \in told :
    \E e \in effects :
      /\ e.key = t.key /\ e.kind = t.kind /\ e.visit = t.visit
      /\ e.input # t.input => t.kind = "collection" /\ t.visit \in lost

\* However often one visit submits, it has one effect.  The exceptions make a
\* key per submission, or none, and act on what does not refuse a second: a
\* group collection, an expense, a handover or an application, and those only
\* once the visit was not told the outcome of a submission
\* (groups/[id]/collect/page.tsx, useCashbook.ts, loans/new/page.tsx).
OneEffectPerVisit ==
  \A d, e \in effects :
    d.visit = e.visit /\ d # e =>
      d.kind \in CommitsFirst \union {"group"} /\ d.visit \in lost
=============================================================================
