------------------------------ MODULE LoanDesk ------------------------------
(***************************************************************************)
(* The page of a loan as one clerk works with it: the buttons it offers    *)
(* on the answers it loaded last, its dialogs, what they send, and what    *)
(* the server makes of it while others change the loan.                    *)
(*                                                                         *)
(* One clerk, one loan, amounts in paise.  What the handlers write to      *)
(* ledger, schedule and history is in LoanAccount and LoanLifecycle; here  *)
(* are the guards, the status, what is owed, and the quotes.  A payment    *)
(* goes to the schedule, and cached_outstanding_paise is what is owed and  *)
(* the pending penalty: LoanAccount says how far it may be from that.      *)
(***************************************************************************)
EXTENDS Naturals, Sequences

CONSTANTS
  MaxOwed,    \* bound: what a schedule asks for
  Fine,       \* a penalty
  QuoteDrift, \* QUOTE_DRIFT_TOLERANCE_PAISE
  MaxQuotes   \* bound: quotes generated

LoanDeskAssumption ==
  /\ MaxOwed \in Nat \ {0} /\ Fine \in Nat \ {0}
  /\ QuoteDrift \in Nat /\ MaxQuotes \in Nat

-----------------------------------------------------------------------------
(* Roles and permissions. *)

Managers == {"super_admin", "manager"}
Submitters == Managers \union {"field_officer", "office_staff"}

\* Who may do what, at the button and at the endpoint alike.
Permitted(role, action) ==
  role \in IF action = "submit" THEN Submitters ELSE Managers

CanBypassMakerChecker(role) == role = "super_admin"

-----------------------------------------------------------------------------
VARIABLES
  role,     \* of the clerk
  loan,     \* the loan, as the server has it
  hidden,   \* what of it the page is not told
  quotes,   \* its foreclosure quotes, oldest first
  view,     \* the loan, as the page loaded it last
  pending,  \* the pending quote, as the page loaded it last: 0 for none
  desk,     \* the state of the page
  request,  \* the request under way
  stale     \* whether the message on screen is QUOTE_STALE

vars == <<role, loan, hidden, quotes, view, pending, desk, request, stale>>

\* What a page is told of a loan.  owed: what its installments still ask for;
\* rows: its newest collection, "reversed" being a payment and its compensating
\* row; paid: what that one took off the schedule.
Statuses ==
  {"draft", "submitted", "under_review", "approved", "rejected", "active", "overdue",
   "closed", "foreclosed"}
Shown ==
  [status : Statuses, owed : 0..MaxOwed, penalty : {"none", "pending", "waived", "paid"},
   rows : {"none", "payment", "reversed"}, paid : 0..MaxOwed]

\* And what it is not told.  barred: who created it, then who approved it, as
\* long as the other one must take the next decision; lacks: what the customer
\* lacks for a submission or a disbursement.
Hidden ==
  [barred : {"none", "me", "other"}, lacks : {"nothing", "standing", "kyc"}]

Running(l) == l.status \in {"active", "overdue"}
Dues(l) == l.owed + (IF l.penalty = "pending" THEN Fine ELSE 0)
Settlement(dues, rebate) == IF rebate >= dues THEN 0 ELSE dues - rebate

Apart(a, b) == IF a >= b THEN a - b ELSE b - a
Drifted(q) == Apart(Settlement(Dues(loan), q.rebate), Settlement(q.dues, q.rebate)) > QuoteDrift

NoRequest == [action |-> "none", quote |-> 0, rebate |-> 0]
FreshDesk == [dialog |-> "none", quote |-> 0, expired |-> FALSE, rebate |-> 0]

Init ==
  /\ role \in Submitters
  /\ loan = [status |-> "draft", owed |-> MaxOwed, penalty |-> "none", rows |-> "none",
             paid |-> 0]
  /\ hidden \in [barred : {"me", "other"}, lacks : {"nothing", "standing", "kyc"}]
  /\ quotes = << >> /\ view = loan /\ pending = 0
  /\ desk = FreshDesk /\ request = NoRequest /\ stale = FALSE

-----------------------------------------------------------------------------
(* The server: what it refuses, by code, and what it does. *)

Latest(S) == CHOOSE i \in S : \A j \in S : j <= i

\* findPendingByLoanId: the newest quote that is neither used nor expired.
PendingQuote ==
  LET open == {i \in DOMAIN quotes : quotes[i].status = "quote" /\ ~ quotes[i].expired}
  IN  IF open = {} THEN 0 ELSE Latest(open)

InStatus(statuses, code) == IF loan.status \in statuses THEN "ok" ELSE code

TransitionFrom(status) == InStatus({status}, "INVALID_STATUS_TRANSITION")

\* The first refusal of a list, or "ok".
First(codes) ==
  LET refusals == {i \in DOMAIN codes : codes[i] # "ok"}
  IN  IF refusals = {} THEN "ok" ELSE codes[CHOOSE i \in refusals : \A j \in refusals : i <= j]

Unless(refused, code) == IF refused THEN code ELSE "ok"

MakerChecker(maker) ==
  Unless(maker = "me" /\ ~ CanBypassMakerChecker(role), "MAKER_CHECKER_VIOLATION")

SubmitRefusal == First(<<TransitionFrom("draft"), Unless(hidden.lacks = "standing", "CUSTOMER_NOT_FIT")>>)
ReviewRefusal == TransitionFrom("submitted")
ApproveRefusal == First(<<TransitionFrom("under_review"), MakerChecker(hidden.barred)>>)
RejectRefusal == TransitionFrom("under_review")
DisburseRefusal ==
  First(<<InStatus({"approved"}, "LOAN_NOT_APPROVED"),
          Unless(hidden.lacks = "kyc", "KYC_DOCS_MISSING"),
          MakerChecker(hidden.barred)>>)
CloseRefusal ==
  First(<<InStatus({"active", "overdue"}, "INVALID_STATUS_TRANSITION"),
          Unless(loan.owed > 0 \/ loan.penalty = "pending", "CLOSURE_PREREQUISITES_NOT_MET")>>)
\* A compensating row is posted, too.
RegenerateRefusal ==
  First(<<InStatus({"approved", "active"}, "INVALID_LOAN_STATUS_FOR_REGENERATION"),
          Unless(loan.rows # "none", "COLLECTIONS_EXIST")>>)
WaiveRefusal ==
  First(<<Unless(loan.penalty = "waived", "PENALTY_ALREADY_WAIVED"),
          Unless(loan.penalty = "paid", "PENALTY_ALREADY_PAID")>>)
ReverseRefusal == Unless(loan.rows = "reversed", "COLLECTION_ALREADY_REVERSED")
ReverseReversalRefusal == "CANNOT_REVERSE_REVERSAL"

QuoteRefusal(rebate) ==
  First(<<InStatus({"active", "overdue"}, "INVALID_LOAN_STATUS_FOR_FORECLOSURE"),
          Unless(rebate > Dues(loan), "REBATE_EXCEEDS_DUES")>>)

\* Slip: neither the status of the quote nor that of the loan is looked at again.
ExecuteUsed(q, rebate) ==
  First(<<Unless(q.expired, "FORECLOSURE_QUOTE_EXPIRED"), MakerChecker(q.by),
          Unless(rebate > 0 /\ rebate # q.rebate, "REBATE_OVERRIDE_REQUIRES_NEW_QUOTE")>>)

\* A rebate is sent only when it is positive.
ExecuteRefusal(q, rebate) ==
  First(<<Unless(q.status # "quote", "INVALID_FORECLOSURE_STATUS"),
          Unless(q.expired, "FORECLOSURE_QUOTE_EXPIRED"),
          MakerChecker(q.by),
          InStatus({"active", "overdue"}, "INVALID_LOAN_STATUS_FOR_FORECLOSURE"),
          Unless(rebate > 0 /\ rebate # q.rebate, "REBATE_OVERRIDE_REQUIRES_NEW_QUOTE"),
          Unless(Drifted(q), "QUOTE_STALE")>>)

Refusal(req) ==
  CASE req.action = "submit" -> SubmitRefusal
    [] req.action = "review" -> ReviewRefusal
    [] req.action = "approve" -> ApproveRefusal
    [] req.action = "reject" -> RejectRefusal
    [] req.action = "disburse" -> DisburseRefusal
    [] req.action = "close" -> CloseRefusal
    [] req.action = "regenerate" -> RegenerateRefusal
    [] req.action = "waive" -> WaiveRefusal
    [] req.action = "reverse" -> ReverseRefusal
    [] req.action = "reverseReversal" -> ReverseReversalRefusal
    [] req.action = "quote" -> QuoteRefusal(req.rebate)
    [] req.action = "execute" -> ExecuteRefusal(quotes[req.quote], req.rebate)

\* The loan after an accepted action.
After(action) ==
  CASE action = "submit" -> [loan EXCEPT !.status = "submitted"]
    [] action = "review" -> [loan EXCEPT !.status = "under_review"]
    [] action = "approve" -> [loan EXCEPT !.status = "approved"]
    [] action = "reject" -> [loan EXCEPT !.status = "rejected"]
    [] action = "disburse" -> [loan EXCEPT !.status = "active"]
    [] action = "close" -> [loan EXCEPT !.status = "closed"]
    [] action = "waive" ->
         [loan EXCEPT !.penalty = "waived",
                      !.status = IF @ = "overdue" /\ loan.owed = 0 THEN "active" ELSE @]
    [] action = "reverse" ->
         [loan EXCEPT !.rows = "reversed", !.owed = @ + loan.paid, !.paid = 0]
    [] action = "execute" ->
         [loan EXCEPT !.status = "foreclosed", !.owed = 0, !.rows = "payment", !.paid = loan.owed,
                      !.penalty = IF @ = "pending" THEN "paid" ELSE @]
    [] OTHER -> loan

HiddenAfter(action, who) ==
  CASE action = "approve" -> [hidden EXCEPT !.barred = who]
    [] action = "disburse" -> [hidden EXCEPT !.barred = "none"]
    [] OTHER -> hidden

NewQuote(rebate, who) ==
  [dues |-> Dues(loan), rebate |-> rebate, by |-> who, status |-> "quote", expired |-> FALSE]

\* What an accepted request does to the quotes.
QuotesAfter(req) ==
  CASE req.action = "quote" -> Append(quotes, NewQuote(req.rebate, "me"))
    [] req.action = "execute" -> [quotes EXCEPT ![req.quote].status = "settled"]
    [] OTHER -> quotes

-----------------------------------------------------------------------------
(* The page: what it offers on the loan it loaded. *)

CanSubmit == view.status = "draft"
CanReview == view.status = "submitted"
CanApproveReject == view.status = "under_review"
CanDisburse == view.status = "approved"
CanForeclose == Running(view) /\ Dues(view) > 0

CanClose == Running(view) /\ Dues(view) <= 1 /\ view.penalty # "pending"
CanChangeEmiDate == view.status = "approved" \/ (view.status = "active" /\ view.rows = "none")
CanWaive == view.penalty = "pending"
CanReverse == view.rows = "payment"
CanReverseReversal == view.rows = "reversed"

Offers(action) ==
  /\ Permitted(role, action)
  /\ CASE action = "submit" -> CanSubmit
       [] action = "review" -> CanReview
       [] action \in {"approve", "reject"} -> CanApproveReject
       [] action = "disburse" -> CanDisburse
       [] action = "close" -> CanClose
       [] action = "regenerate" -> CanChangeEmiDate
       [] action = "waive" -> CanWaive
       [] action = "reverse" -> CanReverse
       [] action = "reverseReversal" -> CanReverseReversal
       [] action = "quote" -> CanForeclose

\* Buttons that send at once, and buttons that open a dialog of their name.
Immediate == {"submit", "review"}
WithDialog ==
  {"approve", "reject", "disburse", "close", "regenerate", "waive", "reverse",
   "reverseReversal"}
Offered == Immediate \union WithDialog \union {"quote"}

Idle == request = NoRequest

\* A handler clears the message before it sends.
Send(action, quote, rebate) ==
  /\ request' = [action |-> action, quote |-> quote, rebate |-> rebate]
  /\ stale' = FALSE

PressImmediate(action) ==
  /\ Idle /\ desk.dialog = "none" /\ Offers(action)
  /\ Send(action, 0, 0)
  /\ UNCHANGED <<role, loan, hidden, quotes, view, pending, desk>>

OpenDialog(action) ==
  /\ Idle /\ desk.dialog = "none" /\ Offers(action)
  /\ desk' = [desk EXCEPT !.dialog = action]
  /\ UNCHANGED <<role, loan, hidden, quotes, view, pending, request, stale>>

\* The dialog does not look at the loan again.
Confirm ==
  /\ Idle /\ desk.dialog \in WithDialog
  /\ Send(desk.dialog, 0, 0)
  /\ UNCHANGED <<role, loan, hidden, quotes, view, pending, desk>>

\* handleGenerateForeclosureQuote: a pending quote the page knows is shown
\* again, and only without one is a quote requested.
PressForeclosure ==
  /\ Idle /\ desk.dialog = "none" /\ Offers("quote")
  /\ IF pending # 0
     THEN /\ desk' = [desk EXCEPT !.dialog = "quote", !.quote = pending, !.expired = FALSE]
          /\ stale' = FALSE
          /\ UNCHANGED request
     ELSE /\ Len(quotes) < MaxQuotes
          /\ Send("quote", 0, desk.rebate)
          /\ UNCHANGED desk
  /\ UNCHANGED <<role, loan, hidden, quotes, view, pending>>

QuoteShown == desk.dialog \in {"quote", "execute"}

\* The timer of the quote dialog.
TimerFires ==
  /\ QuoteShown /\ ~ desk.expired /\ quotes[desk.quote].expired
  /\ desk' = [desk EXCEPT !.expired = TRUE]
  /\ UNCHANGED <<role, loan, hidden, quotes, view, pending, request, stale>>

\* The button of the quote dialog: "Approve & Execute" opens the second dialog
\* over it; "Close", once it has expired, forgets the quote but not the rebate.
PressQuoteButton ==
  /\ Idle /\ desk.dialog = "quote"
  /\ desk' = IF desk.expired
             THEN [desk EXCEPT !.dialog = "none", !.quote = 0]
             ELSE [desk EXCEPT !.dialog = "execute"]
  /\ UNCHANGED <<role, loan, hidden, quotes, view, pending, request, stale>>

TypeRebate ==
  /\ Idle /\ desk.dialog = "execute"
  /\ \E rebate \in 0..MaxOwed : desk' = [desk EXCEPT !.rebate = rebate]
  /\ UNCHANGED <<role, loan, hidden, quotes, view, pending, request, stale>>

\* handleExecuteForeclosure.
PressExecute ==
  /\ Idle /\ desk.dialog = "execute" /\ ~ desk.expired
  /\ Send("execute", desk.quote, desk.rebate)
  /\ UNCHANGED <<role, loan, hidden, quotes, view, pending, desk>>

\* Cancel or Escape.  Under the second dialog is the first; closing the first
\* clears the rebate.  The dialog of a reversal waits for its answer.
CloseDialog ==
  /\ desk.dialog # "none"
  /\ desk.dialog \in {"reverse", "reverseReversal"} => Idle
  /\ desk' = IF desk.dialog = "execute" THEN [desk EXCEPT !.dialog = "quote"]
             ELSE IF desk.dialog = "quote" THEN FreshDesk
             ELSE [desk EXCEPT !.dialog = "none"]
  /\ UNCHANGED <<role, loan, hidden, quotes, view, pending, request, stale>>

-----------------------------------------------------------------------------
(* The answer. *)

DeskAfter(req) ==
  IF req.action = "quote"
  THEN [desk EXCEPT !.dialog = "quote", !.quote = Len(quotes) + 1, !.expired = FALSE]
  ELSE FreshDesk

Accepted ==
  /\ ~ Idle /\ Refusal(request) = "ok"
  /\ loan' = After(request.action)
  /\ hidden' = HiddenAfter(request.action, "me")
  /\ quotes' = QuotesAfter(request)
  /\ desk' = IF request.action \in {"quote", "execute"} THEN DeskAfter(request)
             ELSE [desk EXCEPT !.dialog = IF @ = request.action THEN "none" ELSE @]
  /\ request' = NoRequest
  /\ UNCHANGED <<role, view, pending, stale>>

\* The dialog stays open with the message.
Refused ==
  /\ ~ Idle /\ Refusal(request) # "ok"
  /\ stale' = (Refusal(request) = "QUOTE_STALE")
  /\ request' = NoRequest
  /\ UNCHANGED <<role, loan, hidden, quotes, view, pending, desk>>

\* The queries of the page.  The pending quote is asked for only while the
\* loan that is shown runs.
LoadLoan ==
  /\ view' = loan
  /\ UNCHANGED <<role, loan, hidden, quotes, pending, desk, request, stale>>

LoadPending ==
  /\ Running(view)
  /\ pending' = PendingQuote
  /\ UNCHANGED <<role, loan, hidden, quotes, view, desk, request, stale>>

-----------------------------------------------------------------------------
(* What others do meanwhile. *)

OthersDecide(action) ==
  /\ CASE action = "submit" -> loan.status = "draft" /\ hidden.lacks # "standing"
       [] action = "review" -> loan.status = "submitted"
       [] action = "approve" -> loan.status = "under_review"
       [] action = "disburse" -> loan.status = "approved" /\ hidden.lacks # "kyc"
  /\ loan' = After(action)
  /\ hidden' = HiddenAfter(action, "other")
  /\ UNCHANGED <<role, quotes, view, pending, desk, request, stale>>

OthersChange(l) ==
  loan' = l /\ UNCHANGED <<role, hidden, quotes, view, pending, desk, request, stale>>

\* computeAutoTransitionStatus, for a loan of one installment.
StatusOwing(l) ==
  IF l.owed > 0 THEN l.status ELSE IF Dues(l) <= 1 THEN "closed" ELSE "active"

\* Bound: one payment.
PaymentLands ==
  /\ Running(loan) /\ loan.rows = "none"
  /\ \E a \in 1..loan.owed :
       LET paid == [loan EXCEPT !.owed = @ - a, !.rows = "payment", !.paid = a]
       IN  OthersChange([paid EXCEPT !.status = StatusOwing(paid)])

PenaltyPosted ==
  /\ Running(loan) /\ loan.penalty = "none" /\ loan.owed > 0
  /\ OthersChange([loan EXCEPT !.penalty = "pending", !.status = "overdue"])

OthersQuote ==
  /\ Running(loan) /\ Len(quotes) < MaxQuotes
  /\ quotes' = Append(quotes, NewQuote(0, "other"))
  /\ UNCHANGED <<role, loan, hidden, view, pending, desk, request, stale>>

OthersExecute ==
  /\ Running(loan)
  /\ \E i \in DOMAIN quotes :
       /\ quotes[i].status = "quote" /\ ~ quotes[i].expired
       /\ ~ Drifted(quotes[i])
       /\ quotes[i].by = "me"
       /\ quotes' = [quotes EXCEPT ![i].status = "settled"]
       /\ loan' = After("execute")
  /\ UNCHANGED <<role, hidden, view, pending, desk, request, stale>>

QuoteExpires ==
  /\ \E i \in DOMAIN quotes : ~ quotes[i].expired /\ quotes' = [quotes EXCEPT ![i].expired = TRUE]
  /\ UNCHANGED <<role, loan, hidden, view, pending, desk, request, stale>>

Next ==
  \/ \E action \in Immediate : PressImmediate(action)
  \/ \E action \in WithDialog : OpenDialog(action)
  \/ Confirm \/ PressForeclosure \/ TimerFires \/ PressQuoteButton \/ TypeRebate
  \/ PressExecute \/ CloseDialog
  \/ Accepted \/ Refused \/ LoadLoan \/ LoadPending
  \/ \E action \in {"submit", "review", "approve", "disburse"} : OthersDecide(action)
  \/ PaymentLands \/ PenaltyPosted \/ OthersQuote \/ OthersExecute
  \/ QuoteExpires

Spec == Init /\ [][Next]_vars

-----------------------------------------------------------------------------
(* Properties. *)

TypeOK ==
  /\ role \in Submitters /\ loan \in Shown /\ view \in Shown /\ hidden \in Hidden
  /\ \A i \in DOMAIN quotes : quotes[i].rebate <= quotes[i].dues
  /\ pending \in 0..Len(quotes) /\ desk.quote \in 0..Len(quotes)
  /\ QuoteShown => desk.quote # 0

\* Refusals of what the page offers that its view cannot tell.
NotOnThePage(action) ==
  CASE action = "submit" -> {"CUSTOMER_NOT_FIT"}
    [] action = "approve" -> {"MAKER_CHECKER_VIOLATION"}
    [] action = "disburse" -> {"KYC_DOCS_MISSING", "MAKER_CHECKER_VIOLATION"}
    [] action = "reverseReversal" -> {"CANNOT_REVERSE_REVERSAL"}
    [] action = "close" -> IF loan.owed = 1 THEN {"CLOSURE_PREREQUISITES_NOT_MET"} ELSE {}
    [] OTHER -> {}

\* A button that a page with a current view shows does what it says: the
\* guards of the page (page.tsx, can*) and those of the services, written
\* apart, agree but for what the page is not told, for the compensating row,
\* which it offers to reverse, and for the last paisa of an installment: the page
\* offers Close within one paisa "to match the backend tolerance" (page.tsx),
\* and closeLoan, whose tolerance is of the cached balance, refuses any loan with
\* an installment that is not paid.
OfferedIsAccepted ==
  view = loan =>
    \A action \in Offered :
      Offers(action) =>
        Refusal([action |-> action, quote |-> 0, rebate |-> 0])
          \in {"ok"} \union NotOnThePage(action)

\* A loan is settled by one quote, whoever else holds one or is about to
\* execute one, and is foreclosed by it for good (executeForeclosure).
OneSettlement ==
  LET settled == {i \in DOMAIN quotes : quotes[i].status = "settled"}
  IN  /\ \A i, j \in settled : i = j
      /\ settled # {} => loan.status = "foreclosed"

\* A rebate reaches a quote of this page only by way of an expired one: the
\* field is on the dialog that executes, and closing that any other way clears
\* it (page.tsx, onOpenChange and onConfirm of the quote dialog).
RebateNeedsAnExpiredQuote ==
  \A i \in DOMAIN quotes :
    quotes[i].rebate > 0 => \E j \in 1..(i - 1) : quotes[j].expired
=============================================================================
