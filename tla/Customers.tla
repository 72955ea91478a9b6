------------------------------ MODULE Customers ------------------------------
(***************************************************************************)
(* The customer register (customer.service, customer.repository) with the  *)
(* two pages that write to it: the registration form and the page of one   *)
(* customer with its dialogs.                                              *)
(*                                                                         *)
(* No handler of the register runs in a transaction: each one reads, then  *)
(* writes, then appends its audit row, so requests of two members of staff *)
(* overlap statement by statement.  A page has what its last query         *)
(* returned; the edit dialog copies it when it is opened and compares with *)
(* it when it is saved.                                                    *)
(*                                                                         *)
(* ApiCallers send requests without the pages (integrations, the scripts   *)
(* of the e2e tests): they may name an officer and send the version they   *)
(* have seen, which the pages never do.  `missed' in a request, `noticed'  *)
(* and `excused' are history: what was written since a request's first     *)
(* read, the pairs of look-alikes somebody was told of, and the pairs      *)
(* nobody could be told of because the requests overlapped or an answer    *)
(* was lost.                                                               *)
(***************************************************************************)
EXTENDS Naturals, FiniteSets

CONSTANTS Staff, FieldOfficers, ApiCallers,   \* FieldOfficers are restricted to
          Ids, Aadhaars, Mobiles, NotesTexts, \* the customers assigned to them
          Registered, FirstOfficer,           \* customers of the initial state, and
                                              \* to whom they are assigned
          MaxRequests

NoOne  == "no one"
Absent == [absent |-> TRUE]

\* the customers of the initial state share nothing
Distinct(S) == {f \in [Registered -> S] : \A i, j \in Registered : i # j => f[i] # f[j]}
OneEach(S) == CHOOSE f \in Distinct(S) : TRUE

ASSUME StaffAssumption ==
  /\ FieldOfficers \subseteq Staff /\ ApiCallers \subseteq Staff
  /\ NoOne \notin Staff /\ FirstOfficer \in Staff \cup {NoOne}
  /\ Registered \in SUBSET Ids
  /\ Distinct(Aadhaars) # {} /\ Distinct(Mobiles) # {} /\ NotesTexts # {}
  /\ MaxRequests \in Nat

VARIABLES
  rows,      \* customers: id -> row, for the ids registered so far
  people,    \* family_members and guarantors per customer
  creator,   \* created_by
  page,      \* per member of staff: the row on the screen and the edit dialog
  req,       \* per member of staff: the request under way, or NoReq
  notice,    \* per member of staff: ids the "possible duplicate" dialog shows
  noticed, excused,
  asked      \* requests so far, at most MaxRequests

registerVars == <<rows, people, creator, page, req, notice, noticed, excused, asked>>

Fields   == {"mobile", "notes"}
Values(f) == CASE f = "mobile" -> Mobiles [] f = "notes" -> NotesTexts
               [] f = "officer" -> Staff

Relations == {"family member", "guarantor"}
NoReq   == [op |-> "none"]
Nothing == [x \in {} |-> NoOne]

\* a row just inserted: version 1, active, assigned to whoever the request names
Row(aadhaar, mobile, officer) ==
  [aadhaar |-> aadhaar, mobile |-> mobile, notes |-> CHOOSE n \in NotesTexts : TRUE,
   officer |-> officer, status |-> "active", by |-> NoOne, version |-> 1]

RegisterInit ==
  /\ rows = [i \in Registered |->
               Row(OneEach(Aadhaars)[i], OneEach(Mobiles)[i], FirstOfficer)]
  /\ people = [i \in Ids |-> [kind \in Relations |-> 0]]
  /\ creator = [i \in Ids |-> NoOne]
  /\ page = [s \in Staff |-> Absent]
  /\ req = [s \in Staff |-> NoReq]
  /\ notice = [s \in Staff |-> {}]
  /\ noticed = {} /\ excused = {}
  /\ asked = 0

-----------------------------------------------------------------------------
(* The page of one customer *)

InScope(s, row) == s \in FieldOfficers => row.officer = s

Showing(s) == page[s] # Absent
Editing(s) == Showing(s) /\ page[s].form # Absent
Idle(s)    == req[s] = NoReq

\* bound: staff read and type as long as a request can still follow
MayAsk == asked < MaxRequests

\* the page is entered, or left, when it has no request and no dialog; another
\* tab of the same person is another member of Staff
OpenRow(s, i) ==
  /\ MayAsk /\ s \notin ApiCallers /\ Idle(s) /\ notice[s] = {} /\ ~Editing(s)
  /\ i \in DOMAIN rows /\ InScope(s, rows[i])
  /\ page' = [page EXCEPT ![s] = [id |-> i, row |-> rows[i], form |-> Absent]]
  /\ UNCHANGED <<rows, people, creator, req, notice, noticed, excused, asked>>

\* the query of the page runs again (after a mutation of this page, on a
\* reconnect, or when a cached row is shown first): the dialog keeps its copy
Refetch(s) ==
  /\ MayAsk /\ s \notin ApiCallers /\ Showing(s) /\ InScope(s, rows[page[s].id])
  /\ page[s].row # rows[page[s].id]
  /\ page' = [page EXCEPT ![s].row = rows[page[s].id]]
  /\ UNCHANGED <<rows, people, creator, req, notice, noticed, excused, asked>>

\* openEditDialog: a copy of the row, kept as shown and as typed
OpenEdit(s) ==
  /\ MayAsk /\ s \notin ApiCallers /\ Showing(s) /\ ~Editing(s)
  /\ page' = [page EXCEPT ![s].form =
       [shown |-> [f \in Fields |-> page[s].row[f]],
        now   |-> [f \in Fields |-> page[s].row[f]]]]
  /\ UNCHANGED <<rows, people, creator, req, notice, noticed, excused, asked>>

\* the inputs of the dialog, which stay open to typing while a request runs
Type(s, f, v) ==
  /\ MayAsk /\ Editing(s)
  /\ page[s].form.now[f] # v
  /\ page' = [page EXCEPT ![s].form.now[f] = v]
  /\ UNCHANGED <<rows, people, creator, req, notice, noticed, excused, asked>>

CancelEdit(s) ==
  /\ MayAsk /\ Editing(s)
  /\ page' = [page EXCEPT ![s].form = Absent]
  /\ UNCHANGED <<rows, people, creator, req, notice, noticed, excused, asked>>

Ask(s, request) ==
  /\ Idle(s) /\ MayAsk
  /\ req' = [req EXCEPT ![s] = request]
  /\ asked' = asked + 1

Request(op, i, change, expect) ==
  [op |-> op, phase |-> "read", id |-> i, change |-> change, expect |-> expect,
   basis |-> Nothing, seen |-> Absent, matches |-> {}, missed |-> {}]

\* handleUpdateCustomer: the fields of the dialog that differ from the row the
\* query holds now; the version of the row is not sent.  With no difference
\* the dialog closes and nothing is sent.
Changed(s) == {f \in Fields : page[s].form.now[f] # page[s].row[f]}

Save(s) ==
  /\ Editing(s) /\ Changed(s) # {}
  /\ Ask(s, [Request("update", page[s].id,
                     [f \in Changed(s) |-> page[s].form.now[f]], 0)
               EXCEPT !.basis = page[s].form.shown])
  /\ UNCHANGED <<rows, people, creator, page, notice, noticed, excused>>

SaveNothing(s) ==
  /\ MayAsk /\ Editing(s) /\ Idle(s) /\ Changed(s) = {}
  /\ page' = [page EXCEPT ![s].form = Absent]
  /\ UNCHANGED <<rows, people, creator, req, notice, noticed, excused, asked>>

\* the buttons under the name follow the status on the screen
PressBlacklist(s) ==
  /\ Showing(s) /\ ~Editing(s) /\ s \notin FieldOfficers
  /\ page[s].row.status = "active"
  /\ Ask(s, Request("blacklist", page[s].id, Nothing, 0))
  /\ UNCHANGED <<rows, people, creator, page, notice, noticed, excused>>

PressReinstate(s) ==
  /\ Showing(s) /\ ~Editing(s) /\ s \notin FieldOfficers
  /\ page[s].row.status = "blacklisted"
  /\ Ask(s, Request("reinstate", page[s].id, Nothing, 0))
  /\ UNCHANGED <<rows, people, creator, page, notice, noticed, excused>>

\* "Add Family Member" and "Add Guarantor"
PressAddPerson(s, kind) ==
  /\ Showing(s) /\ ~Editing(s)
  /\ Ask(s, Request(kind, page[s].id, Nothing, 0))
  /\ UNCHANGED <<rows, people, creator, page, notice, noticed, excused>>

PressAddFamilyMember(s) == PressAddPerson(s, "family member")
PressAddGuarantor(s)    == PressAddPerson(s, "guarantor")

-----------------------------------------------------------------------------
(* Registration *)

\* onSubmit of the registration form, which has no field for an officer
PressRegister(s, a, m) ==
  /\ s \notin ApiCallers /\ notice[s] = {} /\ ~Editing(s)
  /\ Ask(s, Request("create", NoOne, [aadhaar |-> a, mobile |-> m, officer |-> NoOne], 0))
  /\ UNCHANGED <<rows, people, creator, page, notice, noticed, excused>>

\* the dialog with the matches of a registration: "Acknowledge & continue",
\* or "View new customer", which opens a page
Acknowledge(s) ==
  /\ notice[s] # {}
  /\ notice' = [notice EXCEPT ![s] = {}]
  /\ UNCHANGED <<rows, people, creator, page, req, noticed, excused, asked>>

-----------------------------------------------------------------------------
(* Requests without a page: any fields, an officer, the version last read *)

CallRegister(s, a, m, o) ==
  /\ s \in ApiCallers
  /\ Ask(s, Request("create", NoOne, [aadhaar |-> a, mobile |-> m, officer |-> o], 0))
  /\ UNCHANGED <<rows, people, creator, page, notice, noticed, excused>>

\* the caller has read a row, now or some time ago (page[s]), and sends its version
CallRead(s, i) ==
  /\ MayAsk /\ s \in ApiCallers /\ Idle(s) /\ i \in DOMAIN rows /\ InScope(s, rows[i])
  /\ page' = [page EXCEPT ![s] = [id |-> i, row |-> rows[i], form |-> Absent]]
  /\ UNCHANGED <<rows, people, creator, req, notice, noticed, excused, asked>>

CallUpdate(s, f, v) ==
  /\ s \in ApiCallers /\ Showing(s) /\ v # page[s].row[f]
  /\ Ask(s, [Request("update", page[s].id, [g \in {f} |-> v], page[s].row.version)
               EXCEPT !.basis = [g \in {f} |-> page[s].row[g]]])
  /\ UNCHANGED <<rows, people, creator, page, notice, noticed, excused>>

-----------------------------------------------------------------------------
(* The handlers, one database statement per action *)

At(s, op, phase) == ~Idle(s) /\ req[s].op = op /\ req[s].phase = phase

\* what others will not have seen when they write: id i was written just now
Note(s, i, f) ==
  [t \in Staff |-> IF t # s /\ f[t] # NoReq /\ f[t].phase \notin {"read", "audit"}
                   THEN [f[t] EXCEPT !.missed = @ \cup {i}] ELSE f[t]]

ByAadhaar(a) == {i \in DOMAIN rows : rows[i].aadhaar = a}
\* slip: the matching looks among active customers only
ByMobileOfActive(m) == {i \in DOMAIN rows : rows[i].mobile = m /\ rows[i].status = "active"}
ByMobile(m)  == {i \in DOMAIN rows : rows[i].mobile = m}

Forward(s, phase, found) ==
  req' = [req EXCEPT ![s].phase = phase, ![s].matches = @ \cup found]

\* create: findByAadhaarLastFour, findByMobile, insert
MatchAadhaar(s) ==
  /\ At(s, "create", "read")
  /\ Forward(s, "mobile", ByAadhaar(req[s].change.aadhaar))
  /\ UNCHANGED <<rows, people, creator, page, notice, noticed, excused, asked>>

MatchMobile(s) ==
  /\ At(s, "create", "mobile")
  /\ Forward(s, "write", ByMobile(req[s].change.mobile))
  /\ UNCHANGED <<rows, people, creator, page, notice, noticed, excused, asked>>

Insert(s, i) ==
  /\ At(s, "create", "write") /\ i \in Ids \ DOMAIN rows
  /\ rows' = [j \in DOMAIN rows \cup {i} |->
                IF j = i THEN Row(req[s].change.aadhaar, req[s].change.mobile,
                                  req[s].change.officer) ELSE rows[j]]
  /\ creator' = [creator EXCEPT ![i] = s]
  /\ req' = Note(s, i, [req EXCEPT ![s].phase = "audit", ![s].id = i])
  /\ UNCHANGED <<people, page, notice, noticed, excused, asked>>

\* slip: the status on the screen is taken for the status of the row
RefusedForScope(s) == req[s].op \in {"update"} \cup Relations /\ ~InScope(s, rows[req[s].id])

\* findById of the handlers: not found is impossible here, rows are never
\* deleted; the scope; the status for blacklist and reinstate
WriteRefused(s) ==
  LET row == rows[req[s].id] IN
  \/ req[s].op \in {"update"} \cup Relations /\ ~InScope(s, row)
  \/ req[s].op = "blacklist" /\ row.status = "blacklisted"
  \/ req[s].op = "reinstate" /\ row.status # "blacklisted"

ReadRow(s) ==
  /\ ~Idle(s) /\ req[s].op # "create" /\ req[s].phase = "read"
  /\ ~WriteRefused(s)
  /\ req' = [req EXCEPT ![s].seen = rows[req[s].id],
                        ![s].phase = IF req[s].op = "update" THEN "match" ELSE "write"]
  /\ UNCHANGED <<rows, people, creator, page, notice, noticed, excused, asked>>

RefuseWrite(s) ==
  /\ ~Idle(s) /\ req[s].op # "create" /\ req[s].phase = "read"
  /\ WriteRefused(s)
  /\ req' = [req EXCEPT ![s] = NoReq]
  /\ UNCHANGED <<rows, people, creator, page, notice, noticed, excused, asked>>

\* update: who else has the mobile, when it differs from the one just read
MatchEdit(s) ==
  /\ At(s, "update", "match")
  /\ LET c == req[s].change IN
     Forward(s, "write",
             IF "mobile" \in DOMAIN c /\ c.mobile # req[s].seen.mobile
             THEN ByMobile(c.mobile) \ {req[s].id} ELSE {})
  /\ UNCHANGED <<rows, people, creator, page, notice, noticed, excused, asked>>

\* repository.update: every edit increments the version; a version sent along
\* must be the one of the row
VersionHolds(s) == req[s].expect # 0 => rows[req[s].id].version = req[s].expect

Edited(row, change) ==
  [f \in DOMAIN row |-> IF f = "version" THEN row.version + 1
                        ELSE IF f \in DOMAIN change THEN change[f] ELSE row[f]]

WriteEdit(s) ==
  /\ At(s, "update", "write") /\ VersionHolds(s)
  /\ rows' = [rows EXCEPT ![req[s].id] = Edited(@, req[s].change)]
  /\ req' = Note(s, req[s].id, [req EXCEPT ![s].phase = "audit"])
  /\ UNCHANGED <<people, creator, page, notice, noticed, excused, asked>>

ConflictEdit(s) ==
  /\ At(s, "update", "write") /\ ~VersionHolds(s)
  /\ req' = [req EXCEPT ![s] = NoReq]
  /\ UNCHANGED <<rows, people, creator, page, notice, noticed, excused, asked>>

\* repository.blacklist and reinstate write without a condition
Blacklisted(row, s) == [row EXCEPT !.status = "blacklisted", !.by = s]
Reinstated(row)     == [row EXCEPT !.status = "active", !.by = NoOne]

WriteBlacklist(s) ==
  /\ At(s, "blacklist", "write")
  /\ rows' = [rows EXCEPT ![req[s].id] = Blacklisted(@, s)]
  /\ req' = Note(s, req[s].id, [req EXCEPT ![s].phase = "audit"])
  /\ UNCHANGED <<people, creator, page, notice, noticed, excused, asked>>

WriteReinstate(s) ==
  /\ At(s, "reinstate", "write")
  /\ rows' = [rows EXCEPT ![req[s].id] = Reinstated(@)]
  /\ req' = Note(s, req[s].id, [req EXCEPT ![s].phase = "audit"])
  /\ UNCHANGED <<people, creator, page, notice, noticed, excused, asked>>

\* createFamilyMember, createGuarantor: the row of the customer is not touched
InsertPerson(s, kind) ==
  /\ At(s, kind, "write")
  /\ people' = [people EXCEPT ![req[s].id][kind] = @ + 1]
  /\ req' = [req EXCEPT ![s].phase = "audit"]
  /\ UNCHANGED <<rows, creator, page, notice, noticed, excused, asked>>

InsertFamilyMember(s) == InsertPerson(s, "family member")
InsertGuarantor(s)    == InsertPerson(s, "guarantor")

Pairs(s, others) == {{req[s].id, j} : j \in others}

\* createAuditLog, the answer, and what the page does with it: a dialog that
\* was saved closes, matches of a registration are shown
Answer(s) ==
  /\ ~Idle(s) /\ req[s].phase = "audit"
  /\ noticed' = noticed \cup Pairs(s, req[s].matches)
  /\ excused' = excused \cup Pairs(s, req[s].missed)
  /\ notice' = [notice EXCEPT ![s] =
       IF req[s].op = "create" /\ s \notin ApiCallers THEN req[s].matches ELSE @]
  /\ page' = [page EXCEPT ![s] = IF req[s].op = "update" /\ Editing(s)
                                 THEN [@ EXCEPT !.form = Absent] ELSE @]
  /\ req' = [req EXCEPT ![s] = NoReq]
  /\ UNCHANGED <<rows, people, creator, asked>>

\* the process or the connection fails, or the audit row cannot be written:
\* the page shows an error, whatever was written stays (before the first read
\* it is as if the request had not been made)
RequestFails(s) ==
  /\ ~Idle(s) /\ req[s].phase # "read"
  /\ excused' = excused \cup (IF req[s].phase = "audit"
                              THEN Pairs(s, req[s].missed \cup req[s].matches) ELSE {})
  /\ req' = [req EXCEPT ![s] = NoReq]
  /\ UNCHANGED <<rows, people, creator, page, notice, noticed, asked>>

Handler(s) ==
  \/ MatchAadhaar(s) \/ MatchMobile(s) \/ (\E i \in Ids : Insert(s, i))
  \/ ReadRow(s) \/ RefuseWrite(s) \/ MatchEdit(s) \/ WriteEdit(s) \/ ConflictEdit(s)
  \/ WriteBlacklist(s) \/ WriteReinstate(s)
  \/ InsertFamilyMember(s) \/ InsertGuarantor(s) \/ Answer(s) \/ RequestFails(s)

RegisterNext == \E s \in Staff :
  \/ \E i \in Ids : OpenRow(s, i) \/ CallRead(s, i)
  \/ Refetch(s) \/ OpenEdit(s) \/ CancelEdit(s) \/ Save(s) \/ SaveNothing(s)
  \/ \E f \in Fields : \E v \in Values(f) : Type(s, f, v)
  \/ \E f \in Fields \cup {"officer"} : \E v \in Values(f) : CallUpdate(s, f, v)
  \/ PressBlacklist(s) \/ PressReinstate(s) \/ Acknowledge(s)
  \/ PressAddFamilyMember(s) \/ PressAddGuarantor(s)
  \/ \E a \in Aadhaars, m \in Mobiles :
       \/ PressRegister(s, a, m)
       \/ \E o \in Staff : CallRegister(s, a, m, o)
  \/ Handler(s)

RegisterSpec == RegisterInit /\ [][RegisterNext]_registerVars

-----------------------------------------------------------------------------
(* Properties *)

RegisterTypeOK ==
  /\ DOMAIN rows \subseteq Ids /\ Registered \subseteq DOMAIN rows
  /\ \A i \in DOMAIN rows : rows[i] \in
       [aadhaar : Aadhaars, mobile : Mobiles, notes : NotesTexts,
        officer : Staff \cup {NoOne}, status : {"active", "blacklisted"},
        by : Staff \cup {NoOne}, version : Nat \ {0}]
  /\ people \in [Ids -> [Relations -> Nat]] /\ creator \in [Ids -> Staff \cup {NoOne}]
  /\ notice \in [Staff -> SUBSET Ids]
  /\ noticed \subseteq SUBSET Ids /\ excused \subseteq SUBSET Ids
  /\ asked \in 0 .. MaxRequests

LookAlikesAreTold ==
  \A i, j \in DOMAIN rows :
    i # j /\ (rows[i].aadhaar = rows[j].aadhaar \/ rows[i].mobile = rows[j].mobile) =>
      \/ {i, j} \in noticed \cup excused
      \/ \E s \in Staff : ~Idle(s) /\ req[s].phase = "audit"
                         /\ {i, j} \in Pairs(s, req[s].matches \cup req[s].missed)

\* Duplicates are allowed but never unnoticed (create and update run the same
\* matching before they write): when two customers share an Aadhaar number or
\* a mobile, somebody was shown the pair, or is about to be, or the requests
\* that made them alike overlapped or lost their answer.
LookAlikesAreNoticed == RegisterTypeOK /\ LookAlikesAreTold

Writes(s, ops) ==
  /\ ~Idle(s) /\ req[s].op \in ops /\ req[s].phase = "write"
  /\ req'[s] # NoReq /\ req'[s].phase = "audit"

OverwritesOnlyTheSeen(s) ==
  \A f \in DOMAIN req[s].change :
    rows[req[s].id][f] \in {req[s].basis[f], req[s].change[f]}

\* An edit that carries the version its author read replaces only values that
\* were there when the author read them (repository.update with
\* expectedVersion), whatever edits without a version come between.
VersionedEditsOverwriteOnlyTheSeen ==
  [][\A s \in ApiCallers : Writes(s, {"update"}) => OverwritesOnlyTheSeen(s)]_registerVars

\* A customer is blacklisted twice, or reinstated twice, only by requests that
\* overlapped: the status is read before it is written (blacklist, reinstate).
DecidedTwiceOnlyByOverlap ==
  [][\A s \in Staff :
       Writes(s, {"blacklist", "reinstate"})
         /\ rows'[req[s].id].status = rows[req[s].id].status
       => req[s].id \in req[s].missed]_registerVars

\* What a field officer writes lands on customers assigned to them, unless the
\* customer was reassigned after the handler had read the row (assertScope and
\* its copy in update).
ScopeBrokenOnlyByReassignment ==
  [][\A s \in FieldOfficers :
       Writes(s, {"update"} \cup Relations) /\ rows[req[s].id].officer # s
       => req[s].id \in req[s].missed]_registerVars

\* What a write of the register meets is what its handler read, with the
\* exceptions each part names.
WritesMeetWhatWasRead ==
  /\ VersionedEditsOverwriteOnlyTheSeen
  /\ DecidedTwiceOnlyByOverlap
  /\ ScopeBrokenOnlyByReassignment
=============================================================================
