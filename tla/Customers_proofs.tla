--------------------------- MODULE Customers_proofs ---------------------------
(***************************************************************************)
(* The safety properties of the register of customers, and after them those*)
(* of the forms of the web client, for any staff, any identities and any   *)
(* number of requests.                                                     *)
(*                                                                         *)
(* A request carries what its handler read when another writes, so the     *)
(* inductive invariant RegisterInvariant says what such a request still    *)
(* knows: which look-alikes it found or missed, that the version its       *)
(* caller read stands for the values its caller read, and that a status or *)
(* an officer it has checked still holds of every row not among those that *)
(* changed behind its back (missed).                                       *)
(***************************************************************************)
EXTENDS Customers, Client, TLAPS

Ops == {"create", "update", "blacklist", "reinstate"} \cup Relations
Phases == {"read", "mobile", "match", "write", "audit"}
Texts == Fields \cup {"officer"}

RowRecords == [aadhaar : Aadhaars, mobile : Mobiles, notes : NotesTexts,
               officer : Staff \cup {NoOne}, status : {"active", "blacklisted"},
               by : Staff \cup {NoOne}, version : Nat \ {0}]

RequestFields ==
  {"op", "phase", "id", "change", "expect", "basis", "seen", "matches", "missed"}

\* a request, for the customers known so far
IsRequest(r, known) ==
  /\ r = [f \in RequestFields |-> r[f]]
  /\ r.op \in Ops /\ r.phase \in Phases
  /\ r.matches \subseteq Ids /\ r.missed \subseteq Ids
  /\ r.op # "create" \/ r.phase = "audit" => r.id \in known
  /\ r.op = "create" =>
       r.change.aadhaar \in Aadhaars /\ r.change.mobile \in Mobiles
         /\ r.change.officer \in Staff \cup {NoOne}
  /\ r.op = "update" =>
       DOMAIN r.change \subseteq Texts /\ \A f \in DOMAIN r.change : r.change[f] \in Values(f)

\* the page of a member of staff, on one of them
IsPage(p, known) ==
  /\ p = [f \in {"id", "row", "form"} |-> p[f]]
  /\ p.id \in known /\ p.row \in RowRecords
  /\ p.form # Absent =>
       /\ p.form = [f \in {"shown", "now"} |-> p.form[f]]
       /\ p.form.now \in [Fields -> Mobiles \cup NotesTexts]
       /\ \A f \in Fields : p.form.now[f] \in Values(f)

Typed ==
  /\ StaffAssumption
  /\ RegisterTypeOK
  /\ page = [s \in Staff |-> page[s]]
  /\ req = [s \in Staff |-> req[s]]
  /\ \A s \in Staff : req[s] # NoReq => IsRequest(req[s], DOMAIN rows)
  /\ \A s \in Staff : page[s] # Absent => IsPage(page[s], DOMAIN rows)
  /\ \A s \in ApiCallers : page[s] # Absent => page[s].form = Absent


-----------------------------------------------------------------------------
\* A row as it is inserted.
LEMMA RowTyped ==
  ASSUME StaffAssumption, NEW a \in Aadhaars, NEW m \in Mobiles, NEW o \in Staff \cup {NoOne}
  PROVE  Row(a, m, o) \in RowRecords
<1>1. (CHOOSE n \in NotesTexts : TRUE) \in NotesTexts
  BY DEF StaffAssumption
<1> QED
  BY <1>1 DEF Row, RowRecords

\* The customers of the initial state have rows of their type.
LEMMA InitTyped == StaffAssumption /\ RegisterInit => Typed
<1> SUFFICES ASSUME StaffAssumption, RegisterInit PROVE Typed
  OBVIOUS
<1>1. OneEach(Aadhaars) \in Distinct(Aadhaars) /\ OneEach(Mobiles) \in Distinct(Mobiles)
  BY DEF StaffAssumption, OneEach
<1>2. ASSUME NEW i \in Registered PROVE rows[i] \in RowRecords
  <2>1. OneEach(Aadhaars)[i] \in Aadhaars /\ OneEach(Mobiles)[i] \in Mobiles
    BY <1>1 DEF Distinct
  <2>2. FirstOfficer \in Staff \cup {NoOne}
    BY DEF StaffAssumption
  <2>3. rows[i] = Row(OneEach(Aadhaars)[i], OneEach(Mobiles)[i], FirstOfficer)
    BY DEF RegisterInit
  <2> QED
    BY <2>1, <2>2, <2>3, RowTyped
<1>3. RegisterTypeOK
  <2>1. DOMAIN rows = Registered /\ Registered \subseteq Ids /\ MaxRequests \in Nat
    BY DEF RegisterInit, StaffAssumption
  <2>2. people \in [Ids -> [Relations -> Nat]] /\ creator \in [Ids -> Staff \cup {NoOne}]
    BY DEF RegisterInit
  <2>3. notice \in [Staff -> SUBSET Ids] /\ noticed = {} /\ excused = {} /\ asked = 0
    BY DEF RegisterInit
  <2> QED
    BY <1>2, <2>1, <2>2, <2>3 DEF RegisterTypeOK, RowRecords
<1>4. /\ page = [s \in Staff |-> Absent] /\ req = [s \in Staff |-> NoReq]
      /\ ApiCallers \subseteq Staff
  BY DEF RegisterInit, StaffAssumption
<1> QED
  BY <1>3, <1>4 DEF Typed

-----------------------------------------------------------------------------
(* Steps that leave the register and the requests alone. *)
Looking(s) ==
  \/ \E i \in Ids : OpenRow(s, i) \/ CallRead(s, i)
  \/ Refetch(s) \/ OpenEdit(s) \/ CancelEdit(s) \/ SaveNothing(s) \/ Acknowledge(s)
  \/ \E f \in Fields : \E v \in Values(f) : Type(s, f, v)

\* Opening, closing and typing on the page leave the requests alone.
LEMMA LookingTyped ==
  ASSUME Typed, NEW s \in Staff, Looking(s)
  PROVE  Typed'
<1>1. /\ UNCHANGED <<rows, people, creator, req, noticed, excused, asked>>
      /\ notice' = notice \/ notice' = [notice EXCEPT ![s] = {}]
      /\ page' = [page EXCEPT ![s] = page'[s]]
      /\ page'[s] # Absent => IsPage(page'[s], DOMAIN rows)
  <2>1. CASE \E i \in Ids : OpenRow(s, i) \/ CallRead(s, i)
    <3>1. PICK i \in Ids : OpenRow(s, i) \/ CallRead(s, i)
      BY <2>1
    <3> QED
      BY <3>1 DEF OpenRow, CallRead, Typed, RegisterTypeOK, IsPage, RowRecords
  <2>2. CASE Refetch(s)
    <3>1. IsPage(page[s], DOMAIN rows)
      BY <2>2 DEF Refetch, Showing, Typed
    <3>2. rows[page[s].id] \in RowRecords
      BY <3>1 DEF IsPage, Typed, RegisterTypeOK, RowRecords
    <3>3. page' = [page EXCEPT ![s] = [page[s] EXCEPT !.row = rows[page[s].id]]]
      BY <2>2 DEF Refetch
    <3>4. page'[s] = [page[s] EXCEPT !.row = rows[page[s].id]]
      BY <3>3 DEF Typed
    <3>5. IsPage(page'[s], DOMAIN rows)
      BY <3>1, <3>2, <3>4 DEF IsPage
    <3> QED
      BY <2>2, <3>3, <3>4, <3>5 DEF Refetch
  <2>3. CASE OpenEdit(s)
    <3> DEFINE shown == [f \in Fields |-> page[s].row[f]]
               opened == [shown |-> shown, now |-> shown]
    <3>1. IsPage(page[s], DOMAIN rows)
      BY <2>3 DEF OpenEdit, Showing, Typed
    <3>2. /\ shown \in [Fields -> Mobiles \cup NotesTexts]
          /\ \A f \in Fields : shown[f] \in Values(f)
      BY <3>1 DEF IsPage, RowRecords, Fields, Values
    <3>3. page' = [page EXCEPT ![s] = [page[s] EXCEPT !.form = opened]]
      BY <2>3 DEF OpenEdit
    <3>4. page'[s] = [page[s] EXCEPT !.form = opened]
      BY <3>3 DEF Typed
    <3>5. opened = [f \in {"shown", "now"} |-> opened[f]] /\ opened.now = shown
      OBVIOUS
    <3> HIDE DEF opened, shown
    <3>6. IsPage(page'[s], DOMAIN rows)
      BY <3>1, <3>2, <3>4, <3>5 DEF IsPage
    <3> QED
      BY <2>3, <3>3, <3>4, <3>6 DEF OpenEdit
  <2>4. CASE CancelEdit(s) \/ SaveNothing(s)
    <3>1. IsPage(page[s], DOMAIN rows)
      BY <2>4 DEF CancelEdit, SaveNothing, Editing, Showing, Typed
    <3>2. page' = [page EXCEPT ![s] = [page[s] EXCEPT !.form = Absent]]
      BY <2>4 DEF CancelEdit, SaveNothing
    <3>3. page'[s] = [page[s] EXCEPT !.form = Absent]
      BY <3>2 DEF Typed
    <3>4. IsPage(page'[s], DOMAIN rows)
      BY <3>1, <3>3 DEF IsPage
    <3> QED
      BY <2>4, <3>2, <3>3, <3>4 DEF CancelEdit, SaveNothing
  <2>5. CASE \E f \in Fields : \E v \in Values(f) : Type(s, f, v)
    <3>0. PICK f \in Fields : \E v \in Values(f) : Type(s, f, v)
      BY <2>5
    <3>1. PICK v \in Values(f) : Type(s, f, v)
      BY <3>0
    <3> DEFINE now == [page[s].form.now EXCEPT ![f] = v]
               opened == [page[s].form EXCEPT !.now = now]
    <3>2. IsPage(page[s], DOMAIN rows) /\ page[s].form # Absent
      BY <3>1 DEF Type, Editing, Showing, Typed
    <3>3. v \in Mobiles \cup NotesTexts
      BY <3>1 DEF Fields, Values
    <3>4. /\ now \in [Fields -> Mobiles \cup NotesTexts]
          /\ \A g \in Fields : now[g] \in Values(g)
      BY <3>1, <3>2, <3>3 DEF IsPage
    <3>5. page' = [page EXCEPT ![s] = [page[s] EXCEPT !.form = opened]]
      BY <3>1 DEF Type
    <3>6. page'[s] = [page[s] EXCEPT !.form = opened]
      BY <3>5 DEF Typed
    <3>7. opened = [g \in {"shown", "now"} |-> opened[g]] /\ opened.now = now
      BY <3>2 DEF IsPage
    <3> HIDE DEF opened, now
    <3>8. IsPage(page'[s], DOMAIN rows)
      BY <3>2, <3>4, <3>6, <3>7 DEF IsPage
    <3> QED
      BY <3>1, <3>5, <3>6, <3>8 DEF Type
  <2>6. CASE Acknowledge(s)
    BY <2>6 DEF Acknowledge, Typed, RegisterTypeOK
  <2> QED
    BY <2>1, <2>2, <2>3, <2>4, <2>5, <2>6 DEF Looking
<1>2. RegisterTypeOK'
  BY <1>1 DEF Typed, RegisterTypeOK
<1>3. \A t \in Staff : page'[t] # Absent => IsPage(page'[t], DOMAIN rows')
  BY <1>1 DEF Typed
<1>4. \A t \in Staff : req'[t] # NoReq => IsRequest(req'[t], DOMAIN rows')
  BY <1>1 DEF Typed
<1>5. ASSUME NEW t \in ApiCallers, page'[t] # Absent PROVE page'[t].form = Absent
  <2>0. t \in Staff
    BY DEF Typed, StaffAssumption
  <2>1. t # s => page'[t] = page[t]
    BY <1>1, <2>0 DEF Typed
  <2>2. CASE t = s
    <3>1. s \in ApiCallers /\ s \in Staff /\ (page[s] # Absent => page[s].form = Absent)
      BY <2>2 DEF Typed
    <3>2. page = [u \in Staff |-> page[u]]
      BY DEF Typed
    <3>3. ASSUME NEW i, CallRead(s, i) PROVE page'[s].form = Absent
      BY <3>2, <3>3 DEF CallRead
    <3>4. CASE Acknowledge(s)
      BY <1>5, <2>2, <3>1, <3>4 DEF Acknowledge
    <3>5. ~Refetch(s) /\ ~OpenEdit(s) /\ \A i \in Ids : ~OpenRow(s, i)
      BY <3>1 DEF OpenRow, Refetch, OpenEdit
    <3>6. ~Editing(s)
      BY <3>1 DEF Editing, Showing
    <3>7. ~CancelEdit(s) /\ ~SaveNothing(s) /\ \A f, v : ~Type(s, f, v)
      BY <3>6 DEF CancelEdit, SaveNothing, Type
    <3> QED
      BY <2>2, <3>3, <3>4, <3>5, <3>7 DEF Looking
  <2> QED
    BY <1>5, <2>1, <2>2 DEF Typed
<1> QED
  BY <1>1, <1>2, <1>3, <1>4, <1>5 DEF Typed

-----------------------------------------------------------------------------
(* A request is made. *)
LEMMA RequestFieldsOf ==
  ASSUME NEW op, NEW i, NEW change, NEW expect, NEW basis
  PROVE  LET r == [Request(op, i, change, expect) EXCEPT !.basis = basis]
         IN  /\ r = [f \in RequestFields |-> r[f]]
             /\ r.op = op /\ r.phase = "read" /\ r.id = i /\ r.change = change
             /\ r.expect = expect /\ r.basis = basis /\ r.matches = {} /\ r.missed = {}
BY DEF Request, RequestFields

\* s has sent the request r
Asked(s, r) ==
  /\ req[s] = NoReq /\ req' = [req EXCEPT ![s] = r]
  /\ r.phase = "read" /\ IsRequest(r, DOMAIN rows)
  /\ r.op = "update" /\ s \in ApiCallers =>
       /\ page[s] # Absent
       /\ r.id = page[s].id /\ r.expect = page[s].row.version
       /\ \A f \in DOMAIN r.change : f \in Texts /\ r.basis[f] = page[s].row[f]
  /\ asked' \in 0..MaxRequests
  /\ UNCHANGED <<rows, people, creator, page, notice, noticed, excused>>

\* the ways to send one
Asking(s) ==
  \/ Save(s) \/ PressBlacklist(s) \/ PressReinstate(s)
  \/ PressAddFamilyMember(s) \/ PressAddGuarantor(s)
  \/ \E f \in Fields \cup {"officer"} : \E v \in Values(f) : CallUpdate(s, f, v)
  \/ \E a \in Aadhaars, m \in Mobiles :
       PressRegister(s, a, m) \/ \E o \in Staff : CallRegister(s, a, m, o)

\* A request built by Request has an empty basis until one is noted on it.
LEMMA BasisKept ==
  ASSUME NEW op, NEW i, NEW change, NEW expect
  PROVE  Request(op, i, change, expect)
           = [Request(op, i, change, expect) EXCEPT !.basis = Nothing]
BY DEF Request

\* A request that is well formed for its operation is Asked.
LEMMA AskedFor ==
  ASSUME Typed, NEW s \in Staff, NEW op \in Ops, NEW i, NEW change, NEW expect, NEW basis,
         Ask(s, [Request(op, i, change, expect) EXCEPT !.basis = basis]),
         UNCHANGED <<rows, people, creator, page, notice, noticed, excused>>,
         op # "create" => i \in DOMAIN rows,
         op = "create" => /\ change.aadhaar \in Aadhaars /\ change.mobile \in Mobiles
                          /\ change.officer \in Staff \cup {NoOne},
         op = "update" => /\ DOMAIN change \subseteq Texts
                          /\ \A f \in DOMAIN change : change[f] \in Values(f),
         op = "update" /\ s \in ApiCallers =>
           /\ page[s] # Absent
           /\ i = page[s].id /\ expect = page[s].row.version
           /\ \A f \in DOMAIN change : f \in Texts /\ basis[f] = page[s].row[f]
  PROVE  \E r : Asked(s, r)
<1> DEFINE r == [Request(op, i, change, expect) EXCEPT !.basis = basis]
<1>1. /\ r = [f \in RequestFields |-> r[f]]
      /\ r.op = op /\ r.phase = "read" /\ r.id = i /\ r.change = change
      /\ r.expect = expect /\ r.basis = basis /\ r.matches = {} /\ r.missed = {}
  BY RequestFieldsOf
<1>2. req[s] = NoReq /\ req' = [req EXCEPT ![s] = r]
  BY DEF Ask, Idle
<1>3. asked' \in 0..MaxRequests
  BY DEF Ask, MayAsk, Typed, RegisterTypeOK, StaffAssumption
<1> HIDE DEF r
<1>4. IsRequest(r, DOMAIN rows)
  BY <1>1 DEF IsRequest, Phases
<1>5. Asked(s, r)
  BY <1>1, <1>2, <1>3, <1>4 DEF Asked
<1> QED
  BY <1>5

\* What the page and the callers send is such a request.
LEMMA AskingAsks ==
  ASSUME Typed, NEW s \in Staff, Asking(s)
  PROVE  \E r : Asked(s, r)
<1>1. page[s] # Absent => IsPage(page[s], DOMAIN rows)
  BY DEF Typed
<1>2. CASE Save(s)
  <2> DEFINE change == [f \in Changed(s) |-> page[s].form.now[f]]
  <2>0. page[s] # Absent /\ page[s].form # Absent
    BY <1>2 DEF Save, Editing, Showing
  <2>1. /\ IsPage(page[s], DOMAIN rows) /\ page[s].form # Absent
        /\ s \notin ApiCallers
    BY <1>1, <2>0 DEF Typed
  <2>2. DOMAIN change \subseteq Texts /\ \A f \in DOMAIN change : change[f] \in Values(f)
    BY <2>1 DEF IsPage, Changed, Texts
  <2>3. Ask(s, [Request("update", page[s].id, change, 0) EXCEPT !.basis = page[s].form.shown])
    BY <1>2 DEF Save
  <2>4. UNCHANGED <<rows, people, creator, page, notice, noticed, excused>>
    BY <1>2 DEF Save
  <2>5. page[s].id \in DOMAIN rows /\ "update" \in Ops
    BY <2>1 DEF IsPage, Ops
  <2> HIDE DEF change
  <2> QED
    BY <2>1, <2>2, <2>3, <2>4, <2>5, AskedFor
<1>3. CASE PressBlacklist(s) \/ PressReinstate(s) \/ PressAddFamilyMember(s) \/ PressAddGuarantor(s)
  <2>1. PICK op \in Ops \ {"create", "update"} : Ask(s, Request(op, page[s].id, Nothing, 0))
    BY <1>3 DEF PressBlacklist, PressReinstate, PressAddFamilyMember, PressAddGuarantor,
       PressAddPerson, Ops, Relations
  <2>2. /\ UNCHANGED <<rows, people, creator, page, notice, noticed, excused>>
        /\ page[s].id \in DOMAIN rows
    BY <1>1, <1>3 DEF PressBlacklist, PressReinstate, PressAddFamilyMember, PressAddGuarantor,
       PressAddPerson, Showing, IsPage
  <2>3. Ask(s, [Request(op, page[s].id, Nothing, 0) EXCEPT !.basis = Nothing])
    BY <2>1, BasisKept
  <2> QED
    BY <2>1, <2>2, <2>3, AskedFor
<1>4. CASE \E f \in Fields \cup {"officer"} : \E v \in Values(f) : CallUpdate(s, f, v)
  <2>1. PICK f \in Texts : \E v \in Values(f) : CallUpdate(s, f, v)
    BY <1>4 DEF Texts
  <2>2. PICK v \in Values(f) : CallUpdate(s, f, v)
    BY <2>1
  <2> DEFINE change == [g \in {f} |-> v]
             basis == [g \in {f} |-> page[s].row[g]]
  <2>3. Ask(s, [Request("update", page[s].id, change, page[s].row.version) EXCEPT !.basis = basis])
    BY <2>2 DEF CallUpdate
  <2>4. DOMAIN change = {f} /\ change[f] = v /\ basis[f] = page[s].row[f]
    OBVIOUS
  <2> HIDE DEF change, basis
  <2>5. /\ UNCHANGED <<rows, people, creator, page, notice, noticed, excused>>
        /\ page[s] # Absent /\ page[s].id \in DOMAIN rows /\ "update" \in Ops
    BY <1>1, <2>2 DEF CallUpdate, Showing, IsPage, Ops
  <2>6. /\ DOMAIN change \subseteq Texts /\ \A g \in DOMAIN change : change[g] \in Values(g)
        /\ \A g \in DOMAIN change : g \in Texts /\ basis[g] = page[s].row[g]
    BY <2>1, <2>2, <2>4
  <2> QED
    BY <2>3, <2>5, <2>6, AskedFor
<1>5. CASE \E a \in Aadhaars, m \in Mobiles :
             PressRegister(s, a, m) \/ \E o \in Staff : CallRegister(s, a, m, o)
  <2>1. PICK a \in Aadhaars, m \in Mobiles :
               PressRegister(s, a, m) \/ \E o \in Staff : CallRegister(s, a, m, o)
    BY <1>5
  <2>2. PICK o \in Staff \cup {NoOne} :
          /\ Ask(s, Request("create", NoOne, [aadhaar |-> a, mobile |-> m, officer |-> o], 0))
          /\ UNCHANGED <<rows, people, creator, page, notice, noticed, excused>>
    BY <2>1 DEF PressRegister, CallRegister
  <2> DEFINE change == [aadhaar |-> a, mobile |-> m, officer |-> o]
  <2>3. /\ change.aadhaar \in Aadhaars /\ change.mobile \in Mobiles
        /\ change.officer \in Staff \cup {NoOne}
    OBVIOUS
  <2>4. Ask(s, [Request("create", NoOne, change, 0) EXCEPT !.basis = Nothing])
    BY <2>2, BasisKept
  <2> HIDE DEF change
  <2>5. "create" \in Ops
    BY DEF Ops
  <2> QED
    BY <2>2, <2>3, <2>4, <2>5, AskedFor
<1> QED
  BY <1>2, <1>3, <1>4, <1>5 DEF Asking

\* Sending a request keeps the types.
LEMMA AskedTyped ==
  ASSUME Typed, NEW s \in Staff, NEW r, Asked(s, r)
  PROVE  Typed'
<1>1. RegisterTypeOK'
  BY DEF Asked, Typed, RegisterTypeOK
<1>2. req' = [t \in Staff |-> req'[t]] /\ \A t \in Staff : req'[t] = IF t = s THEN r ELSE req[t]
  BY DEF Asked, Typed
<1>3. \A t \in Staff : req'[t] # NoReq => IsRequest(req'[t], DOMAIN rows')
  BY <1>2 DEF Asked, Typed
<1> QED
  BY <1>1, <1>2, <1>3 DEF Asked, Typed

-----------------------------------------------------------------------------
(* A handler reads. *)

\* What reading leaves of a request.
Same(q, r) ==
  /\ q = [f \in RequestFields |-> q[f]]
  /\ q.op = r.op /\ q.id = r.id /\ q.change = r.change /\ q.expect = r.expect
  /\ q.basis = r.basis /\ q.missed = r.missed

\* the request of s is now q
Became(s, q) ==
  /\ req[s] # NoReq /\ req[s].phase # "audit"
  /\ req' = [req EXCEPT ![s] = q]
  /\ Same(q, req[s])
  /\ q.phase \in Phases
  /\ req[s].matches \subseteq q.matches /\ q.matches \subseteq Ids
  /\ UNCHANGED <<rows, creator, page, notice, noticed, excused, asked>>

Reading(s) == MatchAadhaar(s) \/ MatchMobile(s) \/ ReadRow(s) \/ MatchEdit(s)

\* look-alikes a read finds
MatchedBy(s) ==
  IF req[s].op = "create" /\ req[s].phase = "read" THEN ByAadhaar(req[s].change.aadhaar)
  ELSE IF req[s].op = "create" THEN ByMobile(req[s].change.mobile)
  ELSE IF /\ req[s].op = "update" /\ req[s].phase = "match"
          /\ "mobile" \in DOMAIN req[s].change /\ req[s].change.mobile # req[s].seen.mobile
  THEN ByMobile(req[s].change.mobile) \ {req[s].id} ELSE {}

\* the phase after a read
NextPhase(r) ==
  CASE r.op = "create" /\ r.phase = "read" -> "mobile"
    [] r.op = "update" /\ r.phase = "read" -> "match"
    [] OTHER -> "write"

\* What moving a request to its next phase changes of it.
LEMMA Forwarded ==
  ASSUME Typed, NEW s \in Staff, req[s] # NoReq, NEW phase \in Phases, NEW found \in SUBSET Ids
  PROVE  LET q == [req[s] EXCEPT !.phase = phase, !.matches = @ \cup found]
         IN  /\ Same(q, req[s]) /\ q.phase = phase /\ q.seen = req[s].seen
             /\ q.matches = req[s].matches \cup found
             /\ req[s].matches \subseteq q.matches /\ q.matches \subseteq Ids
<1>1. IsRequest(req[s], DOMAIN rows)
  BY DEF Typed
<1> QED
  BY <1>1 DEF IsRequest, Same, RequestFields

\* What noting the row it has read changes of a request.
LEMMA SeenBy ==
  ASSUME Typed, NEW s \in Staff, req[s] # NoReq, NEW phase \in Phases, NEW row \in RowRecords
  PROVE  LET q == [req[s] EXCEPT !.seen = row, !.phase = phase]
         IN  /\ Same(q, req[s]) /\ q.phase = phase /\ q.seen = row
             /\ q.matches = req[s].matches /\ q.matches \subseteq Ids
<1>1. IsRequest(req[s], DOMAIN rows)
  BY DEF Typed
<1> QED
  BY <1>1 DEF IsRequest, Same, RequestFields

\* A read of a handler moves its own request on and nothing else; only ReadRow
\* changes what the request has seen.
LEMMA ReadingBecomes ==
  ASSUME Typed, NEW s \in Staff, Reading(s)
  PROVE  \E q : /\ Became(s, q)
                /\ people' = people
                /\ q.phase = NextPhase(req[s]) /\ q.phase # "audit"
                /\ q.matches = req[s].matches \cup MatchedBy(s)
                /\ IF req[s].phase = "read" /\ req[s].op # "create"
                   THEN ReadRow(s) /\ q.seen = rows[req[s].id] ELSE q.seen = req[s].seen
                /\ req[s].op = "create" => req[s].phase \in {"read", "mobile"}
                /\ req[s].op # "create" =>
                     req[s].phase = "read" \/ (req[s].op = "update" /\ req[s].phase = "match")
<1>1. DOMAIN rows \subseteq Ids
  BY DEF Typed, RegisterTypeOK
<1>2. CASE MatchAadhaar(s)
  <2> DEFINE found == ByAadhaar(req[s].change.aadhaar)
             q == [req[s] EXCEPT !.phase = "mobile", !.matches = @ \cup found]
  <2>1. /\ req[s] # NoReq /\ req[s].op = "create" /\ req[s].phase = "read"
        /\ req' = [req EXCEPT ![s] = q]
        /\ UNCHANGED <<rows, people, creator, page, notice, noticed, excused, asked>>
    BY <1>2 DEF MatchAadhaar, At, Idle, Forward
  <2>2. found \in SUBSET Ids /\ "mobile" \in Phases
    BY <1>1 DEF ByAadhaar, Phases
  <2>3. MatchedBy(s) = found /\ NextPhase(req[s]) = "mobile"
    BY <2>1 DEF MatchedBy, NextPhase
  <2> HIDE DEF found
  <2>4. /\ Same(q, req[s]) /\ q.phase = "mobile" /\ q.seen = req[s].seen
        /\ q.matches = req[s].matches \cup found
        /\ req[s].matches \subseteq q.matches /\ q.matches \subseteq Ids
    BY <2>1, <2>2, Forwarded
  <2> HIDE DEF q
  <2>5. Became(s, q)
    BY <2>1, <2>2, <2>4 DEF Became
  <2> QED
    BY <2>1, <2>3, <2>4, <2>5
<1>3. CASE MatchMobile(s)
  <2> DEFINE found == ByMobile(req[s].change.mobile)
             q == [req[s] EXCEPT !.phase = "write", !.matches = @ \cup found]
  <2>1. /\ req[s] # NoReq /\ req[s].op = "create" /\ req[s].phase = "mobile"
        /\ req' = [req EXCEPT ![s] = q]
        /\ UNCHANGED <<rows, people, creator, page, notice, noticed, excused, asked>>
    BY <1>3 DEF MatchMobile, At, Idle, Forward
  <2>2. found \in SUBSET Ids /\ "write" \in Phases
    BY <1>1 DEF ByMobile, Phases
  <2>3. MatchedBy(s) = found /\ NextPhase(req[s]) = "write"
    BY <2>1 DEF MatchedBy, NextPhase
  <2> HIDE DEF found
  <2>4. /\ Same(q, req[s]) /\ q.phase = "write" /\ q.seen = req[s].seen
        /\ q.matches = req[s].matches \cup found
        /\ req[s].matches \subseteq q.matches /\ q.matches \subseteq Ids
    BY <2>1, <2>2, Forwarded
  <2> HIDE DEF q
  <2>5. Became(s, q)
    BY <2>1, <2>2, <2>4 DEF Became
  <2> QED
    BY <2>1, <2>3, <2>4, <2>5
<1>4. CASE ReadRow(s)
  <2> DEFINE phase == IF req[s].op = "update" THEN "match" ELSE "write"
             q == [req[s] EXCEPT !.seen = rows[req[s].id], !.phase = phase]
  <2>1. /\ req[s] # NoReq /\ req[s].op # "create" /\ req[s].phase = "read"
        /\ req' = [req EXCEPT ![s] = q]
        /\ UNCHANGED <<rows, people, creator, page, notice, noticed, excused, asked>>
    BY <1>4 DEF ReadRow, Idle
  <2>2. phase \in Phases /\ phase # "audit"
    BY DEF Phases
  <2>6. MatchedBy(s) = {} /\ NextPhase(req[s]) = phase
    BY <2>1 DEF MatchedBy, NextPhase
  <2> HIDE DEF phase
  <2>5. rows[req[s].id] \in RowRecords
    BY <2>1 DEF Typed, RegisterTypeOK, IsRequest, RowRecords
  <2>3. /\ Same(q, req[s]) /\ q.phase = phase /\ q.seen = rows[req[s].id]
        /\ q.matches = req[s].matches /\ q.matches \subseteq Ids
    BY <2>1, <2>2, <2>5, SeenBy
  <2> HIDE DEF q
  <2>4. Became(s, q)
    BY <2>1, <2>2, <2>3 DEF Became
  <2> QED
    BY <1>4, <2>1, <2>2, <2>3, <2>4, <2>6
<1>5. CASE MatchEdit(s)
  <2> DEFINE found == MatchedBy(s)
             q == [req[s] EXCEPT !.phase = "write", !.matches = @ \cup found]
  <2>1. /\ req[s] # NoReq /\ req[s].op = "update" /\ req[s].phase = "match"
        /\ UNCHANGED <<rows, people, creator, page, notice, noticed, excused, asked>>
    BY <1>5 DEF MatchEdit, At, Idle
  <2>2. req' = [req EXCEPT ![s] = q]
    BY <1>5, <2>1 DEF MatchEdit, Forward, MatchedBy
  <2>3. found \in SUBSET Ids /\ "write" \in Phases
    BY <1>1, <2>1 DEF MatchedBy, ByMobile, Phases
  <2>5. found = MatchedBy(s) /\ NextPhase(req[s]) = "write"
    BY <2>1 DEF NextPhase
  <2> HIDE DEF found
  <2>4. /\ Same(q, req[s]) /\ q.phase = "write" /\ q.seen = req[s].seen
        /\ q.matches = req[s].matches \cup found
        /\ req[s].matches \subseteq q.matches /\ q.matches \subseteq Ids
    BY <2>1, <2>3, Forwarded
  <2> HIDE DEF q
  <2>6. Became(s, q)
    BY <2>1, <2>2, <2>3, <2>4 DEF Became
  <2> QED
    BY <2>1, <2>3, <2>4, <2>5, <2>6
<1> QED
  BY <1>2, <1>3, <1>4, <1>5 DEF Reading

\* Moving one request on keeps the types.
LEMMA BecameTyped ==
  ASSUME Typed, NEW s \in Staff, NEW q, Became(s, q), people' \in [Ids -> [Relations -> Nat]],
         req[s].op = "create" => q.phase # "audit"
  PROVE  Typed'
<1>1. RegisterTypeOK'
  BY DEF Became, Typed, RegisterTypeOK
<1>2. req' = [t \in Staff |-> req'[t]] /\ \A t \in Staff : req'[t] = IF t = s THEN q ELSE req[t]
  BY DEF Became, Typed
<1>3. IsRequest(q, DOMAIN rows)
  <2>1. IsRequest(req[s], DOMAIN rows)
    BY DEF Became, Typed
  <2> QED
    BY <2>1 DEF Became, Same, IsRequest
<1>4. \A t \in Staff : req'[t] # NoReq => IsRequest(req'[t], DOMAIN rows')
  BY <1>2, <1>3 DEF Became, Typed
<1> QED
  BY <1>1, <1>2, <1>4 DEF Became, Typed

-----------------------------------------------------------------------------
(* A handler writes a customer: the requests under way have not seen it. *)
Noted(r, i) ==
  IF r # NoReq /\ r.phase \notin {"read", "audit"} THEN [r EXCEPT !.missed = @ \cup {i}] ELSE r

\* s wrote row i and its request is now q
Wrote(s, i, q) ==
  /\ req[s] # NoReq /\ req[s].phase = "write" /\ i \in Ids
  /\ Same(q, [req[s] EXCEPT !.id = i]) /\ q.phase = "audit" /\ q.matches = req[s].matches
  /\ req' = [t \in Staff |-> IF t = s THEN q ELSE Noted(req[t], i)]
  /\ DOMAIN rows' = DOMAIN rows \cup {i}
  /\ \A j \in DOMAIN rows : j # i => rows'[j] = rows[j]
  /\ rows'[i] \in RowRecords
  /\ UNCHANGED <<people, page, notice, noticed, excused, asked>>

Writing(s) ==
  (\E i \in Ids : Insert(s, i)) \/ WriteEdit(s) \/ WriteBlacklist(s) \/ WriteReinstate(s)

\* What the last phase changes of a request that has written.
LEMMA AuditOf ==
  ASSUME Typed, NEW s \in Staff, req[s] # NoReq, NEW i
  PROVE  /\ LET q == [req[s] EXCEPT !.phase = "audit", !.id = i]
            IN  Same(q, [req[s] EXCEPT !.id = i]) /\ q.phase = "audit"
                  /\ q.matches = req[s].matches /\ q # NoReq
         /\ LET q == [req[s] EXCEPT !.phase = "audit"]
            IN  Same(q, req[s]) /\ q.phase = "audit" /\ q.matches = req[s].matches /\ q # NoReq
         /\ [req[s] EXCEPT !.id = req[s].id] = req[s]
<1>1. IsRequest(req[s], DOMAIN rows)
  BY DEF Typed
<1>2. req[s].op # "none"
  BY <1>1 DEF IsRequest, Ops, Relations
<1> QED
  BY <1>1, <1>2 DEF IsRequest, Same, RequestFields, NoReq

\* Note sets the request of the writer and marks those of the others.
LEMMA NoteIs ==
  ASSUME Typed, NEW s \in Staff, NEW q, NEW i
  PROVE  Note(s, i, [req EXCEPT ![s] = q])
           = [t \in Staff |-> IF t = s THEN q ELSE Noted(req[t], i)]
BY DEF Note, Noted, Typed

\* An edited row is a row.
LEMMA EditedTyped ==
  ASSUME NEW row \in RowRecords, NEW change, DOMAIN change \subseteq Texts,
         \A f \in DOMAIN change : change[f] \in Values(f)
  PROVE  Edited(row, change) \in RowRecords
<1> DEFINE Fresh(f) == IF f = "version" THEN row.version + 1
                       ELSE IF f \in DOMAIN change THEN change[f] ELSE row[f]
<1>1. row = [aadhaar |-> row.aadhaar, mobile |-> row.mobile, notes |-> row.notes,
             officer |-> row.officer, status |-> row.status, by |-> row.by,
             version |-> row.version]
  BY DEF RowRecords
<1>2. DOMAIN row = {"aadhaar", "mobile", "notes", "officer", "status", "by", "version"}
  BY DEF RowRecords
<1>3. Edited(row, change) = [f \in DOMAIN row |-> Fresh(f)]
  BY DEF Edited
<1>4. /\ Fresh("aadhaar") = row.aadhaar /\ Fresh("status") = row.status
      /\ Fresh("by") = row.by /\ Fresh("version") = row.version + 1
  BY DEF Texts, Fields
<1>5. /\ Fresh("mobile") \in Mobiles /\ Fresh("notes") \in NotesTexts
      /\ Fresh("officer") \in Staff \cup {NoOne}
  BY DEF Texts, Fields, Values, RowRecords
<1>6. /\ row.aadhaar \in Aadhaars /\ row.status \in {"active", "blacklisted"}
      /\ row.by \in Staff \cup {NoOne} /\ row.version + 1 \in Nat \ {0}
  BY DEF RowRecords
<1> HIDE DEF Fresh
<1>7. [f \in DOMAIN row |-> Fresh(f)] \in RowRecords
  BY <1>2, <1>4, <1>5, <1>6 DEF RowRecords
<1> QED
  BY <1>3, <1>7

\* What an edit leaves alone, and the version it counts up.
LEMMA EditedFields ==
  ASSUME NEW row \in RowRecords, NEW change, DOMAIN change \subseteq Texts
  PROVE  /\ Edited(row, change).version = row.version + 1
         /\ Edited(row, change).aadhaar = row.aadhaar
         /\ Edited(row, change).status = row.status
         /\ Edited(row, change).mobile =
              IF "mobile" \in DOMAIN change THEN change.mobile ELSE row.mobile
<1>1. DOMAIN row = {"aadhaar", "mobile", "notes", "officer", "status", "by", "version"}
  BY DEF RowRecords
<1> QED
  BY <1>1 DEF Edited, Texts, Fields

\* A statement that writes changes one row, marks the requests that had read it
\* and leaves the rest of the register alone.
LEMMA WritingWrites ==
  ASSUME Typed, NEW s \in Staff, Writing(s)
  PROVE  \E i, q : /\ Wrote(s, i, q)
                   /\ creator' \in [Ids -> Staff \cup {NoOne}]
                   /\ \/ Insert(s, i) /\ i \notin DOMAIN rows /\ req[s].op = "create"
                      \/ /\ i = req[s].id /\ i \in DOMAIN rows
                         /\ WriteEdit(s) \/ WriteBlacklist(s) \/ WriteReinstate(s)
<1>1. DOMAIN rows \subseteq Ids /\ \A j \in DOMAIN rows : rows[j] \in RowRecords
  BY DEF Typed, RegisterTypeOK, RowRecords
<1>2. ASSUME NEW i \in Ids, Insert(s, i)
      PROVE  \E q : Wrote(s, i, q) /\ creator' \in [Ids -> Staff \cup {NoOne}]
  <2> DEFINE q == [req[s] EXCEPT !.phase = "audit", !.id = i]
             row == Row(req[s].change.aadhaar, req[s].change.mobile, req[s].change.officer)
  <2>1. /\ req[s] # NoReq /\ req[s].op = "create" /\ req[s].phase = "write" /\ i \notin DOMAIN rows
        /\ rows' = [j \in DOMAIN rows \cup {i} |-> IF j = i THEN row ELSE rows[j]]
        /\ UNCHANGED <<people, page, notice, noticed, excused, asked>>
        /\ creator' = [creator EXCEPT ![i] = s]
    BY <1>2 DEF Insert, At, Idle
  <2>7. req' = Note(s, i, [req EXCEPT ![s] = q])
    BY <1>2 DEF Insert
  <2>2. Same(q, [req[s] EXCEPT !.id = i]) /\ q.phase = "audit" /\ q.matches = req[s].matches
    BY <2>1, AuditOf
  <2>3. row \in RowRecords
    <3>1. StaffAssumption
      BY DEF Typed
    <3>2. /\ req[s].change.aadhaar \in Aadhaars /\ req[s].change.mobile \in Mobiles
          /\ req[s].change.officer \in Staff \cup {NoOne}
      BY <2>1 DEF Typed, IsRequest
    <3> QED
      BY <3>1, <3>2, RowTyped
  <2> HIDE DEF q, row
  <2>4. req' = [t \in Staff |-> IF t = s THEN q ELSE Noted(req[t], i)]
    BY <2>7, NoteIs
  <2>5. creator' \in [Ids -> Staff \cup {NoOne}]
    BY <2>1 DEF Typed, RegisterTypeOK
  <2>6. Wrote(s, i, q)
    BY <2>1, <2>2, <2>3, <2>4 DEF Wrote
  <2> QED
    BY <2>5, <2>6
<1>3. ASSUME WriteEdit(s) \/ WriteBlacklist(s) \/ WriteReinstate(s)
      PROVE  /\ \E q : Wrote(s, req[s].id, q)
             /\ UNCHANGED creator /\ req[s].id \in DOMAIN rows
  <2> DEFINE i == req[s].id
             q == [req[s] EXCEPT !.phase = "audit"]
  <2>1. /\ req[s] # NoReq /\ req[s].op \in {"update", "blacklist", "reinstate"}
        /\ req[s].phase = "write"
        /\ UNCHANGED <<people, creator, page, notice, noticed, excused, asked>>
        /\ req' = Note(s, i, [req EXCEPT ![s] = q])
    BY <1>3 DEF WriteEdit, WriteBlacklist, WriteReinstate, At, Idle
  <2>2. IsRequest(req[s], DOMAIN rows)
    BY <2>1 DEF Typed
  <2>3. i \in DOMAIN rows /\ rows[i] \in RowRecords
    BY <1>1, <2>1, <2>2 DEF IsRequest
  <2>4. PICK row \in RowRecords : rows' = [rows EXCEPT ![i] = row]
    <3>1. CASE WriteEdit(s)
      <4>1. rows' = [rows EXCEPT ![i] = Edited(rows[i], req[s].change)] /\ req[s].op = "update"
        BY <3>1 DEF WriteEdit, At
      <4>2. Edited(rows[i], req[s].change) \in RowRecords
        BY <2>2, <2>3, <4>1, EditedTyped DEF IsRequest
      <4> QED
        BY <4>1, <4>2
    <3>2. CASE WriteBlacklist(s)
      <4>1. rows' = [rows EXCEPT ![i] = Blacklisted(rows[i], s)]
        BY <3>2 DEF WriteBlacklist
      <4>2. Blacklisted(rows[i], s) \in RowRecords
        BY <2>3 DEF Blacklisted, RowRecords
      <4> QED
        BY <4>1, <4>2
    <3>3. CASE WriteReinstate(s)
      <4>1. rows' = [rows EXCEPT ![i] = Reinstated(rows[i])]
        BY <3>3 DEF WriteReinstate
      <4>2. Reinstated(rows[i]) \in RowRecords
        BY <2>3 DEF Reinstated, RowRecords
      <4> QED
        BY <4>1, <4>2
    <3> QED
      BY <1>3, <3>1, <3>2, <3>3
  <2>5. /\ DOMAIN rows' = DOMAIN rows \cup {i} /\ rows'[i] \in RowRecords
        /\ \A j \in DOMAIN rows : j # i => rows'[j] = rows[j]
    BY <2>3, <2>4
  <2>6. Same(q, req[s]) /\ q.phase = "audit" /\ q.matches = req[s].matches
    BY <2>1, AuditOf
  <2>7. [req[s] EXCEPT !.id = i] = req[s]
    BY <2>1, AuditOf
  <2> HIDE DEF q
  <2>8. req' = [t \in Staff |-> IF t = s THEN q ELSE Noted(req[t], i)]
    BY <2>1, NoteIs
  <2>9. Wrote(s, i, q)
    BY <1>1, <2>1, <2>3, <2>5, <2>6, <2>7, <2>8 DEF Wrote
  <2> QED
    BY <2>1, <2>3, <2>9
<1>4. ASSUME NEW i \in Ids, Insert(s, i) PROVE i \notin DOMAIN rows /\ req[s].op = "create"
  BY <1>4 DEF Insert, At
<1>5. UNCHANGED creator => creator' \in [Ids -> Staff \cup {NoOne}]
  BY DEF Typed, RegisterTypeOK
<1> QED
  BY <1>2, <1>3, <1>4, <1>5 DEF Writing

\* A mark adds the row to those a request has missed and changes nothing else.
LEMMA NotedIs ==
  ASSUME Typed, NEW t \in Staff, NEW i \in Ids
  PROVE  /\ Noted(req[t], i) = NoReq <=> req[t] = NoReq
         /\ req[t] # NoReq =>
              /\ IsRequest(Noted(req[t], i), DOMAIN rows)
              /\ Noted(req[t], i).op = req[t].op /\ Noted(req[t], i).phase = req[t].phase
              /\ Noted(req[t], i).id = req[t].id /\ Noted(req[t], i).change = req[t].change
              /\ Noted(req[t], i).expect = req[t].expect /\ Noted(req[t], i).basis = req[t].basis
              /\ Noted(req[t], i).seen = req[t].seen
              /\ Noted(req[t], i).matches = req[t].matches
              /\ Noted(req[t], i).missed = IF req[t].phase \notin {"read", "audit"}
                                           THEN req[t].missed \cup {i} ELSE req[t].missed
<1>1. CASE req[t] # NoReq /\ req[t].phase \notin {"read", "audit"}
  <2> DEFINE q == [req[t] EXCEPT !.missed = @ \cup {i}]
  <2>1. IsRequest(req[t], DOMAIN rows) /\ Noted(req[t], i) = q
    BY <1>1 DEF Typed, Noted
  <2>2. /\ q.op = req[t].op /\ q.phase = req[t].phase /\ q.id = req[t].id
        /\ q.change = req[t].change /\ q.expect = req[t].expect /\ q.basis = req[t].basis
        /\ q.seen = req[t].seen /\ q.matches = req[t].matches /\ q.missed = req[t].missed \cup {i}
        /\ q = [f \in RequestFields |-> q[f]]
    BY <2>1 DEF IsRequest, RequestFields
  <2>3. q # NoReq
    BY <2>1, <2>2 DEF IsRequest, Ops, Relations, NoReq
  <2> HIDE DEF q
  <2>4. IsRequest(q, DOMAIN rows)
    BY <2>1, <2>2 DEF IsRequest
  <2> QED
    BY <1>1, <2>1, <2>2, <2>3, <2>4
<1>2. CASE ~ (req[t] # NoReq /\ req[t].phase \notin {"read", "audit"})
  <2>1. Noted(req[t], i) = req[t]
    BY <1>2 DEF Noted
  <2> QED
    BY <1>2, <2>1 DEF Typed
<1> QED
  BY <1>1, <1>2

\* Writing one row keeps the types.
LEMMA WroteTyped ==
  ASSUME Typed, NEW s \in Staff, NEW i, NEW q, Wrote(s, i, q),
         creator' \in [Ids -> Staff \cup {NoOne}]
  PROVE  Typed'
<1>1. RegisterTypeOK'
  <2>1. DOMAIN rows' \subseteq Ids /\ Registered \subseteq DOMAIN rows'
    BY DEF Wrote, Typed, RegisterTypeOK
  <2>2. \A j \in DOMAIN rows' : rows'[j] \in RowRecords
    BY DEF Wrote, Typed, RegisterTypeOK, RowRecords
  <2>3. UNCHANGED <<people, notice, noticed, excused, asked>>
    BY DEF Wrote
  <2> QED
    BY <2>1, <2>2, <2>3 DEF Typed, RegisterTypeOK, RowRecords
<1>2. req' = [t \in Staff |-> req'[t]]
  BY DEF Wrote
<1>3. \A t \in Staff : page'[t] # Absent => IsPage(page'[t], DOMAIN rows')
  <2>1. page' = page /\ DOMAIN rows \subseteq DOMAIN rows'
    BY DEF Wrote
  <2>2. \A t \in Staff : page[t] # Absent => IsPage(page[t], DOMAIN rows)
    BY DEF Typed
  <2> QED
    BY <2>1, <2>2 DEF IsPage
<1>4. ASSUME NEW t \in Staff, t # s, req'[t] # NoReq PROVE IsRequest(req'[t], DOMAIN rows')
  <2>1. req'[t] = Noted(req[t], i) /\ i \in Ids /\ DOMAIN rows' = DOMAIN rows \cup {i}
    BY <1>4 DEF Wrote
  <2>2. IsRequest(req'[t], DOMAIN rows)
    BY <1>4, <2>1, NotedIs
  <2> QED
    BY <2>1, <2>2 DEF IsRequest
<1>5. IsRequest(q, DOMAIN rows')
  <2>1. /\ req[s] # NoReq /\ i \in DOMAIN rows' /\ i \in Ids
        /\ Same(q, [req[s] EXCEPT !.id = i]) /\ q.phase = "audit" /\ q.matches = req[s].matches
    BY DEF Wrote
  <2>2. IsRequest(req[s], DOMAIN rows)
    BY <2>1 DEF Typed
  <2>3. /\ q = [f \in RequestFields |-> q[f]]
        /\ q.op = req[s].op /\ q.id = i /\ q.change = req[s].change /\ q.missed = req[s].missed
    BY <2>1, <2>2 DEF IsRequest, Same, RequestFields
  <2> QED
    BY <2>1, <2>2, <2>3 DEF IsRequest, Phases
<1>6. req'[s] = q
  BY DEF Wrote
<1>7. page' = page /\ StaffAssumption
  BY DEF Wrote, Typed
<1> QED
  BY <1>1, <1>2, <1>3, <1>4, <1>5, <1>6, <1>7 DEF Typed

-----------------------------------------------------------------------------
(* A person is added, and requests end. *)
Inserting(s) == InsertFamilyMember(s) \/ InsertGuarantor(s)

\* A relation is inserted for the customer of the request, and its request goes on.
LEMMA InsertingBecomes ==
  ASSUME Typed, NEW s \in Staff, Inserting(s)
  PROVE  \E q : /\ Became(s, q)
                /\ q.phase = "audit" /\ q.matches = req[s].matches
                /\ req[s].op \in Relations /\ req[s].phase = "write"
                /\ people' \in [Ids -> [Relations -> Nat]]
<1> DEFINE q == [req[s] EXCEPT !.phase = "audit"]
<1>1. PICK kind \in Relations : InsertPerson(s, kind)
  BY DEF Inserting, InsertFamilyMember, InsertGuarantor, Relations
<1>2. /\ req[s] # NoReq /\ req[s].op = kind /\ req[s].phase = "write"
      /\ UNCHANGED <<rows, creator, page, notice, noticed, excused, asked>>
      /\ people' = [people EXCEPT ![req[s].id][kind] = @ + 1]
  BY <1>1 DEF InsertPerson, At, Idle
<1>3. req' = [req EXCEPT ![s] = q]
  BY <1>1 DEF InsertPerson
<1>4. Same(q, req[s]) /\ q.phase = "audit" /\ q.matches = req[s].matches
  BY <1>2, AuditOf
<1>5. req[s].matches \subseteq Ids
  BY <1>2 DEF Typed, IsRequest
<1>6. people' \in [Ids -> [Relations -> Nat]]
  <2>1. req[s].id \in Ids
    BY <1>2 DEF Typed, RegisterTypeOK, IsRequest, Relations
  <2>2. people \in [Ids -> [Relations -> Nat]]
    BY DEF Typed, RegisterTypeOK
  <2>3. [people[req[s].id] EXCEPT ![kind] = @ + 1] \in [Relations -> Nat]
    BY <2>1, <2>2
  <2> QED
    BY <1>2, <2>1, <2>2, <2>3
<1> HIDE DEF q
<1>7. Became(s, q)
  BY <1>2, <1>3, <1>4, <1>5 DEF Became, Phases
<1> QED
  BY <1>2, <1>4, <1>6, <1>7

\* the request of s is over
Ended(s) ==
  /\ req[s] # NoReq
  /\ req' = [req EXCEPT ![s] = NoReq]
  /\ UNCHANGED <<rows, people, creator, asked>>
  /\ notice' \in [Staff -> SUBSET Ids]
  /\ noticed \subseteq noticed' /\ excused \subseteq excused'
  /\ noticed' \subseteq SUBSET Ids /\ excused' \subseteq SUBSET Ids
  /\ req[s].phase = "audit" =>
       Pairs(s, req[s].matches \cup req[s].missed) \subseteq noticed' \cup excused'
  /\ page' = page \/ page' = [page EXCEPT ![s] = [@ EXCEPT !.form = Absent]]

Ending(s) == RefuseWrite(s) \/ ConflictEdit(s) \/ Answer(s) \/ RequestFails(s)

\* A refusal, a conflict, an answer and a failure take the request away and can
\* only add to what the staff has been told.
LEMMA EndingEnds ==
  ASSUME Typed, NEW s \in Staff, Ending(s)
  PROVE  Ended(s)
<1>4. /\ noticed \subseteq SUBSET Ids /\ excused \subseteq SUBSET Ids
      /\ notice \in [Staff -> SUBSET Ids]
  BY DEF Typed, RegisterTypeOK
<1>5. ASSUME req[s] # NoReq, req[s].phase = "audit", NEW M \in SUBSET Ids
      PROVE  Pairs(s, M) \subseteq SUBSET Ids
  <2>1. req[s].id \in Ids
    BY <1>5 DEF Typed, RegisterTypeOK, IsRequest
  <2> QED
    BY <2>1 DEF Pairs
<1>6. req[s] # NoReq => req[s].matches \subseteq Ids /\ req[s].missed \subseteq Ids
  BY DEF Typed, IsRequest
<1>1. CASE RefuseWrite(s) \/ ConflictEdit(s)
  BY <1>1, <1>4 DEF RefuseWrite, ConflictEdit, At, Idle, Ended
<1>2. CASE Answer(s)
  <2>1. IsRequest(req[s], DOMAIN rows)
    BY <1>2 DEF Answer, Idle, Typed
  <2>2. notice' \in [Staff -> SUBSET Ids]
    BY <1>2, <2>1 DEF Answer, Typed, RegisterTypeOK, IsRequest
  <2>3. noticed' = noticed \cup Pairs(s, req[s].matches) /\ excused' = excused \cup Pairs(s, req[s].missed)
    BY <1>2 DEF Answer
  <2>4. page' = page \/ page' = [page EXCEPT ![s] = [@ EXCEPT !.form = Absent]]
    <3>1. page = [t \in Staff |-> page[t]]
      BY DEF Typed
    <3> QED
      BY <1>2, <3>1 DEF Answer
  <2>5. Pairs(s, req[s].matches \cup req[s].missed) \subseteq noticed' \cup excused'
    BY <2>3 DEF Pairs
  <2>6. noticed' \subseteq SUBSET Ids /\ excused' \subseteq SUBSET Ids
    BY <1>2, <1>4, <1>5, <1>6, <2>3 DEF Answer, Idle
  <2> QED
    BY <1>2, <2>2, <2>3, <2>4, <2>5, <2>6 DEF Answer, Idle, Ended
<1>3. CASE RequestFails(s)
  <2>1. req[s] # NoReq /\ noticed' = noticed /\ excused \subseteq excused'
    BY <1>3 DEF RequestFails, Idle
  <2>2. req[s].phase = "audit" =>
          /\ excused' = excused \cup Pairs(s, req[s].missed \cup req[s].matches)
          /\ req[s].matches \cup req[s].missed = req[s].missed \cup req[s].matches
    BY <1>3 DEF RequestFails
  <2>3. excused' \subseteq SUBSET Ids
    <3>1. CASE req[s].phase = "audit"
      <4>1. req[s].missed \cup req[s].matches \in SUBSET Ids
        BY <1>6, <2>1
      <4>2. Pairs(s, req[s].missed \cup req[s].matches) \subseteq SUBSET Ids
        BY <1>5, <2>1, <3>1, <4>1
      <4> QED
        BY <1>4, <2>2, <3>1, <4>2
    <3>2. CASE req[s].phase # "audit"
      BY <1>3, <1>4, <3>2 DEF RequestFails
    <3> QED
      BY <3>1, <3>2
  <2> QED
    BY <1>3, <1>4, <2>1, <2>2, <2>3 DEF RequestFails, Ended
<1> QED
  BY <1>1, <1>2, <1>3 DEF Ending

\* The end of a request keeps the types.
LEMMA EndedTyped ==
  ASSUME Typed, NEW s \in Staff, Ended(s)
  PROVE  Typed'
<1>1. RegisterTypeOK'
  BY DEF Ended, Typed, RegisterTypeOK
<1>2. req' = [t \in Staff |-> req'[t]] /\ \A t \in Staff : req'[t] = IF t = s THEN NoReq ELSE req[t]
  BY DEF Ended, Typed
<1>3. page' = [t \in Staff |-> page'[t]]
  BY DEF Ended, Typed
<1>4. ASSUME NEW t \in Staff, page'[t] # Absent PROVE IsPage(page'[t], DOMAIN rows)
  <2>1. page[t] = page'[t] \/ page'[t] = [page[t] EXCEPT !.form = Absent]
    BY DEF Ended, Typed
  <2>2. page[t] # Absent => IsPage(page[t], DOMAIN rows)
    BY DEF Typed
  <2>3. CASE page[t] = Absent /\ page'[t] = [page[t] EXCEPT !.form = Absent]
    BY <1>4, <2>3 DEF Absent
  <2> QED
    BY <1>4, <2>1, <2>2, <2>3 DEF IsPage
<1>5. ASSUME NEW t \in ApiCallers, page'[t] # Absent PROVE page'[t].form = Absent
  <2>1. t \in Staff /\ (page[t] # Absent => IsPage(page[t], DOMAIN rows) /\ page[t].form = Absent)
    BY DEF Typed, StaffAssumption
  <2>2. page[t] = page'[t] \/ page'[t] = [page[t] EXCEPT !.form = Absent]
    BY <2>1 DEF Ended, Typed
  <2>3. CASE page[t] = Absent /\ page'[t] = [page[t] EXCEPT !.form = Absent]
    BY <1>5, <2>3 DEF Absent
  <2> QED
    BY <1>5, <2>1, <2>2, <2>3 DEF IsPage
<1> QED
  BY <1>1, <1>2, <1>3, <1>4, <1>5 DEF Ended, Typed

-----------------------------------------------------------------------------
\* Whatever somebody does is one of these.
LEMMA NextIs ==
  ASSUME RegisterNext
  PROVE  \E s \in Staff : \/ Looking(s) \/ Asking(s) \/ Reading(s) \/ Writing(s)
                          \/ Inserting(s) \/ Ending(s)
BY DEF RegisterNext, Handler, Looking, Asking, Reading, Writing, Inserting, Ending

\* The register, the pages and the requests keep their shapes.
LEMMA TypedNext == Typed /\ [RegisterNext]_registerVars => Typed'
<1> SUFFICES ASSUME Typed, [RegisterNext]_registerVars PROVE Typed'
  OBVIOUS
<1>1. CASE UNCHANGED registerVars
  BY <1>1 DEF registerVars, Typed, RegisterTypeOK
<1>2. CASE RegisterNext
  <2>1. PICK s \in Staff : \/ Looking(s) \/ Asking(s) \/ Reading(s) \/ Writing(s)
                           \/ Inserting(s) \/ Ending(s)
    BY <1>2, NextIs
  <2>2. CASE Asking(s)
    BY <2>2, AskingAsks, AskedTyped
  <2>3. CASE Reading(s)
    <3>1. PICK q : Became(s, q) /\ people' = people /\ q.phase # "audit"
      BY <2>3, ReadingBecomes
    <3>2. people' \in [Ids -> [Relations -> Nat]]
      BY <3>1 DEF Typed, RegisterTypeOK
    <3> QED
      BY <3>1, <3>2, BecameTyped
  <2>4. CASE Writing(s)
    BY <2>4, WritingWrites, WroteTyped
  <2>5. CASE Inserting(s)
    <3>1. PICK q : /\ Became(s, q) /\ people' \in [Ids -> [Relations -> Nat]]
                   /\ req[s].op \in Relations
      BY <2>5, InsertingBecomes
    <3>2. req[s].op # "create"
      BY <3>1 DEF Relations
    <3> QED
      BY <3>1, <3>2, BecameTyped
  <2> QED
    BY <2>1, <2>2, <2>3, <2>4, <2>5, LookingTyped, EndingEnds, EndedTyped
<1> QED
  BY <1>1, <1>2

-----------------------------------------------------------------------------
(* Somebody knows of a pair, or will: LookAlikesAreTold asks it of look-alikes. *)
Covered(i, j) ==
  \/ {i, j} \in noticed \cup excused
  \/ \E s \in Staff : ~Idle(s) /\ req[s].phase = "audit"
                     /\ {i, j} \in Pairs(s, req[s].matches \cup req[s].missed)

\* What a request has found, or missed, by the time it writes.
Found(s) == req[s] # NoReq =>
  /\ req[s].op = "create" /\ req[s].phase \in {"mobile", "write"} =>
       \A j \in DOMAIN rows : rows[j].aadhaar = req[s].change.aadhaar =>
         j \in req[s].matches \cup req[s].missed
  /\ req[s].op = "create" /\ req[s].phase = "write" =>
       \A j \in DOMAIN rows : rows[j].mobile = req[s].change.mobile =>
         j \in req[s].matches \cup req[s].missed
  /\ req[s].op = "update" /\ req[s].phase \in {"match", "write"} =>
       \A j \in DOMAIN rows \ {req[s].id} : rows[j].mobile = req[s].seen.mobile =>
         j \in req[s].missed \/ Covered(req[s].id, j)
  /\ req[s].op = "update" /\ req[s].phase = "write" /\ "mobile" \in DOMAIN req[s].change =>
       \A j \in DOMAIN rows \ {req[s].id} : rows[j].mobile = req[s].change.mobile =>
         j \in req[s].matches \cup req[s].missed \/ Covered(req[s].id, j)

\* What a caller has read is old, or it is what there is.
Seen(s) ==
  /\ page[s] # Absent =>
       /\ page[s].row.version \leq rows[page[s].id].version
       /\ page[s].row.version = rows[page[s].id].version =>
            \A f \in Texts : rows[page[s].id][f] = page[s].row[f]
  /\ req[s] # NoReq /\ req[s].op = "update" /\ req[s].phase # "audit" =>
       /\ req[s].expect \in Nat \ {0} /\ req[s].expect \leq rows[req[s].id].version
       /\ req[s].expect = rows[req[s].id].version =>
            \A f \in DOMAIN req[s].change : rows[req[s].id][f] = req[s].basis[f]

\* What a handler has checked still holds, or somebody wrote the row since.
Checked(s) == req[s] # NoReq =>
  /\ req[s].op = "blacklist" /\ req[s].phase = "write" =>
       rows[req[s].id].status = "active" \/ req[s].id \in req[s].missed
  /\ req[s].op = "reinstate" /\ req[s].phase = "write" =>
       rows[req[s].id].status = "blacklisted" \/ req[s].id \in req[s].missed
  /\ s \in FieldOfficers /\ req[s].op \in {"update"} \cup Relations
       /\ req[s].phase \in {"match", "write"} =>
       rows[req[s].id].officer = s \/ req[s].id \in req[s].missed

RegisterInvariant ==
  /\ Typed /\ LookAlikesAreTold
  /\ \A s \in Staff : Found(s) /\ Checked(s)
  /\ \A s \in ApiCallers : Seen(s)

\* LookAlikesAreTold says that pairs of look-alikes are covered.
LEMMA LookAlikesByCovered ==
  LookAlikesAreTold <=>
    \A i, j \in DOMAIN rows :
      i # j /\ (rows[i].aadhaar = rows[j].aadhaar \/ rows[i].mobile = rows[j].mobile)
        => Covered(i, j)
BY DEF LookAlikesAreTold, Covered

\* The order of a pair does not matter.
LEMMA CoveredBothWays ==
  ASSUME NEW i, NEW j
  PROVE  Covered(i, j) <=> Covered(j, i)
<1>1. {i, j} = {j, i}
  OBVIOUS
<1> QED
  BY <1>1 DEF Covered

\* What somebody is about to be told stays so until they are told or excused.
LEMMA CoveredKeeps ==
  ASSUME noticed \subseteq noticed', excused \subseteq excused',
         \A t \in Staff : req[t] # NoReq /\ req[t].phase = "audit" => req'[t] = req[t],
         NEW i, NEW j, Covered(i, j)
  PROVE  Covered(i, j)'
BY DEF Covered, Idle, Pairs

\* A pair that somebody was shown, or is about to be shown, stays covered.
LEMMA CoveredStays ==
  ASSUME Typed, NEW s \in Staff,
         \/ UNCHANGED <<req, noticed, excused>>
         \/ \E r : Asked(s, r)
         \/ \E q : Became(s, q)
         \/ \E i, q : Wrote(s, i, q)
         \/ Ended(s),
         NEW i, NEW j, Covered(i, j)
  PROVE  Covered(i, j)'
<1>1. CASE UNCHANGED <<req, noticed, excused>>
  BY <1>1, CoveredKeeps
<1>2. ASSUME NEW r, Asked(s, r) PROVE Covered(i, j)'
  <2>1. \A t \in Staff : t # s => req'[t] = req[t]
    BY <1>2 DEF Asked, Typed
  <2>2. req[s] = NoReq /\ UNCHANGED <<noticed, excused>>
    BY <1>2 DEF Asked
  <2> QED
    BY <2>1, <2>2, CoveredKeeps
<1>3. ASSUME NEW q, Became(s, q) PROVE Covered(i, j)'
  <2>1. \A t \in Staff : t # s => req'[t] = req[t]
    BY <1>3 DEF Became, Typed
  <2>2. req[s].phase # "audit" /\ UNCHANGED <<noticed, excused>>
    BY <1>3 DEF Became
  <2> QED
    BY <2>1, <2>2, CoveredKeeps
<1>4. ASSUME NEW k, NEW q, Wrote(s, k, q) PROVE Covered(i, j)'
  <2>1. \A t \in Staff : t # s => req'[t] = Noted(req[t], k)
    BY <1>4 DEF Wrote
  <2>2. req[s].phase # "audit" /\ UNCHANGED <<noticed, excused>>
    BY <1>4 DEF Wrote
  <2>3. \A t \in Staff : req[t].phase = "audit" => Noted(req[t], k) = req[t]
    BY DEF Noted
  <2> QED
    BY <2>1, <2>2, <2>3, CoveredKeeps
<1>5. CASE Ended(s)
  <2>1. \A t \in Staff : t # s => req'[t] = req[t]
    BY <1>5 DEF Ended, Typed
  <2>2. noticed \cup excused \subseteq noticed' \cup excused'
    BY <1>5 DEF Ended
  <2>3. CASE {i, j} \in noticed \cup excused
    BY <2>2, <2>3 DEF Covered
  <2>4. CASE {i, j} \notin noticed \cup excused
    <3>1. PICK t \in Staff : /\ ~Idle(t) /\ req[t].phase = "audit"
                             /\ {i, j} \in Pairs(t, req[t].matches \cup req[t].missed)
      BY <2>4 DEF Covered
    <3>2. CASE t = s
      <4>1. {i, j} \in noticed' \cup excused'
        BY <1>5, <3>1, <3>2 DEF Ended
      <4> QED
        BY <4>1 DEF Covered
    <3>3. CASE t # s
      BY <2>1, <3>1, <3>3 DEF Covered, Idle, Pairs
    <3> QED
      BY <3>2, <3>3
  <2> QED
    BY <2>3, <2>4
<1> QED
  BY <1>1, <1>2, <1>3, <1>4, <1>5

-----------------------------------------------------------------------------
(* What a write makes of the row, per statement. *)
LEMMA InsertedRow ==
  ASSUME NEW s \in Staff, NEW i, Insert(s, i)
  PROVE  /\ req[s] # NoReq /\ req[s].op = "create" /\ req[s].phase = "write"
         /\ rows'[i].aadhaar = req[s].change.aadhaar /\ rows'[i].mobile = req[s].change.mobile
BY DEF Insert, At, Idle, Row

\* What an edit does to its row.
LEMMA EditedRow ==
  ASSUME Typed, NEW s \in Staff, WriteEdit(s)
  PROVE  LET i == req[s].id
         IN  /\ req[s] # NoReq /\ req[s].op = "update" /\ req[s].phase = "write"
             /\ VersionHolds(s)
             /\ rows'[i].version = rows[i].version + 1
             /\ rows'[i].aadhaar = rows[i].aadhaar /\ rows'[i].status = rows[i].status
             /\ rows'[i].mobile = IF "mobile" \in DOMAIN req[s].change
                                  THEN req[s].change.mobile ELSE rows[i].mobile
<1>1. /\ req[s] # NoReq /\ req[s].op = "update" /\ req[s].phase = "write" /\ VersionHolds(s)
      /\ rows' = [rows EXCEPT ![req[s].id] = Edited(rows[req[s].id], req[s].change)]
  BY DEF WriteEdit, At, Idle
<1>2. req[s].id \in DOMAIN rows /\ DOMAIN req[s].change \subseteq Texts
  BY <1>1 DEF Typed, IsRequest
<1>3. rows[req[s].id] \in RowRecords
  BY <1>2 DEF Typed, RegisterTypeOK, RowRecords
<1>4. rows'[req[s].id] = Edited(rows[req[s].id], req[s].change)
  BY <1>1, <1>2
<1> QED
  BY <1>1, <1>2, <1>3, <1>4, EditedFields

\* What a verdict does to its row.
LEMMA DecidedRow ==
  ASSUME Typed, NEW s \in Staff, WriteBlacklist(s) \/ WriteReinstate(s)
  PROVE  LET i == req[s].id
         IN  /\ req[s] # NoReq /\ req[s].op \in {"blacklist", "reinstate"} /\ req[s].phase = "write"
             /\ \A f \in Texts \cup {"aadhaar", "version"} : rows'[i][f] = rows[i][f]
             /\ WriteBlacklist(s) => req[s].op = "blacklist" /\ rows'[i].status = "blacklisted"
             /\ WriteReinstate(s) => req[s].op = "reinstate" /\ rows'[i].status = "active"
<1>1. /\ req[s] # NoReq /\ req[s].op \in {"blacklist", "reinstate"} /\ req[s].phase = "write"
      /\ WriteBlacklist(s) => req[s].op = "blacklist"
      /\ WriteReinstate(s) => req[s].op = "reinstate"
  BY DEF WriteBlacklist, WriteReinstate, At, Idle
<1>2. req[s].id \in DOMAIN rows
  BY <1>1 DEF Typed, IsRequest
<1>3. rows[req[s].id] \in RowRecords
  BY <1>2 DEF Typed, RegisterTypeOK, RowRecords
<1>4. CASE WriteBlacklist(s)
  <2>1. rows'[req[s].id] = Blacklisted(rows[req[s].id], s) /\ ~WriteReinstate(s)
    BY <1>2, <1>4 DEF WriteBlacklist, WriteReinstate, At
  <2> QED
    BY <1>1, <1>3, <1>4, <2>1 DEF Blacklisted, RowRecords, Texts, Fields
<1>5. CASE WriteReinstate(s)
  <2>1. rows'[req[s].id] = Reinstated(rows[req[s].id]) /\ ~WriteBlacklist(s)
    BY <1>2, <1>5 DEF WriteBlacklist, WriteReinstate, At
  <2> QED
    BY <1>1, <1>3, <1>5, <2>1 DEF Reinstated, RowRecords, Texts, Fields
<1> QED
  BY <1>4, <1>5

-----------------------------------------------------------------------------
(* Whoever does not move. *)
LEMMA UntouchedKeeps ==
  ASSUME Typed, NEW t \in Staff, Found(t), Checked(t), UNCHANGED rows, req'[t] = req[t],
         \A i, j : Covered(i, j) => Covered(i, j)'
  PROVE  Found(t)' /\ Checked(t)'
<1>1. Checked(t)'
  BY DEF Checked
<1>2. ASSUME req[t] # NoReq PROVE Found(t)'
  <2> DEFINE r == req[t]
  <2>1. r = req'[t]
    OBVIOUS
  <2>2. r.op = "create" /\ r.phase \in {"mobile", "write"} =>
          \A j \in DOMAIN rows : rows[j].aadhaar = r.change.aadhaar => j \in r.matches \cup r.missed
    BY <1>2 DEF Found
  <2>3. r.op = "create" /\ r.phase = "write" =>
          \A j \in DOMAIN rows : rows[j].mobile = r.change.mobile => j \in r.matches \cup r.missed
    BY <1>2 DEF Found
  <2>4. r.op = "update" /\ r.phase \in {"match", "write"} =>
          \A j \in DOMAIN rows \ {r.id} : rows[j].mobile = r.seen.mobile =>
            j \in r.missed \/ Covered(r.id, j)'
    BY <1>2 DEF Found
  <2>5. r.op = "update" /\ r.phase = "write" /\ "mobile" \in DOMAIN r.change =>
          \A j \in DOMAIN rows \ {r.id} : rows[j].mobile = r.change.mobile =>
            j \in r.matches \cup r.missed \/ Covered(r.id, j)'
    BY <1>2 DEF Found
  <2> QED
    BY <2>1, <2>2, <2>3, <2>4, <2>5 DEF Found
<1> QED
  BY <1>1, <1>2 DEF Found

\* Look-alikes stay noticed while the rows stay and what is covered stays covered.
LEMMA UntouchedLookAlikes ==
  ASSUME LookAlikesAreTold, UNCHANGED rows, \A i, j : Covered(i, j) => Covered(i, j)'
  PROVE  LookAlikesAreTold'
<1>1. \A i, j \in DOMAIN rows :
        i # j /\ (rows[i].aadhaar = rows[j].aadhaar \/ rows[i].mobile = rows[j].mobile)
          => Covered(i, j)'
  BY LookAlikesByCovered
<1>2. LookAlikesAreTold' <=>
        \A i, j \in DOMAIN rows' :
          i # j /\ (rows'[i].aadhaar = rows'[j].aadhaar \/ rows'[i].mobile = rows'[j].mobile)
            => Covered(i, j)'
  BY DEF LookAlikesAreTold, Covered
<1> QED
  BY <1>1, <1>2

\* What a caller has seen stays true while its row and its request stay.
LEMMA UntouchedSeen ==
  ASSUME NEW t \in ApiCallers, Seen(t), UNCHANGED rows, req'[t] = req[t], page'[t] = page[t]
  PROVE  Seen(t)'
BY DEF Seen

\* Whoever is under way when another writes a row has missed it.
LEMMA OvertakenKeeps ==
  ASSUME Typed, NEW s \in Staff, NEW t \in Staff, t # s, Found(t), Checked(t),
         NEW i, NEW q, Wrote(s, i, q),
         \A k, j : Covered(k, j) => Covered(k, j)'
  PROVE  Found(t)' /\ Checked(t)'
<1>1. /\ i \in Ids /\ req'[t] = Noted(req[t], i)
      /\ DOMAIN rows' = DOMAIN rows \cup {i}
      /\ \A j \in DOMAIN rows : j # i => rows'[j] = rows[j]
  BY DEF Wrote
<1>2. /\ req'[t] = NoReq <=> req[t] = NoReq
      /\ req[t] # NoReq =>
           /\ req'[t].op = req[t].op /\ req'[t].phase = req[t].phase
           /\ req'[t].id = req[t].id /\ req'[t].change = req[t].change
           /\ req'[t].seen = req[t].seen /\ req'[t].matches = req[t].matches
           /\ req[t].missed \subseteq req'[t].missed
           /\ req[t].phase \notin {"read", "audit"} => i \in req'[t].missed
  <2> DEFINE m == Noted(req[t], i)
  <2>1. /\ m = NoReq <=> req[t] = NoReq
        /\ req[t] # NoReq =>
             /\ m.op = req[t].op /\ m.phase = req[t].phase
             /\ m.id = req[t].id /\ m.change = req[t].change
             /\ m.seen = req[t].seen /\ m.matches = req[t].matches
             /\ m.missed = IF req[t].phase \notin {"read", "audit"}
                           THEN req[t].missed \cup {i} ELSE req[t].missed
    BY <1>1, NotedIs
  <2>2. req'[t] = m
    BY <1>1
  <2> HIDE DEF m
  <2> QED
    BY <2>1, <2>2
<1>3. CASE req[t] = NoReq
  BY <1>2, <1>3 DEF Found, Checked
<1>4. CASE req[t] # NoReq
  <2> DEFINE r == req[t]
             n == req'[t].missed
  <2>0. PICK k : k = req[t].id
    OBVIOUS
  <2>1. r.missed \subseteq n /\ (r.phase \notin {"read", "audit"} => i \in n)
    BY <1>2, <1>4
  <2> HIDE DEF n
  <2>2. r.op = "create" /\ r.phase \in {"mobile", "write"} =>
          \A j \in DOMAIN rows' : rows'[j].aadhaar = r.change.aadhaar => j \in r.matches \cup n
    BY <1>1, <1>4, <2>1 DEF Found
  <2>3. r.op = "create" /\ r.phase = "write" =>
          \A j \in DOMAIN rows' : rows'[j].mobile = r.change.mobile => j \in r.matches \cup n
    BY <1>1, <1>4, <2>1 DEF Found
  <2>4. r.op = "update" /\ r.phase \in {"match", "write"} =>
          \A j \in DOMAIN rows' \ {r.id} : rows'[j].mobile = r.seen.mobile =>
            j \in n \/ Covered(k, j)'
    <3> SUFFICES ASSUME r.op = "update", r.phase \in {"match", "write"},
                        NEW j \in DOMAIN rows' \ {r.id}, rows'[j].mobile = r.seen.mobile
                 PROVE  j \in n \/ Covered(k, j)'
      OBVIOUS
    <3>1. CASE j = i
      BY <2>1, <3>1
    <3>2. CASE j # i
      <4>1. j \in r.missed \/ Covered(k, j)
        BY <1>1, <1>4, <2>0, <3>2 DEF Found
      <4> QED
        BY <2>1, <4>1
    <3> QED
      BY <3>1, <3>2
  <2>5. r.op = "update" /\ r.phase = "write" /\ "mobile" \in DOMAIN r.change =>
          \A j \in DOMAIN rows' \ {r.id} : rows'[j].mobile = r.change.mobile =>
            j \in r.matches \cup n \/ Covered(k, j)'
    <3> SUFFICES ASSUME r.op = "update", r.phase = "write", "mobile" \in DOMAIN r.change,
                        NEW j \in DOMAIN rows' \ {r.id}, rows'[j].mobile = r.change.mobile
                 PROVE  j \in r.matches \cup n \/ Covered(k, j)'
      OBVIOUS
    <3>1. CASE j = i
      BY <2>1, <3>1
    <3>2. CASE j # i
      <4>1. j \in r.matches \cup r.missed \/ Covered(k, j)
        BY <1>1, <1>4, <2>0, <3>2 DEF Found
      <4> QED
        BY <2>1, <4>1
    <3> QED
      BY <3>1, <3>2
  <2>6. Found(t)'
    BY <1>2, <1>4, <2>0, <2>2, <2>3, <2>4, <2>5 DEF Found, n
  <2>7. r.id \in DOMAIN rows \/ r.op = "create"
    BY <1>4 DEF Typed, IsRequest
  <2>8. Checked(t)'
    BY <1>1, <1>2, <1>4, <2>7 DEF Checked, Relations
  <2> QED
    BY <2>6, <2>8
<1> QED
  BY <1>3, <1>4

\* A row that is written has a later version, or the same texts.
LEMMA OvertakenSeen ==
  ASSUME Typed, NEW s \in Staff, NEW t \in ApiCallers, t # s, Seen(t),
         NEW i, NEW q, Wrote(s, i, q),
         i \in DOMAIN rows =>
           \/ rows'[i].version = rows[i].version + 1
           \/ rows'[i].version = rows[i].version /\ \A f \in Texts : rows'[i][f] = rows[i][f]
  PROVE  Seen(t)'
<1>1. /\ i \in Ids /\ req'[t] = Noted(req[t], i) /\ page' = page /\ t \in Staff
      /\ \A j \in DOMAIN rows : j # i => rows'[j] = rows[j]
  BY DEF Wrote, Typed, StaffAssumption
<1>2. /\ req'[t] = NoReq <=> req[t] = NoReq
      /\ req[t] # NoReq =>
           /\ req'[t].op = req[t].op /\ req'[t].phase = req[t].phase
           /\ req'[t].id = req[t].id /\ req'[t].change = req[t].change
           /\ req'[t].expect = req[t].expect /\ req'[t].basis = req[t].basis
  <2> DEFINE m == Noted(req[t], i)
  <2>1. /\ m = NoReq <=> req[t] = NoReq
        /\ req[t] # NoReq =>
             /\ m.op = req[t].op /\ m.phase = req[t].phase
             /\ m.id = req[t].id /\ m.change = req[t].change
             /\ m.expect = req[t].expect /\ m.basis = req[t].basis
    BY <1>1, NotedIs
  <2>2. req'[t] = m
    BY <1>1
  <2> HIDE DEF m
  <2> QED
    BY <2>1, <2>2
<1>3. ASSUME NEW j \in DOMAIN rows
      PROVE  /\ rows[j].version \in Nat
             /\ \/ rows'[j].version = rows[j].version + 1
                \/ rows'[j].version = rows[j].version /\ \A f \in Texts : rows'[j][f] = rows[j][f]
  BY <1>1 DEF Typed, RegisterTypeOK
<1>4. ASSUME page[t] # Absent
      PROVE  /\ page[t].row.version \leq rows'[page[t].id].version
             /\ page[t].row.version = rows'[page[t].id].version =>
                  \A f \in Texts : rows'[page[t].id][f] = page[t].row[f]
  <2>1. page[t].id \in DOMAIN rows /\ page[t].row.version \in Nat
    BY <1>1, <1>4 DEF Typed, IsPage, RowRecords
  <2> QED
    BY <1>3, <1>4, <2>1 DEF Seen
<1>5. ASSUME req[t] # NoReq, req[t].op = "update", req[t].phase # "audit"
      PROVE  /\ req[t].expect \in Nat \ {0} /\ req[t].expect \leq rows'[req[t].id].version
             /\ req[t].expect = rows'[req[t].id].version =>
                  \A f \in DOMAIN req[t].change : rows'[req[t].id][f] = req[t].basis[f]
  <2>1. req[t].id \in DOMAIN rows /\ DOMAIN req[t].change \subseteq Texts
    BY <1>1, <1>5 DEF Typed, IsRequest
  <2>2. /\ req[t].expect \in Nat \ {0} /\ req[t].expect \leq rows[req[t].id].version
        /\ req[t].expect = rows[req[t].id].version =>
             \A f \in DOMAIN req[t].change : rows[req[t].id][f] = req[t].basis[f]
    BY <1>5 DEF Seen
  <2> QED
    BY <1>3, <2>1, <2>2
<1> QED
  BY <1>1, <1>2, <1>4, <1>5 DEF Seen

-----------------------------------------------------------------------------
(* Each kind of step keeps the invariant of the register. *)
LEMMA LookingLeaves ==
  ASSUME Typed, NEW s \in Staff, Looking(s)
  PROVE  /\ UNCHANGED <<rows, req, noticed, excused>>
         /\ \A t \in Staff : t # s => page'[t] = page[t]
         /\ s \in ApiCallers =>
              \/ page'[s] = page[s]
               \/ \E i \in DOMAIN rows : page'[s] = [id |-> i, row |-> rows[i], form |-> Absent]
<1>1. UNCHANGED <<rows, req, noticed, excused>>
  BY DEF Looking, OpenRow, CallRead, Refetch, OpenEdit, CancelEdit, SaveNothing, Acknowledge, Type
<1>2. page = [t \in Staff |-> page[t]]
  BY DEF Typed
<1>3. page' = page \/ \E p : page' = [page EXCEPT ![s] = p]
  BY DEF Looking, OpenRow, CallRead, Refetch, OpenEdit, CancelEdit, SaveNothing, Acknowledge, Type
<1>4. ASSUME s \in ApiCallers
      PROVE  page'[s] = page[s]
               \/ \E i \in DOMAIN rows : page'[s] = [id |-> i, row |-> rows[i], form |-> Absent]
  <2>1. page[s] # Absent => page[s].form = Absent
    BY <1>4 DEF Typed
  <2>2. ~Refetch(s) /\ ~OpenEdit(s) /\ \A i \in Ids : ~OpenRow(s, i)
    BY <1>4 DEF OpenRow, Refetch, OpenEdit
  <2>3. ~Editing(s)
    BY <2>1 DEF Editing, Showing
  <2>4. ~CancelEdit(s) /\ ~SaveNothing(s) /\ \A f, v : ~Type(s, f, v)
    BY <2>3 DEF CancelEdit, SaveNothing, Type
  <2>5. Acknowledge(s) \/ \E i \in Ids : CallRead(s, i)
    BY <2>2, <2>4 DEF Looking
  <2> QED
    BY <1>2, <2>5 DEF Acknowledge, CallRead
<1> QED
  BY <1>1, <1>2, <1>3, <1>4

\* Opening, closing and typing on the page keep the invariant.
LEMMA LookingKeeps ==
  ASSUME RegisterInvariant, NEW s \in Staff, Looking(s)
  PROVE  RegisterInvariant'
<1>1. /\ Typed /\ LookAlikesAreTold
      /\ \A t \in Staff : Found(t) /\ Checked(t)
      /\ \A t \in ApiCallers : Seen(t) /\ t \in Staff
  BY DEF RegisterInvariant, Typed, StaffAssumption
<1>2. /\ UNCHANGED <<rows, req, noticed, excused>>
      /\ \A t \in Staff : t # s => page'[t] = page[t]
      /\ s \in ApiCallers =>
           \/ page'[s] = page[s]
               \/ \E i \in DOMAIN rows : page'[s] = [id |-> i, row |-> rows[i], form |-> Absent]
  BY <1>1, LookingLeaves
<1>3. \A i, j : Covered(i, j) => Covered(i, j)'
  BY <1>1, <1>2, CoveredStays
<1>4. \A t \in Staff : Found(t)' /\ Checked(t)'
  BY <1>1, <1>2, <1>3, UntouchedKeeps
<1>5. LookAlikesAreTold'
  BY <1>1, <1>2, <1>3, UntouchedLookAlikes
<1>6. ASSUME NEW t \in ApiCallers PROVE Seen(t)'
  <2>1. CASE page'[t] = page[t]
    BY <1>1, <1>2, <2>1, UntouchedSeen
  <2>2. ASSUME NEW i \in DOMAIN rows, page'[t] = [id |-> i, row |-> rows[i], form |-> Absent]
        PROVE  Seen(t)'
    <3>1. page'[t].id = i /\ page'[t].row = rows[i] /\ rows[i].version \in Nat
      BY <1>1, <2>2 DEF Typed, RegisterTypeOK
    <3>2. /\ page'[t].row.version \leq rows'[page'[t].id].version
          /\ \A f \in Texts : rows'[page'[t].id][f] = page'[t].row[f]
      BY <1>2, <3>1
    <3> QED
      BY <1>1, <1>2, <3>2 DEF Seen
  <2> QED
    BY <1>1, <1>2, <2>1, <2>2
<1>7. Typed'
  BY <1>1, LookingTyped
<1> QED
  BY <1>4, <1>5, <1>6, <1>7 DEF RegisterInvariant

\* A new request has read nothing and so has nothing to be wrong about.
LEMMA AskedKeeps ==
  ASSUME RegisterInvariant, NEW s \in Staff, NEW r, Asked(s, r)
  PROVE  RegisterInvariant'
<1>1. /\ Typed /\ LookAlikesAreTold
      /\ \A t \in Staff : Found(t) /\ Checked(t)
      /\ \A t \in ApiCallers : Seen(t) /\ t \in Staff
  BY DEF RegisterInvariant, Typed, StaffAssumption
<1>2. /\ UNCHANGED <<rows, page>> /\ req'[s] = r /\ r.phase = "read"
      /\ \A t \in Staff : t # s => req'[t] = req[t]
  BY <1>1 DEF Asked, Typed
<1>3. \A i, j : Covered(i, j) => Covered(i, j)'
  BY <1>1, CoveredStays
<1>4. ASSUME NEW t \in Staff PROVE Found(t)' /\ Checked(t)'
  <2>1. CASE t = s
    BY <1>2, <2>1 DEF Found, Checked
  <2>2. CASE t # s
    BY <1>1, <1>2, <1>3, <2>2, UntouchedKeeps
  <2> QED
    BY <2>1, <2>2
<1>5. LookAlikesAreTold'
  BY <1>1, <1>2, <1>3, UntouchedLookAlikes
<1>6. ASSUME NEW t \in ApiCallers PROVE Seen(t)'
  <2>1. CASE t = s
    <3>1. r.op = "update" =>
            /\ page[s] # Absent
            /\ r.id = page[s].id /\ r.expect = page[s].row.version
            /\ \A f \in DOMAIN r.change : f \in Texts /\ r.basis[f] = page[s].row[f]
      BY <2>1 DEF Asked
    <3>2. page[s] # Absent => page[s].row.version \in Nat \ {0}
      BY <1>1 DEF Typed, IsPage, RowRecords
    <3>3. page[s] # Absent =>
            /\ page[s].row.version \leq rows[page[s].id].version
            /\ page[s].row.version = rows[page[s].id].version =>
                 \A f \in Texts : rows[page[s].id][f] = page[s].row[f]
      BY <1>1, <2>1 DEF Seen
    <3>4. r.op = "update" =>
            /\ r.expect \in Nat \ {0} /\ r.expect \leq rows[r.id].version
            /\ r.expect = rows[r.id].version =>
                 \A f \in DOMAIN r.change : rows[r.id][f] = r.basis[f]
      BY <3>1, <3>2, <3>3
    <3> QED
      BY <1>2, <2>1, <3>3, <3>4 DEF Seen
  <2>2. CASE t # s
    BY <1>1, <1>2, <2>2, UntouchedSeen
  <2> QED
    BY <2>1, <2>2
<1>7. Typed'
  BY <1>1, AskedTyped
<1> QED
  BY <1>4, <1>5, <1>6, <1>7 DEF RegisterInvariant

\* The end of a request keeps the invariant: its pairs are told or excused.
LEMMA EndedKeeps ==
  ASSUME RegisterInvariant, NEW s \in Staff, Ended(s)
  PROVE  RegisterInvariant'
<1>1. /\ Typed /\ LookAlikesAreTold
      /\ \A t \in Staff : Found(t) /\ Checked(t)
      /\ \A t \in ApiCallers : Seen(t) /\ t \in Staff
  BY DEF RegisterInvariant, Typed, StaffAssumption
<1>2. /\ UNCHANGED rows /\ req'[s] = NoReq
      /\ \A t \in Staff : t # s => req'[t] = req[t] /\ page'[t] = page[t]
      /\ page'[s] = page[s] \/ page'[s] = [page[s] EXCEPT !.form = Absent]
  BY <1>1 DEF Ended, Typed
<1>3. \A i, j : Covered(i, j) => Covered(i, j)'
  BY <1>1, CoveredStays
<1>4. ASSUME NEW t \in Staff PROVE Found(t)' /\ Checked(t)'
  <2>1. CASE t = s
    BY <1>2, <2>1 DEF Found, Checked
  <2>2. CASE t # s
    BY <1>1, <1>2, <1>3, <2>2, UntouchedKeeps
  <2> QED
    BY <2>1, <2>2
<1>5. LookAlikesAreTold'
  BY <1>1, <1>2, <1>3, UntouchedLookAlikes
<1>6. ASSUME NEW t \in ApiCallers PROVE Seen(t)'
  <2>1. CASE t = s
    <3>1. CASE page[s] = Absent
      <4>1. page'[s] = Absent
        BY <1>2, <3>1 DEF Absent
      <4> QED
        BY <1>2, <2>1, <4>1 DEF Seen
    <3>2. CASE page[s] # Absent
      <4>1. IsPage(page[s], DOMAIN rows)
        BY <1>1, <3>2 DEF Typed
      <4>2. page'[s].id = page[s].id /\ page'[s].row = page[s].row
        BY <1>2, <4>1 DEF IsPage
      <4>3. /\ page[s].row.version \leq rows[page[s].id].version
            /\ page[s].row.version = rows[page[s].id].version =>
                 \A f \in Texts : rows[page[s].id][f] = page[s].row[f]
        BY <1>1, <2>1, <3>2 DEF Seen
      <4> QED
        BY <1>2, <2>1, <4>2, <4>3 DEF Seen
    <3> QED
      BY <3>1, <3>2
  <2>2. CASE t # s
    BY <1>1, <1>2, <2>2, UntouchedSeen
  <2> QED
    BY <2>1, <2>2
<1>7. Typed'
  BY <1>1, EndedTyped
<1> QED
  BY <1>4, <1>5, <1>6, <1>7 DEF RegisterInvariant

\* Reading finds who is alike, or what must be checked.
LEMMA ReadingFinds ==
  ASSUME Typed, LookAlikesAreTold, NEW s \in Staff, Found(s), Reading(s), NEW q, Became(s, q),
         q.phase = NextPhase(req[s]), q.matches = req[s].matches \cup MatchedBy(s),
         IF req[s].phase = "read" /\ req[s].op # "create"
           THEN q.seen = rows[req[s].id] ELSE q.seen = req[s].seen,
         req[s].op = "create" => req[s].phase \in {"read", "mobile"},
         req[s].op # "create" =>
           req[s].phase = "read" \/ (req[s].op = "update" /\ req[s].phase = "match"),
         \A i, j : Covered(i, j) => Covered(i, j)'
  PROVE  Found(s)'
<1>1. PICK r : r = req[s]
  OBVIOUS
<1>2. /\ r # NoReq /\ req'[s] = q /\ rows' = rows
      /\ q.op = r.op /\ q.id = r.id /\ q.change = r.change /\ q.missed = r.missed
      /\ r.matches \subseteq q.matches /\ IsRequest(r, DOMAIN rows)
  BY <1>1 DEF Became, Same, Typed
<1>3. ASSUME r.op = "create", r.phase = "read" PROVE Found(s)'
  <2>1. q.phase = "mobile"
    BY <1>1, <1>3 DEF NextPhase
  <2>2. MatchedBy(s) = ByAadhaar(r.change.aadhaar)
    BY <1>1, <1>3 DEF MatchedBy
  <2>3. \A j \in DOMAIN rows : rows[j].aadhaar = r.change.aadhaar => j \in q.matches
    BY <2>2 DEF ByAadhaar
  <2> QED
    BY <1>2, <1>3, <2>1, <2>3 DEF Found
<1>4. ASSUME r.op = "create", r.phase = "mobile" PROVE Found(s)'
  <2>2. MatchedBy(s) = ByMobile(r.change.mobile)
    BY <1>1, <1>4 DEF MatchedBy
  <2>3. \A j \in DOMAIN rows : rows[j].mobile = r.change.mobile => j \in q.matches
    BY <2>2 DEF ByMobile
  <2>4. \A j \in DOMAIN rows : rows[j].aadhaar = r.change.aadhaar => j \in q.matches \cup q.missed
    BY <1>1, <1>2, <1>4 DEF Found
  <2> QED
    BY <1>2, <1>4, <2>3, <2>4 DEF Found
<1>5. ASSUME r.op = "update", r.phase = "read" PROVE Found(s)'
  <2>1. q.phase = "match"
    BY <1>1, <1>5 DEF NextPhase
  <2>2. q.seen = rows[r.id] /\ r.id \in DOMAIN rows
    BY <1>1, <1>2, <1>5 DEF IsRequest
  <2>3. \A j \in DOMAIN rows \ {r.id} : rows[j].mobile = rows[r.id].mobile => Covered(r.id, j)
    BY <2>2, LookAlikesByCovered
  <2>4. \A j \in DOMAIN rows \ {r.id} : rows[j].mobile = q.seen.mobile => Covered(r.id, j)'
    BY <2>2, <2>3
  <2> QED
    BY <1>2, <1>5, <2>1, <2>4 DEF Found
<1>6. ASSUME r.op = "update", r.phase = "match" PROVE Found(s)'
  <2>1. q.seen = r.seen
    BY <1>1, <1>6
  <2>2. \A j \in DOMAIN rows \ {r.id} : rows[j].mobile = r.seen.mobile =>
          j \in r.missed \/ Covered(r.id, j)'
    BY <1>1, <1>2, <1>6 DEF Found
  <2>3. ASSUME "mobile" \in DOMAIN r.change
        PROVE  \A j \in DOMAIN rows \ {r.id} : rows[j].mobile = r.change.mobile =>
                 j \in q.matches \cup r.missed \/ Covered(r.id, j)'
    <3>1. CASE r.change.mobile = r.seen.mobile
      BY <2>2, <3>1
    <3>2. CASE r.change.mobile # r.seen.mobile
      <4>1. MatchedBy(s) = ByMobile(r.change.mobile) \ {r.id}
        BY <1>1, <1>6, <2>3, <3>2 DEF MatchedBy
      <4>2. \A j \in DOMAIN rows \ {r.id} : rows[j].mobile = r.change.mobile => j \in q.matches
        BY <4>1 DEF ByMobile
      <4> QED
        BY <4>2
    <3> QED
      BY <3>1, <3>2
  <2> QED
    BY <1>2, <1>6, <2>1, <2>2, <2>3 DEF Found
<1>7. ASSUME r.op \notin {"create", "update"} PROVE Found(s)'
  BY <1>2, <1>7 DEF Found
<1> QED
  BY <1>1, <1>3, <1>4, <1>5, <1>6, <1>7

\* What a handler has just read, it knows.
LEMMA ReadingChecks ==
  ASSUME Typed, NEW s \in Staff, Checked(s), Reading(s), NEW q, Became(s, q),
         req[s].phase = "read" /\ req[s].op # "create" => ReadRow(s),
         req[s].op # "create" =>
           req[s].phase = "read" \/ (req[s].op = "update" /\ req[s].phase = "match")
  PROVE  Checked(s)'
<1>1. PICK r : r = req[s]
  OBVIOUS
<1>2. /\ r # NoReq /\ req'[s] = q /\ rows' = rows
      /\ q.op = r.op /\ q.id = r.id /\ q.missed = r.missed
      /\ IsRequest(r, DOMAIN rows)
  BY <1>1 DEF Became, Same, Typed
<1>3. CASE r.op = "create"
  BY <1>2, <1>3 DEF Checked, Relations
<1>4. ASSUME r.op # "create", r.phase = "read" PROVE Checked(s)'
  <2>1. ~WriteRefused(s)
    BY <1>1, <1>4 DEF ReadRow
  <2>2. r.id \in DOMAIN rows
    BY <1>2, <1>4 DEF IsRequest
  <2>3. rows[r.id].status \in {"active", "blacklisted"}
    BY <2>2 DEF Typed, RegisterTypeOK
  <2>4. /\ r.op = "blacklist" => rows[r.id].status = "active"
        /\ r.op = "reinstate" => rows[r.id].status = "blacklisted"
        /\ r.op \in {"update"} \cup Relations /\ s \in FieldOfficers => rows[r.id].officer = s
    BY <1>1, <2>1, <2>3 DEF WriteRefused, InScope
  <2> QED
    BY <1>2, <2>4 DEF Checked
<1>5. ASSUME r.op = "update", r.phase = "match" PROVE Checked(s)'
  <2>1. s \in FieldOfficers => rows[r.id].officer = s \/ r.id \in r.missed
    BY <1>1, <1>2, <1>5 DEF Checked
  <2> QED
    BY <1>2, <1>5, <2>1 DEF Checked
<1> QED
  BY <1>1, <1>3, <1>4, <1>5

\* The version a caller sent stays with the request.
LEMMA BecameSeen ==
  ASSUME NEW s \in ApiCallers, Seen(s), NEW q, Became(s, q), req'[s] = q
  PROVE  Seen(s)'
<1>1. PICK r : r = req[s]
  OBVIOUS
<1>2. /\ r # NoReq /\ r.phase # "audit" /\ UNCHANGED <<rows, page>>
      /\ q.op = r.op /\ q.id = r.id /\ q.change = r.change /\ q.expect = r.expect
      /\ q.basis = r.basis
  BY <1>1 DEF Became, Same
<1>3. r.op = "update" =>
        /\ r.expect \in Nat \ {0} /\ r.expect \leq rows[r.id].version
        /\ r.expect = rows[r.id].version =>
             \A f \in DOMAIN r.change : rows[r.id][f] = r.basis[f]
  BY <1>1, <1>2 DEF Seen
<1>4. page[s] # Absent =>
        /\ page[s].row.version \leq rows[page[s].id].version
        /\ page[s].row.version = rows[page[s].id].version =>
             \A f \in Texts : rows[page[s].id][f] = page[s].row[f]
  BY DEF Seen
<1> QED
  BY <1>2, <1>3, <1>4 DEF Seen

\* Moving a request on keeps what concerns the other requests.
LEMMA BecameKeeps ==
  ASSUME RegisterInvariant, NEW s \in Staff, NEW q, Became(s, q), Found(s)', Checked(s)', Typed'
  PROVE  RegisterInvariant'
<1>1. /\ Typed /\ LookAlikesAreTold
      /\ \A t \in Staff : Found(t) /\ Checked(t)
      /\ \A t \in ApiCallers : Seen(t) /\ t \in Staff
  BY DEF RegisterInvariant, Typed, StaffAssumption
<1>2. /\ UNCHANGED <<rows, page>> /\ req'[s] = q
      /\ \A t \in Staff : t # s => req'[t] = req[t]
  BY <1>1 DEF Became, Typed
<1>3. \A i, j : Covered(i, j) => Covered(i, j)'
  BY <1>1, CoveredStays
<1>4. ASSUME NEW t \in Staff PROVE Found(t)' /\ Checked(t)'
  <2>1. CASE t # s
    BY <1>1, <1>2, <1>3, <2>1, UntouchedKeeps
  <2> QED
    BY <2>1
<1>5. LookAlikesAreTold'
  BY <1>1, <1>2, <1>3, UntouchedLookAlikes
<1>6. ASSUME NEW t \in ApiCallers PROVE Seen(t)'
  <2>1. CASE t = s
    BY <1>1, <1>2, <2>1, BecameSeen
  <2>2. CASE t # s
    BY <1>1, <1>2, <2>2, UntouchedSeen
  <2> QED
    BY <2>1, <2>2
<1> QED
  BY <1>4, <1>5, <1>6 DEF RegisterInvariant

\* A read of a handler keeps the invariant.
LEMMA ReadingKeeps ==
  ASSUME RegisterInvariant, NEW s \in Staff, Reading(s)
  PROVE  RegisterInvariant'
<1>1. Typed /\ LookAlikesAreTold /\ Found(s) /\ Checked(s)
  BY DEF RegisterInvariant
<1>2. PICK q : /\ Became(s, q)
               /\ people' = people
               /\ q.phase = NextPhase(req[s]) /\ q.phase # "audit"
               /\ q.matches = req[s].matches \cup MatchedBy(s)
               /\ IF req[s].phase = "read" /\ req[s].op # "create"
                  THEN ReadRow(s) /\ q.seen = rows[req[s].id] ELSE q.seen = req[s].seen
               /\ req[s].op = "create" => req[s].phase \in {"read", "mobile"}
               /\ req[s].op # "create" =>
                    req[s].phase = "read" \/ (req[s].op = "update" /\ req[s].phase = "match")
  BY <1>1, ReadingBecomes
<1>3. \A i, j : Covered(i, j) => Covered(i, j)'
  BY <1>1, <1>2, CoveredStays
<1>4. Found(s)'
  BY <1>1, <1>2, <1>3, ReadingFinds
<1>5. Checked(s)'
  BY <1>1, <1>2, ReadingChecks
<1>6. Typed'
  <2>1. people' \in [Ids -> [Relations -> Nat]]
    BY <1>1, <1>2 DEF Typed, RegisterTypeOK
  <2> QED
    BY <1>1, <1>2, <2>1, BecameTyped
<1> QED
  BY <1>2, <1>4, <1>5, <1>6, BecameKeeps

\* Inserting a relation keeps the invariant.
LEMMA InsertingKeeps ==
  ASSUME RegisterInvariant, NEW s \in Staff, Inserting(s)
  PROVE  RegisterInvariant'
<1>1. Typed
  BY DEF RegisterInvariant
<1>2. PICK q : /\ Became(s, q) /\ q.phase = "audit"
               /\ req[s].op \in Relations
               /\ people' \in [Ids -> [Relations -> Nat]]
  BY <1>1, InsertingBecomes
<1>3. req'[s] = q
  BY <1>1, <1>2 DEF Became, Typed
<1>4. Found(s)' /\ Checked(s)'
  BY <1>2, <1>3 DEF Found, Checked
<1>5. req[s].op # "create"
  BY <1>2 DEF Relations
<1>6. Typed'
  BY <1>1, <1>2, <1>5, BecameTyped
<1> QED
  BY <1>2, <1>4, <1>6, BecameKeeps

\* A row that was just written is like those its handler found, or missed, or
\* those it was like before.
LEMMA WrittenIsCovered ==
  ASSUME Typed, LookAlikesAreTold, NEW s \in Staff, Found(s), NEW i, NEW q, Wrote(s, i, q),
         \/ Insert(s, i) /\ i \notin DOMAIN rows /\ req[s].op = "create"
         \/ /\ i = req[s].id /\ i \in DOMAIN rows
            /\ WriteEdit(s) \/ WriteBlacklist(s) \/ WriteReinstate(s),
         \A k, j : Covered(k, j) => Covered(k, j)',
         NEW j \in DOMAIN rows, j # i,
         rows'[i].aadhaar = rows'[j].aadhaar \/ rows'[i].mobile = rows'[j].mobile
  PROVE  Covered(i, j)'
<1>1. PICK r : r = req[s]
  OBVIOUS
<1>2. /\ r # NoReq /\ r.phase = "write" /\ req'[s] = q /\ IsRequest(r, DOMAIN rows)
      /\ q.phase = "audit" /\ q.matches = r.matches /\ Same(q, [r EXCEPT !.id = i])
  BY <1>1 DEF Wrote, Typed
<1>3. q.op = r.op /\ q.id = i /\ q.missed = r.missed
  <2> DEFINE m == [r EXCEPT !.id = i]
  <2>1. m.op = r.op /\ m.id = i /\ m.missed = r.missed
    <3>1. r = [f \in RequestFields |-> r[f]]
      BY <1>2 DEF IsRequest
    <3> QED
      BY <3>1 DEF RequestFields
  <2>2. Same(q, m)
    BY <1>2
  <2> HIDE DEF m
  <2> QED
    BY <2>1, <2>2 DEF Same
<1>4. q # NoReq
  <2>1. q.op \in Ops
    BY <1>2, <1>3 DEF IsRequest
  <2>2. NoReq.op = "none"
    BY DEF NoReq
  <2>3. "none" \notin Ops
    BY DEF Ops, Relations
  <2> QED
    BY <2>1, <2>2, <2>3
<1>5. ASSUME j \in r.matches \cup r.missed PROVE Covered(i, j)'
  <2>1. {i, j} \in Pairs(s, req[s].matches \cup req[s].missed)'
    BY <1>2, <1>3, <1>5 DEF Pairs
  <2> QED
    BY <1>2, <1>4, <2>1 DEF Covered, Idle
<1>6. rows'[j] = rows[j]
  BY DEF Wrote
<1>7. ASSUME i \in DOMAIN rows, rows[i].aadhaar = rows[j].aadhaar \/ rows[i].mobile = rows[j].mobile
      PROVE  Covered(i, j)'
  <2>1. Covered(i, j)
    BY <1>7, LookAlikesByCovered
  <2> QED
    BY <2>1
<1>8. CASE Insert(s, i) /\ req[s].op = "create"
  <2>1. rows'[i].aadhaar = r.change.aadhaar /\ rows'[i].mobile = r.change.mobile
    BY <1>1, <1>8, InsertedRow
  <2>2. j \in r.matches \cup r.missed
    BY <1>1, <1>2, <1>6, <1>8, <2>1 DEF Found
  <2> QED
    BY <1>5, <2>2
<1>9. CASE i = req[s].id /\ i \in DOMAIN rows /\ WriteEdit(s)
  <2>1. /\ r.op = "update" /\ rows'[i].aadhaar = rows[i].aadhaar
        /\ rows'[i].mobile = IF "mobile" \in DOMAIN r.change THEN r.change.mobile ELSE rows[i].mobile
    BY <1>1, <1>9, EditedRow
  <2>2. CASE rows[i].aadhaar = rows[j].aadhaar \/ rows[i].mobile = rows[j].mobile
    BY <1>7, <1>9, <2>2
  <2>3. CASE ~ (rows[i].aadhaar = rows[j].aadhaar \/ rows[i].mobile = rows[j].mobile)
    <3>1. "mobile" \in DOMAIN r.change /\ rows[j].mobile = r.change.mobile
      BY <1>6, <2>1, <2>3
    <3>2. j \in r.matches \cup r.missed \/ Covered(i, j)
      BY <1>1, <1>2, <1>9, <2>1, <3>1 DEF Found
    <3> QED
      BY <1>5, <3>2
  <2> QED
    BY <2>2, <2>3
<1>10. CASE i = req[s].id /\ i \in DOMAIN rows /\ (WriteBlacklist(s) \/ WriteReinstate(s))
  <2>1. rows'[i]["aadhaar"] = rows[i]["aadhaar"] /\ rows'[i]["mobile"] = rows[i]["mobile"]
    BY <1>10, DecidedRow DEF Texts, Fields
  <2> QED
    BY <1>6, <1>7, <1>10, <2>1
<1> QED
  BY <1>8, <1>9, <1>10

\* A write keeps the invariant: a request that had read the row has now missed
\* the change.
LEMMA WritingKeeps ==
  ASSUME RegisterInvariant, NEW s \in Staff, Writing(s)
  PROVE  RegisterInvariant'
<1>1. /\ Typed /\ LookAlikesAreTold
      /\ \A t \in Staff : Found(t) /\ Checked(t)
      /\ \A t \in ApiCallers : Seen(t) /\ t \in Staff
  BY DEF RegisterInvariant, Typed, StaffAssumption
<1>2. PICK i, q : /\ Wrote(s, i, q)
                  /\ creator' \in [Ids -> Staff \cup {NoOne}]
                  /\ \/ Insert(s, i) /\ i \notin DOMAIN rows /\ req[s].op = "create"
                     \/ /\ i = req[s].id /\ i \in DOMAIN rows
                        /\ WriteEdit(s) \/ WriteBlacklist(s) \/ WriteReinstate(s)
  BY <1>1, WritingWrites
<1>3. \A k, j : Covered(k, j) => Covered(k, j)'
  BY <1>1, <1>2, CoveredStays
<1>4. /\ DOMAIN rows' = DOMAIN rows \cup {i} /\ page' = page
      /\ \A j \in DOMAIN rows : j # i => rows'[j] = rows[j]
      /\ req'[s] = q /\ q.phase = "audit"
  BY <1>2 DEF Wrote
<1>5. ASSUME NEW t \in Staff PROVE Found(t)' /\ Checked(t)'
  <2>1. CASE t = s
    BY <1>4, <2>1 DEF Found, Checked
  <2>2. CASE t # s
    BY <1>1, <1>2, <1>3, <2>2, OvertakenKeeps
  <2> QED
    BY <2>1, <2>2
<1>6. LookAlikesAreTold'
  <2>1. ASSUME NEW j \in DOMAIN rows, j # i,
               rows'[i].aadhaar = rows'[j].aadhaar \/ rows'[i].mobile = rows'[j].mobile
        PROVE  Covered(i, j)' /\ Covered(j, i)'
    <3>1. Covered(i, j)'
      BY <1>1, <1>2, <1>3, <2>1, WrittenIsCovered
    <3>2. {i, j} = {j, i}
      OBVIOUS
    <3> QED
      BY <3>1, <3>2 DEF Covered
  <2>2. ASSUME NEW a \in DOMAIN rows, NEW b \in DOMAIN rows, a # b,
               rows[a].aadhaar = rows[b].aadhaar \/ rows[a].mobile = rows[b].mobile
        PROVE  Covered(a, b)'
    <3>1. Covered(a, b)
      BY <1>1, <2>2, LookAlikesByCovered
    <3> QED
      BY <1>3, <3>1
  <2>3. ASSUME NEW a \in DOMAIN rows', NEW b \in DOMAIN rows', a # b,
               rows'[a].aadhaar = rows'[b].aadhaar \/ rows'[a].mobile = rows'[b].mobile
        PROVE  Covered(a, b)'
    <3>1. CASE a = i
      BY <1>4, <2>1, <2>3, <3>1
    <3>2. CASE b = i
      BY <1>4, <2>1, <2>3, <3>2
    <3>3. CASE a # i /\ b # i
      BY <1>4, <2>2, <2>3, <3>3
    <3> QED
      BY <3>1, <3>2, <3>3
  <2> QED
    BY <2>3 DEF LookAlikesAreTold, Covered
<1>7. i \in DOMAIN rows =>
        \/ rows'[i].version = rows[i].version + 1
        \/ rows'[i].version = rows[i].version /\ \A f \in Texts : rows'[i][f] = rows[i][f]
  <2>1. CASE WriteEdit(s) /\ i = req[s].id
    BY <1>1, <2>1, EditedRow
  <2>2. CASE (WriteBlacklist(s) \/ WriteReinstate(s)) /\ i = req[s].id
    <3>1. \A f \in Texts \cup {"aadhaar", "version"} : rows'[i][f] = rows[i][f]
      BY <1>1, <2>2, DecidedRow
    <3>2. rows'[i].version = rows[i].version
      BY <3>1
    <3> QED
      BY <3>1, <3>2
  <2> QED
    BY <1>2, <2>1, <2>2
<1>8. ASSUME NEW t \in ApiCallers PROVE Seen(t)'
  <2>1. CASE t = s
    <3>1. ASSUME page[s] # Absent
          PROVE  /\ page[s].row.version \leq rows'[page[s].id].version
                 /\ page[s].row.version = rows'[page[s].id].version =>
                      \A f \in Texts : rows'[page[s].id][f] = page[s].row[f]
      <4>1. page[s].id \in DOMAIN rows /\ page[s].row.version \in Nat
        BY <1>1, <3>1 DEF Typed, IsPage, RowRecords
      <4>2. rows[page[s].id].version \in Nat
        BY <1>1, <4>1 DEF Typed, RegisterTypeOK
      <4>3. /\ page[s].row.version \leq rows[page[s].id].version
            /\ page[s].row.version = rows[page[s].id].version =>
                 \A f \in Texts : rows[page[s].id][f] = page[s].row[f]
        BY <1>1, <2>1, <3>1 DEF Seen
      <4> QED
        BY <1>4, <1>7, <4>1, <4>2, <4>3
    <3> QED
      BY <1>4, <2>1, <3>1 DEF Seen
  <2>2. CASE t # s
    BY <1>1, <1>2, <1>7, <2>2, OvertakenSeen
  <2> QED
    BY <2>1, <2>2
<1>9. Typed'
  BY <1>1, <1>2, WroteTyped
<1> QED
  BY <1>5, <1>6, <1>8, <1>9 DEF RegisterInvariant

-----------------------------------------------------------------------------
\* The customers of the initial state share nothing and no request is under way.
LEMMA InitRegister == StaffAssumption /\ RegisterInit => RegisterInvariant
<1> SUFFICES ASSUME StaffAssumption, RegisterInit PROVE RegisterInvariant
  OBVIOUS
<1>1. Typed
  BY InitTyped
<1>2. \A s \in Staff : req[s] = NoReq /\ page[s] = Absent
  BY DEF RegisterInit
<1>3. LookAlikesAreTold
  <2>1. OneEach(Aadhaars) \in Distinct(Aadhaars) /\ OneEach(Mobiles) \in Distinct(Mobiles)
    BY DEF StaffAssumption, OneEach
  <2>2. ASSUME NEW i \in Registered, NEW j \in Registered, i # j
        PROVE  /\ OneEach(Aadhaars)[i] # OneEach(Aadhaars)[j]
               /\ OneEach(Mobiles)[i] # OneEach(Mobiles)[j]
    BY <2>1, <2>2 DEF Distinct
  <2>3. /\ DOMAIN rows = Registered
        /\ \A i \in Registered : /\ rows[i].aadhaar = OneEach(Aadhaars)[i]
                                 /\ rows[i].mobile = OneEach(Mobiles)[i]
    BY DEF RegisterInit, Row
  <2> QED
    BY <2>2, <2>3 DEF LookAlikesAreTold
<1>4. ApiCallers \subseteq Staff
  BY DEF StaffAssumption
<1> QED
  BY <1>1, <1>2, <1>3, <1>4 DEF RegisterInvariant, Found, Checked, Seen

\* Every step of the register keeps the invariant.
LEMMA NextRegister == RegisterInvariant /\ [RegisterNext]_registerVars => RegisterInvariant'
<1> SUFFICES ASSUME RegisterInvariant, [RegisterNext]_registerVars PROVE RegisterInvariant'
  OBVIOUS
<1>1. CASE UNCHANGED registerVars
  <2>1. /\ UNCHANGED <<rows, page, req, noticed, excused>>
        /\ Typed /\ LookAlikesAreTold
        /\ \A t \in Staff : Found(t) /\ Checked(t)
        /\ \A t \in ApiCallers : Seen(t)
    BY <1>1 DEF registerVars, RegisterInvariant
  <2>2. \A i, j : Covered(i, j) => Covered(i, j)'
    BY <2>1, CoveredKeeps
  <2>3. \A t \in Staff : Found(t)' /\ Checked(t)'
    BY <2>1, <2>2, UntouchedKeeps
  <2>4. LookAlikesAreTold'
    BY <2>1, <2>2, UntouchedLookAlikes
  <2>5. \A t \in ApiCallers : Seen(t)'
    BY <2>1, UntouchedSeen
  <2>6. Typed'
    BY <1>1, <2>1, TypedNext
  <2> QED
    BY <2>3, <2>4, <2>5, <2>6 DEF RegisterInvariant
<1>2. CASE RegisterNext
  <2>1. PICK s \in Staff : \/ Looking(s) \/ Asking(s) \/ Reading(s) \/ Writing(s)
                           \/ Inserting(s) \/ Ending(s)
    BY <1>2, NextIs
  <2>2. Typed
    BY DEF RegisterInvariant
  <2>3. CASE Asking(s)
    BY <2>2, <2>3, AskingAsks, AskedKeeps
  <2>4. CASE Ending(s)
    BY <2>2, <2>4, EndingEnds, EndedKeeps
  <2> QED
    BY <2>1, <2>3, <2>4, LookingKeeps, ReadingKeeps, WritingKeeps, InsertingKeeps
<1> QED
  BY <1>1, <1>2

\* What every request knows of the rows it is about holds throughout.
LEMMA RegisterAlways == StaffAssumption /\ RegisterSpec => []RegisterInvariant
<1>1. StaffAssumption /\ RegisterInit => RegisterInvariant
  BY InitRegister
<1>2. RegisterInvariant /\ [RegisterNext]_registerVars => RegisterInvariant'
  BY NextRegister
<1> QED
  BY <1>1, <1>2, PTL DEF RegisterSpec

\* A write of a handler is one of the statements that write.
LEMMA WritesAre ==
  ASSUME Typed, [RegisterNext]_registerVars, NEW s \in Staff, Writes(s, {"update", "blacklist", "reinstate"})
  PROVE  WriteEdit(s) \/ WriteBlacklist(s) \/ WriteReinstate(s)
<1>1. /\ req[s] # NoReq /\ req[s].phase = "write"
      /\ req[s].op \in {"update", "blacklist", "reinstate"}
      /\ req'[s] # NoReq /\ req'[s].phase = "audit"
  BY DEF Writes, Idle
<1>2. PICK t \in Staff : \/ Looking(t) \/ Asking(t) \/ Reading(t) \/ Writing(t)
                         \/ Inserting(t) \/ Ending(t)
  BY <1>1, NextIs DEF registerVars
<1>3. req'[s] # req[s]
  BY <1>1
<1>4. ~Looking(t)
  BY <1>3, LookingLeaves
<1>5. ~Asking(t)
  <2> SUFFICES ASSUME Asking(t) PROVE FALSE
    OBVIOUS
  <2>1. PICK r : Asked(t, r)
    BY AskingAsks
  <2> QED
    BY <1>1, <1>3, <2>1 DEF Asked, Typed
<1>6. ~Ending(t)
  <2> SUFFICES ASSUME Ending(t) PROVE FALSE
    OBVIOUS
  <2>1. Ended(t)
    BY EndingEnds
  <2> QED
    BY <1>1, <1>3, <2>1 DEF Ended, Typed
<1>7. ~Reading(t)
  <2> SUFFICES ASSUME Reading(t) PROVE FALSE
    OBVIOUS
  <2>1. PICK q : /\ Became(t, q) /\ q.phase # "audit"
    BY ReadingBecomes
  <2> QED
    BY <1>1, <1>3, <2>1 DEF Became, Typed
<1>8. ~Inserting(t)
  <2> SUFFICES ASSUME Inserting(t) PROVE FALSE
    OBVIOUS
  <2>1. PICK q : Became(t, q) /\ req[t].op \in Relations
    BY InsertingBecomes
  <2>2. t = s
    BY <1>3, <2>1 DEF Became, Typed
  <2> QED
    BY <1>1, <2>1, <2>2 DEF Relations
<1>9. t = s
  <2>1. PICK i, q : Wrote(t, i, q)
    BY <1>2, <1>4, <1>5, <1>6, <1>7, <1>8, WritingWrites
  <2>2. t # s => req'[s] = Noted(req[s], i) /\ i \in Ids
    BY <2>1 DEF Wrote
  <2>3. i \in Ids => Noted(req[s], i).phase = req[s].phase
    BY <1>1, NotedIs
  <2> QED
    BY <1>1, <2>2, <2>3
<1>10. \A i \in Ids : ~Insert(s, i)
  BY <1>1 DEF Insert, At
<1> QED
  BY <1>2, <1>4, <1>5, <1>6, <1>7, <1>8, <1>9, <1>10 DEF Writing

\* Customers that share an Aadhaar number or a mobile were shown to somebody as
\* such, or the requests that made them alike overlapped (create, update).
THEOREM LookAlikesAreNoticedAlways == RegisterSpec => []LookAlikesAreNoticed
<1>1. RegisterInvariant => LookAlikesAreNoticed
  BY DEF RegisterInvariant, Typed, LookAlikesAreNoticed
<1> QED
  BY <1>1, RegisterAlways, StaffAssumption, PTL

\* An edit that carries a version overwrites what its author saw (repository.update).
LEMMA VersionedEdit ==
  ASSUME RegisterInvariant, [RegisterNext]_registerVars, NEW s \in ApiCallers, Writes(s, {"update"})
  PROVE  OverwritesOnlyTheSeen(s)
<1>1. Typed /\ Seen(s) /\ s \in Staff
  BY DEF RegisterInvariant, Typed, StaffAssumption
<1>2. req[s] # NoReq /\ req[s].op = "update" /\ req[s].phase = "write"
  BY DEF Writes, Idle
<1>3. Writes(s, {"update", "blacklist", "reinstate"})
  BY DEF Writes
<1>4. WriteEdit(s)
  <2>1. WriteEdit(s) \/ WriteBlacklist(s) \/ WriteReinstate(s)
    BY <1>1, <1>3, WritesAre
  <2> QED
    BY <1>2, <2>1 DEF WriteBlacklist, WriteReinstate, At
<1>5. /\ req[s].expect \in Nat \ {0}
      /\ req[s].expect = rows[req[s].id].version =>
           \A f \in DOMAIN req[s].change : rows[req[s].id][f] = req[s].basis[f]
  BY <1>1, <1>2 DEF Seen
<1>6. rows[req[s].id].version = req[s].expect
  BY <1>4, <1>5 DEF WriteEdit, VersionHolds
<1> QED
  BY <1>5, <1>6 DEF OverwritesOnlyTheSeen

\* A verdict that changes nothing was decided on a row that changed since.
LEMMA SecondVerdict ==
  ASSUME RegisterInvariant, [RegisterNext]_registerVars, NEW s \in Staff,
         Writes(s, {"blacklist", "reinstate"}),
         rows'[req[s].id].status = rows[req[s].id].status
  PROVE  req[s].id \in req[s].missed
<1>1. Typed /\ Checked(s)
  BY DEF RegisterInvariant
<1>2. req[s] # NoReq /\ req[s].op \in {"blacklist", "reinstate"} /\ req[s].phase = "write"
  BY DEF Writes, Idle
<1>3. Writes(s, {"update", "blacklist", "reinstate"})
  BY DEF Writes
<1>4. WriteBlacklist(s) \/ WriteReinstate(s)
  <2>1. WriteEdit(s) \/ WriteBlacklist(s) \/ WriteReinstate(s)
    BY <1>1, <1>3, WritesAre
  <2> QED
    BY <1>2, <2>1 DEF WriteEdit, At
<1>5. /\ WriteBlacklist(s) => req[s].op = "blacklist" /\ rows'[req[s].id].status = "blacklisted"
      /\ WriteReinstate(s) => req[s].op = "reinstate" /\ rows'[req[s].id].status = "active"
  BY <1>1, <1>4, DecidedRow
<1> QED
  BY <1>1, <1>2, <1>4, <1>5 DEF Checked

\* A field officer writes to a customer of another only when it was reassigned
\* since the handler read the row.
LEMMA WriteInScope ==
  ASSUME RegisterInvariant, NEW s \in FieldOfficers, Writes(s, {"update"} \cup Relations),
         rows[req[s].id].officer # s
  PROVE  req[s].id \in req[s].missed
<1>1. Checked(s)
  BY DEF RegisterInvariant, Typed, StaffAssumption
<1>2. req[s] # NoReq /\ req[s].op \in {"update"} \cup Relations /\ req[s].phase = "write"
  BY DEF Writes, Idle
<1> QED
  BY <1>1, <1>2 DEF Checked

\* Every edit that carries a version.
LEMMA VersionedEditsAlways == StaffAssumption /\ RegisterSpec => VersionedEditsOverwriteOnlyTheSeen
<1> DEFINE A == \A s \in ApiCallers : Writes(s, {"update"}) => OverwritesOnlyTheSeen(s)
<1>1. RegisterInvariant /\ [RegisterNext]_registerVars => [A]_registerVars
  BY VersionedEdit
<1>2. StaffAssumption /\ RegisterSpec => [][A]_registerVars
  BY <1>1, RegisterAlways, PTL DEF RegisterSpec
<1> QED
  BY <1>2 DEF VersionedEditsOverwriteOnlyTheSeen

\* Every second verdict.
LEMMA DecidedTwiceAlways == StaffAssumption /\ RegisterSpec => DecidedTwiceOnlyByOverlap
<1> DEFINE A == \A s \in Staff :
                  Writes(s, {"blacklist", "reinstate"})
                    /\ rows'[req[s].id].status = rows[req[s].id].status
                  => req[s].id \in req[s].missed
<1>1. RegisterInvariant /\ [RegisterNext]_registerVars => [A]_registerVars
  BY SecondVerdict
<1>2. StaffAssumption /\ RegisterSpec => [][A]_registerVars
  BY <1>1, RegisterAlways, PTL DEF RegisterSpec
<1> QED
  BY <1>2 DEF DecidedTwiceOnlyByOverlap

\* Every write of a field officer.
LEMMA ScopeAlways == StaffAssumption /\ RegisterSpec => ScopeBrokenOnlyByReassignment
<1> DEFINE A == \A s \in FieldOfficers :
                  Writes(s, {"update"} \cup Relations) /\ rows[req[s].id].officer # s
                  => req[s].id \in req[s].missed
<1>1. RegisterInvariant /\ [RegisterNext]_registerVars => [A]_registerVars
  BY WriteInScope
<1>2. StaffAssumption /\ RegisterSpec => [][A]_registerVars
  BY <1>1, RegisterAlways, PTL DEF RegisterSpec
<1> QED
  BY <1>2 DEF ScopeBrokenOnlyByReassignment

\* What a write meets is what its handler read: a version guards what its author
\* saw, and a second verdict or a write out of scope needs an overlap (update,
\* blacklist, reinstate, repository.update, assertScope).
THEOREM WritesMeetWhatWasReadAlways == RegisterSpec => WritesMeetWhatWasRead
BY StaffAssumption, VersionedEditsAlways, DecidedTwiceAlways, ScopeAlways DEF WritesMeetWhatWasRead

-----------------------------------------------------------------------------
(* The forms of the web client: what a user is told and what a visit causes,
   for any number of forms, visits and submissions.

   Both properties relate records that three places made: the form on screen,
   the requests under way and the effects of the server.  The invariant says
   what two records that share a visit or a key agree on (SharedInv), that only
   the form on screen waits (WaitInv), and that a form with an effect is about
   to hear of it, or its visit is in lost (EffectsInv). *)

Answers == {"none", "success", "failure"}
RequestRows == [number : Nat, visit : Nat, kind : Kinds, input : Inputs, key : Nat,
                waited : BOOLEAN, answer : Answers]
EffectRows == [number : Nat, visit : Nat, kind : Kinds, input : Inputs, key : Nat]

ClientTyped ==
  /\ form \in Forms \union {NoForm}
  /\ visits \in Nat /\ keys \in Nat /\ submits \in Nat
  /\ requests \subseteq RequestRows
  /\ effects \subseteq EffectRows

\* What a form, a request and an effect have in common.
Bear(x) == [visit |-> x.visit, kind |-> x.kind, input |-> x.input, key |-> x.key]

Bearers == {Bear(x) : x \in requests} \union {Bear(e) : e \in effects}
             \union IF form = NoForm THEN {} ELSE {Bear(form)}

Agree(x, y) ==
  /\ x.visit = y.visit =>
       /\ x.kind = y.kind
       /\ x.kind \in OnceByStatus => x.input = y.input
       /\ x.kind \in KeepsKey => x.key = y.key /\ x.key # 0
  /\ x.key = y.key /\ x.key # 0 =>
       /\ x.visit = y.visit
       /\ x.kind \notin KeepsKey => x.input = y.input

SharedInv ==
  /\ \A x, y \in Bearers : Agree(x, y)
  /\ \A x \in Bearers : x.visit <= visits /\ x.key <= keys
  /\ form # NoForm => (form.key # 0 <=> form.kind \in KeepsKey)

WaitInv ==
  /\ \A r \in requests : r.waited => form # NoForm /\ form.busy /\ r.visit = form.visit
  /\ \A r, q \in requests : r.waited /\ q.waited => r = q
  /\ \A r \in requests : ~ r.waited => r.visit \in lost

EffectsInv ==
  \A e \in effects :
    \/ e.visit \in lost
    \/ form = NoForm
    \/ form.visit # e.visit
    \/ \E q \in requests : q.waited /\ q.answer = "success"

Posted(t) ==
  \E e \in effects :
    /\ e.key = t.key /\ e.kind = t.kind /\ e.visit = t.visit
    /\ e.input # t.input => t.kind = "collection" /\ t.visit \in lost

AnswersInv ==
  /\ \A r \in requests : r.answer = "success" => Posted(r)
  /\ \A t \in told : Posted(t)

Inv == ClientTyped /\ SharedInv /\ WaitInv /\ EffectsInv /\ AnswersInv /\ OneEffectPerVisit

LEMMA InitInv == Init => Inv
BY DEF Init, Inv, ClientTyped, Bearers, SharedInv, WaitInv, EffectsInv, AnswersInv, OneEffectPerVisit

-----------------------------------------------------------------------------
(* Types. *)

LEMMA ClientTypedNext == ClientTyped /\ [Next]_vars => ClientTyped'
<1> SUFFICES ASSUME ClientTyped, [Next]_vars PROVE ClientTyped'
  OBVIOUS
<1>a. form # NoForm => form \in Forms
  BY DEF ClientTyped
<1>b. /\ visits + 1 \in Nat /\ keys + 1 \in Nat /\ submits + 1 \in Nat /\ 0 \in Nat
  BY DEF ClientTyped
<1>1. ASSUME NEW kind \in Kinds, NEW input \in Inputs, Open(kind, input) PROVE ClientTyped'
  <2>1. Mounted(kind, input) \in Forms
    BY <1>b DEF Mounted, Forms
  <2> QED
    BY <1>1, <1>b, <2>1 DEF Open, ClientTyped
<1>2. ASSUME NEW input \in Inputs, Edit(input) PROVE ClientTyped'
  BY <1>2, <1>a DEF Edit, ClientTyped, Forms
<1>3. ASSUME Submit PROVE ClientTyped'
  <2>1. form \in Forms /\ form.key \in Nat
    BY <1>3, <1>a DEF Submit, Forms
  <2>2. KeyOf(form) \in Nat
    BY <1>b, <2>1 DEF KeyOf, Keyless
  <2>3. [number |-> submits + 1, visit |-> form.visit, kind |-> form.kind,
         input |-> form.input, key |-> KeyOf(form), waited |-> TRUE, answer |-> "none"] \in RequestRows
    BY <1>b, <2>1, <2>2 DEF RequestRows, Forms, Answers
  <2>4. [form EXCEPT !.busy = TRUE] \in Forms
    BY <2>1 DEF Forms
  <2> QED
    BY <1>3, <1>b, <2>2, <2>3, <2>4 DEF Submit, ClientTyped
<1>4. ASSUME Leave PROVE ClientTyped'
  <2>1. \A r \in requests : [r EXCEPT !.waited = FALSE] \in RequestRows
    BY DEF ClientTyped, RequestRows
  <2> QED
    BY <1>4, <2>1 DEF Leave, ClientTyped
<1>5. ASSUME NEW r \in requests, Serve(r) \/ Forgotten(r) \/ Succeed(r) \/ Fail(r) \/ Disconnect(r)
      PROVE  ClientTyped'
  <2>1. /\ [r EXCEPT !.answer = "success"] \in RequestRows
        /\ [r EXCEPT !.answer = "failure"] \in RequestRows
        /\ [r EXCEPT !.waited = FALSE] \in RequestRows
        /\ EffectOf(r) \in EffectRows
    BY DEF ClientTyped, RequestRows, EffectRows, EffectOf, Answers
  <2>2. /\ requests' \subseteq RequestRows
        /\ effects' \subseteq EffectRows
    BY <1>5, <2>1 DEF Serve, Commit, Replay, Refuse, Answered, Forgotten, Succeed, Fail, Disconnect,
                      ClientTyped
  <2>3. form # NoForm => [form EXCEPT !.busy = FALSE] \in Forms
    BY <1>a DEF Forms
  <2>4. form' \in Forms \union {NoForm} /\ UNCHANGED <<visits, keys, submits>>
    BY <1>5, <2>3 DEF Serve, Forgotten, Succeed, Fail, Disconnect, Waiting, ClientTyped
  <2> QED
    BY <2>2, <2>4 DEF ClientTyped
<1>6. CASE UNCHANGED vars
  BY <1>6 DEF vars, ClientTyped
<1> QED
  BY <1>1, <1>2, <1>3, <1>4, <1>5, <1>6 DEF Next

-----------------------------------------------------------------------------
(* What a visit and a key stand for. *)

LEMMA SharedKept ==
  ASSUME ClientTyped, SharedInv, Bearers' \subseteq Bearers, UNCHANGED <<visits, keys>>,
         form' # NoForm => (form'.key # 0 <=> form'.kind \in KeepsKey)
  PROVE  SharedInv'
BY DEF SharedInv, Agree

LEMMA SharedGrown ==
  ASSUME ClientTyped, SharedInv, NEW new, Bearers' \subseteq Bearers \union {new},
         visits' \in Nat, visits <= visits', keys' \in Nat, keys <= keys',
         new.visit <= visits', new.key <= keys',
         Agree(new, new), \A x \in Bearers : Agree(x, new) /\ Agree(new, x),
         form' # NoForm => (form'.key # 0 <=> form'.kind \in KeepsKey)
  PROVE  SharedInv'
<1>1. \A x \in Bearers : x.visit \in Nat /\ x.key \in Nat
  BY DEF ClientTyped, Bearers, Bear, RequestRows, EffectRows, Forms
<1>2. \A x \in Bearers' : x.visit <= visits' /\ x.key <= keys'
  BY <1>1 DEF SharedInv, ClientTyped
<1>3. \A x, y \in Bearers' : Agree(x, y)
  BY DEF SharedInv
<1> QED
  BY <1>2, <1>3 DEF SharedInv, Agree

LEMMA SharedNext == ClientTyped /\ SharedInv /\ [Next]_vars => SharedInv'
<1> SUFFICES ASSUME ClientTyped, SharedInv, [Next]_vars PROVE SharedInv'
  OBVIOUS
<1>a. visits \in Nat /\ keys \in Nat
  BY DEF ClientTyped
<1>b. \A x \in Bearers : x.visit \in Nat /\ x.key \in Nat
  BY DEF ClientTyped, Bearers, Bear, RequestRows, EffectRows, Forms
<1>1. ASSUME NEW kind \in Kinds, NEW input \in Inputs, Open(kind, input) PROVE SharedInv'
  <2> DEFINE new == Bear(Mounted(kind, input))
  <2>1. /\ new.visit = visits + 1 /\ new.kind = kind
        /\ new.key = IF kind \in KeepsKey THEN keys + 1 ELSE 0
    BY DEF Bear, Mounted
  <2>2. /\ form' = Mounted(kind, input) /\ visits' = visits + 1
        /\ keys' = IF kind \in KeepsKey THEN keys + 1 ELSE keys
        /\ UNCHANGED <<requests, effects>>
    BY <1>1 DEF Open
  <2>3. Bearers' \subseteq Bearers \union {new}
    BY <2>2 DEF Bearers
  <2>4. form'.key # 0 <=> form'.kind \in KeepsKey
    BY <1>a, <2>2 DEF Mounted
  <2> HIDE DEF new
  <2>5. \A x \in Bearers : x.visit # new.visit /\ (x.key = new.key => new.key = 0)
    <3> SUFFICES ASSUME NEW x \in Bearers
                 PROVE  x.visit # new.visit /\ (x.key = new.key => new.key = 0)
      OBVIOUS
    <3>1. x.visit <= visits /\ x.key <= keys
      BY DEF SharedInv
    <3> QED
      BY <1>a, <1>b, <2>1, <3>1
  <2>6. \A x \in Bearers : Agree(x, new) /\ Agree(new, x)
    BY <2>5 DEF Agree
  <2>7. Agree(new, new)
    BY <1>a, <2>1 DEF Agree
  <2>8. /\ visits' \in Nat /\ visits <= visits' /\ keys' \in Nat /\ keys <= keys'
        /\ new.visit <= visits' /\ new.key <= keys'
    BY <1>a, <2>1, <2>2
  <2> QED
    BY <2>3, <2>4, <2>6, <2>7, <2>8, SharedGrown
<1>2. ASSUME NEW input \in Inputs, Edit(input) PROVE SharedInv'
  <2> DEFINE new == Bear([form EXCEPT !.input = input])
  <2>1. /\ form # NoForm /\ form \in Forms /\ form.kind \notin OnceByStatus
        /\ form' = [form EXCEPT !.input = input]
        /\ UNCHANGED <<visits, keys, requests, effects>>
    BY <1>2 DEF Edit, ClientTyped
  <2>2. new.visit = form.visit /\ new.kind = form.kind /\ new.key = form.key
    BY <2>1 DEF Bear, Forms
  <2>3. form'.key = form.key /\ form'.kind = form.kind
    BY <2>1 DEF Forms
  <2>4. Bearers' \subseteq Bearers \union {new}
    BY <2>1 DEF Bearers
  <2> HIDE DEF new
  <2>5. Bear(form) \in Bearers
    BY <2>1 DEF Bearers
  <2>6. form.key # 0 => form.kind \in KeepsKey
    BY <2>1 DEF SharedInv
  <2>7. /\ Bear(form).visit = form.visit /\ Bear(form).kind = form.kind
        /\ Bear(form).key = form.key
    BY DEF Bear
  <2>8. \A x \in Bearers : Agree(x, Bear(form)) /\ Agree(Bear(form), x)
    BY <2>5 DEF SharedInv
  <2>9. \A x \in Bearers : Agree(x, new) /\ Agree(new, x)
    BY <2>1, <2>2, <2>6, <2>7, <2>8 DEF Agree
  <2>10. Agree(new, new)
    BY <2>1, <2>2, <2>5, <2>6, <2>7, <2>8 DEF Agree
  <2>11. form.visit <= visits /\ form.key <= keys
    BY <2>5, <2>7 DEF SharedInv
  <2>12. /\ visits' \in Nat /\ visits <= visits' /\ keys' \in Nat /\ keys <= keys'
         /\ new.visit <= visits' /\ new.key <= keys'
    BY <1>a, <2>1, <2>2, <2>11
  <2>13. form' # NoForm => (form'.key # 0 <=> form'.kind \in KeepsKey)
    BY <2>1, <2>3 DEF SharedInv
  <2> QED
    BY <2>4, <2>9, <2>10, <2>12, <2>13, SharedGrown
<1>3. ASSUME Submit PROVE SharedInv'
  <2> DEFINE sent == [number |-> submits + 1, visit |-> form.visit, kind |-> form.kind,
                      input |-> form.input, key |-> KeyOf(form), waited |-> TRUE,
                      answer |-> "none"]
             new == Bear(sent)
             k == KeyOf(form)
  <2>1. /\ form # NoForm /\ form \in Forms
        /\ form' = [form EXCEPT !.busy = TRUE]
        /\ requests' = requests \union {sent}
        /\ keys' = IF k > keys THEN k ELSE keys
        /\ UNCHANGED <<visits, effects>>
    BY <1>3 DEF Submit, ClientTyped
  <2>2. /\ new.visit = form.visit /\ new.kind = form.kind /\ new.input = form.input
        /\ new.key = k
    BY DEF Bear
  <2>3. /\ Bear(form') = Bear(form) /\ form'.key = form.key /\ form'.kind = form.kind
    BY <2>1 DEF Bear, Forms
  <2>4. Bear(form) \in Bearers
    BY <2>1 DEF Bearers
  <2>5. Bearers' \subseteq Bearers \union {new}
    <3> HIDE DEF sent
    <3> QED
      BY <2>1, <2>3, <2>4 DEF Bearers
  <2>6. form.key # 0 <=> form.kind \in KeepsKey
    BY <2>1 DEF SharedInv
  <2>7. /\ Bear(form).visit = form.visit /\ Bear(form).kind = form.kind
        /\ Bear(form).key = form.key /\ Bear(form).input = form.input
    BY DEF Bear
  <2>8. \/ k = form.key
        \/ form.kind \notin KeepsKey /\ k = keys + 1
    BY <2>6 DEF KeyOf, Keyless, KeepsKey
  <2> HIDE DEF k, sent, new
  <2>9. form.visit <= visits /\ form.key <= keys /\ form.key \in Nat
    BY <1>b, <2>4, <2>7 DEF SharedInv
  <2>10. \A x \in Bearers : Agree(x, Bear(form)) /\ Agree(Bear(form), x)
    BY <2>4 DEF SharedInv
  <2>11. \A x \in Bearers : x.key <= keys
    BY DEF SharedInv
  <2>12. CASE k = form.key
    <3>1. \A x \in Bearers : Agree(x, new) /\ Agree(new, x)
      BY <2>2, <2>7, <2>10, <2>12 DEF Agree
    <3>2. Agree(new, new)
      BY <2>2, <2>4, <2>7, <2>10, <2>12 DEF Agree
    <3>3. /\ visits' \in Nat /\ visits <= visits' /\ keys' \in Nat /\ keys <= keys'
          /\ new.visit <= visits' /\ new.key <= keys'
      BY <1>a, <2>1, <2>2, <2>9, <2>12
    <3> QED
      BY <2>3, <2>5, <2>6, <3>1, <3>2, <3>3, SharedGrown
  <2>13. CASE form.kind \notin KeepsKey /\ k = keys + 1
    <3>1. \A x \in Bearers : x.key # new.key
      BY <1>a, <1>b, <2>2, <2>11, <2>13
    <3>2. \A x \in Bearers : Agree(x, new) /\ Agree(new, x)
      BY <2>2, <2>7, <2>10, <2>13, <3>1 DEF Agree
    <3>3. Agree(new, new)
      BY <2>2, <2>13 DEF Agree
    <3>4. /\ visits' \in Nat /\ visits <= visits' /\ keys' \in Nat /\ keys <= keys'
          /\ new.visit <= visits' /\ new.key <= keys'
      BY <1>a, <2>1, <2>2, <2>9, <2>13
    <3> QED
      BY <2>3, <2>5, <2>6, <3>2, <3>3, <3>4, SharedGrown
  <2> QED
    BY <2>8, <2>12, <2>13
<1>4. ASSUME Leave PROVE SharedInv'
  <2>1. \A r \in requests : Bear([r EXCEPT !.waited = FALSE]) = Bear(r)
    BY DEF Bear, ClientTyped, RequestRows
  <2>2. Bearers' \subseteq Bearers
    BY <1>4, <2>1 DEF Leave, Bearers
  <2> QED
    BY <1>4, <2>2, SharedKept DEF Leave
<1>5. ASSUME NEW r \in requests, Serve(r) \/ Forgotten(r) \/ Succeed(r) \/ Fail(r) \/ Disconnect(r)
      PROVE  SharedInv'
  <2>1. /\ Bear([r EXCEPT !.answer = "success"]) = Bear(r)
        /\ Bear([r EXCEPT !.answer = "failure"]) = Bear(r)
        /\ Bear([r EXCEPT !.waited = FALSE]) = Bear(r)
        /\ Bear(EffectOf(r)) = Bear(r)
    BY DEF Bear, EffectOf, ClientTyped, RequestRows
  <2>2. \A q \in requests' : \E p \in requests : Bear(q) = Bear(p)
    BY <1>5, <2>1 DEF Serve, Commit, Replay, Refuse, Answered, Forgotten, Succeed, Fail, Disconnect
  <2>3. \A e \in effects' : e \in effects \/ Bear(e) = Bear(r)
    BY <1>5, <2>1 DEF Serve, Commit, Replay, Refuse, Forgotten, Succeed, Fail, Disconnect
  <2>4. form # NoForm =>
          LET f == [form EXCEPT !.busy = FALSE]
          IN  Bear(f) = Bear(form) /\ f.key = form.key /\ f.kind = form.kind
    BY DEF Bear, ClientTyped, Forms
  <2>5. form' = NoForm \/ (form # NoForm /\ Bear(form') = Bear(form)
                            /\ form'.key = form.key /\ form'.kind = form.kind)
    BY <1>5, <2>4 DEF Serve, Forgotten, Succeed, Fail, Disconnect, Waiting
  <2>6. Bearers' \subseteq Bearers
    BY <2>2, <2>3, <2>5 DEF Bearers
  <2>7. form' # NoForm => (form'.key # 0 <=> form'.kind \in KeepsKey)
    BY <2>5 DEF SharedInv
  <2>8. UNCHANGED <<visits, keys>>
    BY <1>5 DEF Serve, Forgotten, Succeed, Fail, Disconnect
  <2> QED
    BY <2>6, <2>7, <2>8, SharedKept
<1>6. CASE UNCHANGED vars
  <2>1. Bearers' \subseteq Bearers
    BY <1>6 DEF vars, Bearers
  <2> QED
    BY <1>6, <2>1, SharedKept DEF vars, SharedInv
<1> QED
  BY <1>1, <1>2, <1>3, <1>4, <1>5, <1>6 DEF Next

-----------------------------------------------------------------------------
(* Who waits. *)

\* A step of the server keeps who waits.
LEMMA ServeAnswers ==
  ASSUME ClientTyped, NEW r \in requests, Serve(r)
  PROVE  /\ r.answer = "none" /\ r \in RequestRows
         /\ \E answer \in {"success", "failure"} :
              LET q == [r EXCEPT !.answer = answer]
              IN  /\ requests' = (requests \ {r}) \union {q}
                  /\ q.visit = r.visit /\ q.kind = r.kind /\ q.input = r.input /\ q.key = r.key
                  /\ q.waited = r.waited /\ q.answer = answer
         /\ lost' = lost \/ lost' = lost \union {r.visit}
         /\ UNCHANGED <<form, visits, keys, submits, told>>
<1>1. r \in RequestRows
  BY DEF ClientTyped
<1>2. \E answer \in {"success", "failure"} :
        requests' = (requests \ {r}) \union {[r EXCEPT !.answer = answer]}
  BY DEF Serve, Commit, Replay, Refuse, Answered
<1> QED
  BY <1>1, <1>2 DEF Serve, Commit, Replay, Refuse, RequestRows

LEMMA WaitNext == ClientTyped /\ SharedInv /\ WaitInv /\ [Next]_vars => WaitInv'
<1> SUFFICES ASSUME ClientTyped, SharedInv, WaitInv, [Next]_vars PROVE WaitInv'
  OBVIOUS
<1>1. ASSUME NEW kind \in Kinds, NEW input \in Inputs, Open(kind, input) PROVE WaitInv'
  BY <1>1 DEF Open, WaitInv
<1>2. ASSUME NEW input \in Inputs, Edit(input) PROVE WaitInv'
  BY <1>2 DEF Edit, WaitInv
<1>3. ASSUME Submit PROVE WaitInv'
  <2> DEFINE sent == [number |-> submits + 1, visit |-> form.visit, kind |-> form.kind,
                      input |-> form.input, key |-> KeyOf(form), waited |-> TRUE,
                      answer |-> "none"]
  <2>1. /\ form # NoForm /\ form \in Forms /\ ~ form.busy
        /\ form' = [form EXCEPT !.busy = TRUE] /\ UNCHANGED lost
        /\ requests' = requests \union {sent}
        /\ sent.waited /\ sent.visit = form.visit
    BY <1>3 DEF Submit, ClientTyped
  <2> HIDE DEF sent
  <2>2. form' \in Forms /\ form'.busy /\ form'.visit = form.visit
    BY <2>1 DEF Forms
  <2>3. \A r \in requests : ~ r.waited
    BY <2>1 DEF WaitInv
  <2> QED
    BY <2>1, <2>2, <2>3, ClientAssumption DEF WaitInv
<1>4. ASSUME Leave PROVE WaitInv'
  <2>1. /\ form # NoForm /\ form' = NoForm
        /\ requests' = {IF r.visit = form.visit THEN [r EXCEPT !.waited = FALSE] ELSE r : r \in requests}
        /\ lost' = IF form.busy THEN lost \union {form.visit} ELSE lost
    BY <1>4 DEF Leave
  <2>2. ASSUME NEW q \in requests' PROVE ~ q.waited /\ q.visit \in lost'
    <3>1. PICK r \in requests :
            q = IF r.visit = form.visit THEN [r EXCEPT !.waited = FALSE] ELSE r
      BY <2>1
    <3>2. r \in RequestRows
      BY DEF ClientTyped
    <3>3. q.visit = r.visit /\ ~ q.waited
      BY <3>1, <3>2 DEF RequestRows, WaitInv
    <3>4. r.visit \in lost \/ (form.busy /\ r.visit = form.visit)
      BY <3>2 DEF WaitInv, RequestRows
    <3> QED
      BY <2>1, <3>3, <3>4
  <2> QED
    BY <2>1, <2>2 DEF WaitInv
<1>5. ASSUME NEW r \in requests, Serve(r) PROVE WaitInv'
  <2>1. PICK q : /\ requests' = (requests \ {r}) \union {q}
                 /\ q.visit = r.visit /\ q.waited = r.waited
    BY <1>5, ServeAnswers
  <2>2. UNCHANGED form /\ lost \subseteq lost'
    BY <1>5, ServeAnswers
  <2> QED
    BY <2>1, <2>2 DEF WaitInv
<1>6. ASSUME NEW r \in requests, Forgotten(r) PROVE WaitInv'
  BY <1>6 DEF Forgotten, WaitInv
<1>7. ASSUME NEW r \in requests, Succeed(r) PROVE WaitInv'
  BY <1>7 DEF Succeed, Waiting, WaitInv
<1>8. ASSUME NEW r \in requests, Fail(r) PROVE WaitInv'
  <2>1. /\ requests' = requests \ {r} /\ r.waited /\ UNCHANGED lost
    BY <1>8 DEF Fail, Waiting
  <2>2. \A q \in requests' : ~ q.waited
    BY <2>1 DEF WaitInv
  <2> QED
    BY <2>1, <2>2 DEF WaitInv
<1>9. ASSUME NEW r \in requests, Disconnect(r) PROVE WaitInv'
  <2> DEFINE q == [r EXCEPT !.waited = FALSE]
  <2>1. /\ requests' = (requests \ {r}) \union {q} /\ r.waited
        /\ lost' = lost \union {r.visit}
    BY <1>9 DEF Disconnect, Waiting
  <2>2. q.visit = r.visit /\ ~ q.waited
    BY DEF ClientTyped, RequestRows
  <2> HIDE DEF q
  <2>3. \A p \in requests' : ~ p.waited
    BY <2>1, <2>2 DEF WaitInv
  <2> QED
    BY <2>1, <2>2, <2>3 DEF WaitInv
<1>10. CASE UNCHANGED vars
  BY <1>10 DEF vars, WaitInv
<1> QED
  BY <1>1, <1>2, <1>3, <1>4, <1>5, <1>6, <1>7, <1>8, <1>9, <1>10 DEF Next

-----------------------------------------------------------------------------
(* What a visit has caused, and what it is told. *)

\* A request that is served after its visit had an effect is one nobody waits
\* for, or the visit missed an outcome before: either way it is in lost.
LEMMA ServedAgain ==
  ASSUME ClientTyped, WaitInv, EffectsInv, NEW r \in requests, r.answer = "none",
         NEW e \in effects, e.visit = r.visit
  PROVE  r.visit \in lost
<1>1. CASE ~ r.waited
  BY <1>1 DEF WaitInv
<1>2. CASE r.waited
  <2>1. form # NoForm /\ form.visit = e.visit
    BY <1>2 DEF WaitInv
  <2>2. \A q \in requests : q.waited => q.answer # "success"
    BY <1>2 DEF WaitInv
  <2> QED
    BY <2>1, <2>2 DEF EffectsInv
<1> QED
  BY <1>1, <1>2 DEF ClientTyped, RequestRows

\* The step of a request that is served, as far as the effects go.
LEMMA ServedEffects ==
  ASSUME NEW r \in requests, Serve(r)
  PROVE  \/ UNCHANGED effects
         \/ ~ Stored(r.key) /\ ~ Refused(r) /\ effects' = effects \union {EffectOf(r)}
BY DEF Serve, Commit, Replay, Refuse

LEMMA EffectsNext ==
  ClientTyped /\ SharedInv /\ WaitInv /\ EffectsInv /\ [Next]_vars => EffectsInv'
<1> SUFFICES ASSUME ClientTyped, SharedInv, WaitInv, EffectsInv, [Next]_vars PROVE EffectsInv'
  OBVIOUS
<1>1. ASSUME NEW kind \in Kinds, NEW input \in Inputs, Open(kind, input) PROVE EffectsInv'
  <2>1. form' = Mounted(kind, input) /\ UNCHANGED effects
    BY <1>1 DEF Open
  <2>2. form'.visit = visits + 1
    BY <2>1 DEF Mounted
  <2>3. ASSUME NEW e \in effects PROVE form'.visit # e.visit
    <3>1. Bear(e) \in Bearers
      BY DEF Bearers
    <3>2. e.visit <= visits
      BY <3>1 DEF SharedInv, Bear
    <3>3. e.visit \in Nat /\ visits \in Nat
      BY DEF ClientTyped, EffectRows
    <3> QED
      BY <2>2, <3>2, <3>3
  <2> QED
    BY <2>1, <2>3 DEF EffectsInv
<1>2. ASSUME NEW input \in Inputs, Edit(input) PROVE EffectsInv'
  <2>1. form # NoForm /\ form'.visit = form.visit
    BY <1>2 DEF Edit, ClientTyped, Forms
  <2> QED
    BY <1>2, <2>1 DEF Edit, EffectsInv
<1>3. ASSUME Submit PROVE EffectsInv'
  <2>1. form # NoForm /\ ~ form.busy /\ form'.visit = form.visit /\ UNCHANGED <<effects, lost>>
    BY <1>3 DEF Submit, ClientTyped, Forms
  <2>2. \A r \in requests : ~ r.waited
    BY <2>1 DEF WaitInv
  <2> QED
    BY <2>1, <2>2 DEF EffectsInv
<1>4. ASSUME Leave PROVE EffectsInv'
  BY <1>4 DEF Leave, EffectsInv
<1>5. ASSUME NEW r \in requests, Serve(r) PROVE EffectsInv'
  <2>1. r.answer = "none" /\ UNCHANGED form /\ lost \subseteq lost'
    BY <1>5, ServeAnswers
  <2>2. PICK q : /\ requests' = (requests \ {r}) \union {q}
                 /\ q.waited = r.waited
    BY <1>5, ServeAnswers
  <2>3. ASSUME NEW e \in effects
        PROVE  \/ e.visit \in lost' \/ form' = NoForm \/ form'.visit # e.visit
               \/ \E p \in requests' : p.waited /\ p.answer = "success"
    <3>1. CASE \E p \in requests : p.waited /\ p.answer = "success"
      BY <2>1, <2>2, <3>1
    <3>2. CASE ~ \E p \in requests : p.waited /\ p.answer = "success"
      BY <2>1, <3>2 DEF EffectsInv
    <3> QED
      BY <3>1, <3>2
  <2>4. CASE UNCHANGED effects
    BY <2>3, <2>4 DEF EffectsInv
  <2>5. CASE Commit(r)
    <3> DEFINE e == EffectOf(r)
    <3>1. e.visit = r.visit /\ effects' = effects \union {e}
      BY <2>5 DEF EffectOf, Commit
    <3>2. \/ requests' = Answered(r, "success")
          \/ lost' = lost \union {r.visit}
      BY <2>5 DEF Commit
    <3> HIDE DEF e
    <3>3. CASE lost' = lost \union {r.visit}
      BY <2>3, <3>1, <3>3 DEF EffectsInv
    <3>4. CASE requests' = Answered(r, "success") /\ r.waited
      <4> DEFINE p == [r EXCEPT !.answer = "success"]
      <4>1. p.waited /\ p.answer = "success"
        BY <3>4 DEF ClientTyped, RequestRows
      <4>2. p \in requests'
        BY <3>4 DEF Answered
      <4> HIDE DEF p
      <4> QED
        BY <4>1, <4>2 DEF EffectsInv
    <3>5. CASE ~ r.waited
      BY <2>1, <2>3, <3>1, <3>5 DEF EffectsInv, WaitInv
    <3> QED
      BY <3>2, <3>3, <3>4, <3>5 DEF ClientTyped, RequestRows
  <2> QED
    BY <1>5, <2>4, <2>5 DEF Serve, Replay, Refuse
<1>6. ASSUME NEW r \in requests, Forgotten(r) PROVE EffectsInv'
  BY <1>6 DEF Forgotten, EffectsInv
<1>7. ASSUME NEW r \in requests, Succeed(r) PROVE EffectsInv'
  BY <1>7 DEF Succeed, EffectsInv
<1>8. ASSUME NEW r \in requests, Fail(r) PROVE EffectsInv'
  <2>1. /\ form # NoForm /\ form'.visit = form.visit /\ UNCHANGED <<effects, lost>>
        /\ r.waited /\ r.answer = "failure"
    BY <1>8 DEF Fail, Waiting, ClientTyped, Forms
  <2>2. \A q \in requests : q.waited => q.answer # "success"
    BY <2>1 DEF WaitInv
  <2> QED
    BY <2>1, <2>2 DEF EffectsInv
<1>9. ASSUME NEW r \in requests, Disconnect(r) PROVE EffectsInv'
  <2>1. /\ form # NoForm /\ form'.visit = form.visit /\ UNCHANGED effects
        /\ r.visit = form.visit /\ lost' = lost \union {r.visit}
    BY <1>9 DEF Disconnect, Waiting, ClientTyped, Forms
  <2> QED
    BY <2>1 DEF EffectsInv
<1>10. CASE UNCHANGED vars
  BY <1>10 DEF vars, EffectsInv
<1> QED
  BY <1>1, <1>2, <1>3, <1>4, <1>5, <1>6, <1>7, <1>8, <1>9, <1>10 DEF Next

\* Once posted, a submission stays posted.
LEMMA PostedKept ==
  ASSUME NEW t, Posted(t), effects \subseteq effects', lost \subseteq lost'
  PROVE  Posted(t)'
BY DEF Posted

LEMMA Grows == [Next]_vars => effects \subseteq effects' /\ lost \subseteq lost'
BY DEF Next, Open, Edit, Submit, Leave, Serve, Commit, Replay, Refuse, Forgotten, Succeed, Fail,
       Disconnect, vars

\* A stored key is answered with the result of the same visit; only a
\* collection can have changed since, and only once an answer was lost.
LEMMA ReplayIsPosted ==
  ASSUME ClientTyped, SharedInv, WaitInv, EffectsInv, NEW r \in requests, r.answer = "none",
         Stored(r.key)
  PROVE  Posted(r)
<1>1. PICK e \in effects : e.key = r.key /\ r.key # 0
  BY DEF Stored
<1>2. Agree(Bear(e), Bear(r))
  BY DEF SharedInv, Bearers
<1>3. e.visit = r.visit /\ e.kind = r.kind
  BY <1>1, <1>2 DEF Agree, Bear
<1>4. e.input # r.input => e.kind \in KeepsKey /\ e.kind \notin OnceByStatus
  BY <1>1, <1>2, <1>3 DEF Agree, Bear
<1>5. r.visit \in lost
  BY <1>3, ServedAgain
<1> QED
  BY <1>1, <1>3, <1>4, <1>5 DEF Posted, KeepsKey, OnceByStatus

LEMMA AnswersNext ==
  ClientTyped /\ SharedInv /\ WaitInv /\ EffectsInv /\ AnswersInv /\ [Next]_vars => AnswersInv'
<1> SUFFICES ASSUME ClientTyped, SharedInv, WaitInv, EffectsInv, AnswersInv, [Next]_vars
             PROVE  AnswersInv'
  OBVIOUS
<1>a. \A t : Posted(t) => Posted(t)'
  BY Grows, PostedKept
<1>1. ASSUME \A q \in requests' : q.answer = "success" =>
               \E r \in requests : /\ r.answer = "success" /\ r.visit = q.visit /\ r.kind = q.kind
                                   /\ r.input = q.input /\ r.key = q.key,
             \A t \in told' : t \in told \/
               \E r \in requests : /\ r.answer = "success" /\ r.visit = t.visit /\ r.kind = t.kind
                                   /\ r.input = t.input /\ r.key = t.key
      PROVE  AnswersInv'
  <2>1. \A t, r : Posted(r) /\ r.visit = t.visit /\ r.kind = t.kind /\ r.input = t.input
                   /\ r.key = t.key => Posted(t)
    BY DEF Posted
  <2>2. \A q \in requests' : q.answer = "success" => Posted(q)
    BY <1>1, <2>1 DEF AnswersInv
  <2>3. \A t \in told' : Posted(t)
    BY <1>1, <2>1 DEF AnswersInv
  <2> QED
    BY <1>a, <2>2, <2>3 DEF AnswersInv
<1>2. ASSUME NEW kind \in Kinds, NEW input \in Inputs, Open(kind, input) PROVE AnswersInv'
  BY <1>1, <1>2 DEF Open
<1>3. ASSUME NEW input \in Inputs, Edit(input) PROVE AnswersInv'
  BY <1>1, <1>3 DEF Edit
<1>4. ASSUME Submit PROVE AnswersInv'
  BY <1>1, <1>4 DEF Submit
<1>5. ASSUME Leave PROVE AnswersInv'
  <2>1. \A r \in requests : LET q == [r EXCEPT !.waited = FALSE]
                            IN  /\ q.answer = r.answer /\ q.visit = r.visit /\ q.kind = r.kind
                                /\ q.input = r.input /\ q.key = r.key
    BY DEF ClientTyped, RequestRows
  <2>2. \A q \in requests' : \E r \in requests :
          /\ q.answer = r.answer /\ q.visit = r.visit /\ q.kind = r.kind
          /\ q.input = r.input /\ q.key = r.key
    BY <1>5, <2>1, ZenonT(60) DEF Leave
  <2>3. UNCHANGED told
    BY <1>5 DEF Leave
  <2> QED
    BY <1>1, <2>2, <2>3
<1>6. ASSUME NEW r \in requests, Serve(r) PROVE AnswersInv'
  <2>1. UNCHANGED told /\ r.answer = "none"
    BY <1>6 DEF Serve
  <2>2. r \in RequestRows
    BY DEF ClientTyped
  <2>3. ASSUME Commit(r) \/ Replay(r) PROVE Posted(r)'
    <3>1. CASE Replay(r)
      BY <1>a, <2>1, <3>1, ReplayIsPosted DEF Replay
    <3>2. CASE Commit(r)
      <4>1. EffectOf(r) \in effects'
        BY <3>2 DEF Commit
      <4> QED
        BY <4>1 DEF Posted, EffectOf
    <3> QED
      BY <2>3, <3>1, <3>2
  <2>4. ASSUME NEW answer \in {"success", "failure"},
               answer = "success" => Commit(r) \/ Replay(r)
        PROVE  [r EXCEPT !.answer = answer].answer = "success"
                 => Posted([r EXCEPT !.answer = answer])'
    <3> DEFINE q == [r EXCEPT !.answer = answer]
    <3>1. /\ q.answer = answer /\ q.visit = r.visit /\ q.kind = r.kind
          /\ q.input = r.input /\ q.key = r.key
      BY <2>2 DEF RequestRows
    <3> HIDE DEF q
    <3>2. q.answer = "success" => Posted(q)'
      BY <2>3, <2>4, <3>1 DEF Posted
    <3> QED
      BY <3>2 DEF q
  <2>5. \A p \in requests' : p.answer = "success" => Posted(p)'
    <3>1. \E answer \in {"success", "failure"} :
            /\ answer = "success" => Commit(r) \/ Replay(r)
            /\ requests' = (requests \ {r}) \union {[r EXCEPT !.answer = answer]}
      BY <1>6 DEF Serve, Commit, Replay, Refuse, Answered
    <3> QED
      BY <1>a, <2>4, <3>1 DEF AnswersInv
  <2>6. \A t \in told' : Posted(t)'
    BY <1>a, <2>1 DEF AnswersInv
  <2> QED
    BY <2>5, <2>6 DEF AnswersInv
<1>7. ASSUME NEW r \in requests, Forgotten(r) PROVE AnswersInv'
  BY <1>1, <1>7 DEF Forgotten
<1>8. ASSUME NEW r \in requests, Succeed(r) PROVE AnswersInv'
  BY <1>1, <1>8 DEF Succeed
<1>9. ASSUME NEW r \in requests, Fail(r) PROVE AnswersInv'
  BY <1>1, <1>9 DEF Fail
<1>10. ASSUME NEW r \in requests, Disconnect(r) PROVE AnswersInv'
  <2>1. LET q == [r EXCEPT !.waited = FALSE]
        IN  /\ q.answer = r.answer /\ q.visit = r.visit /\ q.kind = r.kind
            /\ q.input = r.input /\ q.key = r.key
    BY DEF ClientTyped, RequestRows
  <2> QED
    BY <1>1, <1>10, <2>1 DEF Disconnect
<1>11. CASE UNCHANGED vars
  BY <1>1, <1>11 DEF vars
<1> QED
  BY <1>2, <1>3, <1>4, <1>5, <1>6, <1>7, <1>8, <1>9, <1>10, <1>11 DEF Next

\* A second effect of a visit is one its key and its target let through.
LEMMA OneEffectNext ==
  ClientTyped /\ SharedInv /\ WaitInv /\ EffectsInv /\ OneEffectPerVisit /\ [Next]_vars
    => OneEffectPerVisit'
<1> SUFFICES ASSUME ClientTyped, SharedInv, WaitInv, EffectsInv, OneEffectPerVisit, [Next]_vars
             PROVE  OneEffectPerVisit'
  OBVIOUS
<1>1. lost \subseteq lost'
  BY Grows
<1>2. CASE UNCHANGED effects
  BY <1>1, <1>2 DEF OneEffectPerVisit
<1>3. ASSUME NEW r \in requests, Serve(r), ~ Stored(r.key), ~ Refused(r),
             effects' = effects \union {EffectOf(r)}
      PROVE  OneEffectPerVisit'
  <2> DEFINE new == EffectOf(r)
  <2>1. new.visit = r.visit /\ new.kind = r.kind
    BY DEF EffectOf
  <2>2. ASSUME NEW d \in effects, d.visit = r.visit
        PROVE  d.kind = r.kind /\ r.kind \in CommitsFirst \union {"group"} /\ r.visit \in lost
    <3>1. Agree(Bear(d), Bear(r))
      BY DEF SharedInv, Bearers
    <3>2. /\ d.kind = r.kind
          /\ d.kind \in OnceByStatus => d.input = r.input
          /\ d.kind \in KeepsKey => d.key = r.key /\ d.key # 0
      BY <2>2, <3>1 DEF Agree, Bear
    <3>3. r.kind \notin KeepsKey /\ r.kind \notin OnceByStatus
      BY <1>3, <3>2 DEF Stored, Refused
    <3>4. r.kind \in AllKinds
      BY ClientAssumption DEF ClientTyped, RequestRows
    <3>5. r.answer = "none"
      BY <1>3 DEF Serve
    <3>6. r.visit \in lost
      BY <2>2, <3>5, ServedAgain
    <3> QED
      BY <3>2, <3>3, <3>4, <3>6 DEF AllKinds
  <2> HIDE DEF new
  <2>3. effects' = effects \union {new}
    BY <1>3 DEF new
  <2> QED
    BY <1>1, <2>1, <2>2, <2>3 DEF OneEffectPerVisit
<1>4. CASE \E r \in requests : Serve(r)
  BY <1>2, <1>3, <1>4, ServedEffects
<1> QED
  BY <1>2, <1>4 DEF Next, Open, Edit, Submit, Leave, Forgotten, Succeed, Fail, Disconnect, vars

LEMMA InvAlways == Spec => []Inv
<1>1. Inv /\ [Next]_vars => Inv'
  BY ClientTypedNext, SharedNext, WaitNext, EffectsNext, AnswersNext, OneEffectNext DEF Inv
<1> QED
  BY <1>1, InitInv, PTL DEF Spec

-----------------------------------------------------------------------------
(* However many forms are opened, submitted, left and submitted again, and
   whatever is lost on the way, what a user is told was posted was posted as it
   was entered, but for a collection whose fields were edited after a lost
   answer (collections/new/page.tsx, IdempotencyService). *)
THEOREM ToldIsPostedAlways == Spec => []ToldIsPosted
<1>1. Inv => ToldIsPosted
  BY DEF Inv, AnswersInv, Posted, ToldIsPosted
<1> QED
  BY <1>1, InvAlways, PTL

(* However often one visit submits, it has one effect, but for the forms that
   make a key per submission, or none, after a lost answer. *)
THEOREM OneEffectPerVisitAlways == Spec => []OneEffectPerVisit
<1>1. Inv => OneEffectPerVisit
  BY DEF Inv
<1> QED
  BY <1>1, InvAlways, PTL
=============================================================================
