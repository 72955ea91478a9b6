------------------------------ MODULE Dashboard ------------------------------
(***************************************************************************)
(* The figures of the dashboard (dashboard.service): seven statements run  *)
(* in parallel, in any order, while the writers of Portfolio go on; the    *)
(* result is cached per user and role for Ttl.                             *)
(*                                                                         *)
(* Two tabs of one user are two requests.  `moved' is history: the loans   *)
(* written since a request began to read.  The collection officer, whose   *)
(* collections are narrowed to the own ones, is left out.                  *)
(***************************************************************************)
EXTENDS Portfolio

CONSTANTS Manager, Viewers, Requests, Figures, Ttl, MaxClock

DashboardAssumption ==
  /\ Viewers \subseteq Officers \cup {Manager}
  /\ {"active", "overdue"} \subseteq Figures
  /\ Figures \subseteq {"customers", "active", "overdue", "outstanding", "collections",
                        "disbursements", "pending"}
  /\ Ttl \in Nat \ {0} /\ MaxClock \in Nat \ {0}

VARIABLES clock, cache, req

vars == <<tables, clock, cache, req>>

Nothing == [expires |-> 0, start |-> 0, today |-> 0, values |-> [f \in {} |-> 0], moved |-> {}]
Idle == [phase |-> "idle"]

\* buildScope
Book(viewer) == IF viewer = Manager THEN Loans ELSE {l \in Loans : loans[l].officer = viewer}
InStatus(viewer, statuses) == {l \in Book(viewer) : loans[l].status \in statuses}

\* a date column against a day, from its midnight to its last millisecond
OfDay(today, d) == Midnight(today) <= d /\ d <= today

CollectedOn(viewer, today) ==
  {i \in DOMAIN collections : /\ collections[i].posted /\ ~collections[i].reversal
                              /\ OfDay(today, collections[i].date)
                              /\ collections[i].loan \in Book(viewer)}

Overdue(viewer) == InStatus(viewer, {"overdue"})

\* the seven statements of getKPIs; disbursement_date holds a midnight
Value(viewer, today, f) ==
  CASE f = "customers" -> Cardinality(Book(viewer))
    [] f = "active" -> Cardinality(InStatus(viewer, {"active"}))
    [] f = "overdue" -> Cardinality(Overdue(viewer))
    [] f = "outstanding" ->
         SumOf([l \in Loans |-> loans[l].cached], InStatus(viewer, {"active", "overdue"}))
    [] f = "collections" ->
         SumOf([i \in DOMAIN collections |-> collections[i].amount], CollectedOn(viewer, today))
    [] f = "disbursements" ->
         Parts * Cardinality({l \in InStatus(viewer, {"active", "overdue", "closed"}) :
                                OfDay(today, Midnight(loans[l].disbursed))})
    [] f = "pending" -> Cardinality(InStatus(viewer, {"approved"}))

InitDashboard ==
  /\ Init
  /\ clock = 1
  /\ cache = [v \in Viewers |-> Nothing]
  /\ req = [r \in Requests |-> Idle]

Key(viewer) == viewer

Get(r, viewer) ==
  /\ req[r] = Idle
  /\ req' = [req EXCEPT ![r] =
       IF cache[Key(viewer)].expires > clock
       THEN [phase |-> "answered", viewer |-> viewer, hit |-> TRUE, entry |-> cache[Key(viewer)]]
       ELSE [phase |-> "reading", viewer |-> viewer, hit |-> FALSE,
             entry |-> [Nothing EXCEPT !.start = clock, !.today = day]]]
  /\ UNCHANGED <<tables, clock, cache>>

Reading(r) == req[r].phase = "reading"
Missing(r) == Figures \ DOMAIN req[r].entry.values

With(values, f, n) ==
  [g \in DOMAIN values \cup {f} |-> IF g = f THEN n ELSE values[g]]

Read(r, f) ==
  /\ Reading(r) /\ f \in Missing(r)
  /\ req' = [req EXCEPT ![r].entry.values =
                 With(@, f, Value(req[r].viewer, req[r].entry.today, f))]
  /\ UNCHANGED <<tables, clock, cache>>

\* Slip: the time to live counts from the end of the reading.
ExpiresAfterAnswer(r) == clock + Ttl

Expires(r) == req[r].entry.start + Ttl

Answer(r) ==
  LET entry == [req[r].entry EXCEPT !.expires = Expires(r)]
  IN  /\ Reading(r) /\ Missing(r) = {}
      /\ cache' = [cache EXCEPT ![Key(req[r].viewer)] = entry]
      /\ req' = [req EXCEPT ![r].entry = entry, ![r].phase = "answered"]
      /\ UNCHANGED <<tables, clock>>

Show(r) ==
  /\ req[r].phase = "answered"
  /\ req' = [req EXCEPT ![r] = Idle]
  /\ UNCHANGED <<tables, clock, cache>>

Second ==
  /\ clock < MaxClock
  /\ clock' = clock + 1
  /\ UNCHANGED <<tables, cache, req>>

\* a write of somebody else, or the next day, noted by everything read before
Beside ==
  LET seen == IF day' # day \/ night' # night THEN Loans
              ELSE {l \in Loans : loans'[l] # loans[l]}
  IN  /\ Write \/ Tick
      /\ cache' = [v \in Viewers |-> IF cache[v] = Nothing THEN Nothing
                                     ELSE [cache[v] EXCEPT !.moved = @ \cup seen]]
      /\ req' = [r \in Requests |-> IF req[r] = Idle THEN Idle
                                    ELSE [req[r] EXCEPT !.entry.moved = @ \cup seen]]
      /\ UNCHANGED clock

Next ==
  \/ Beside
  \/ Second
  \/ \E r \in Requests : \/ \E v \in Viewers : Get(r, v)
                         \/ \E f \in Figures : Read(r, f)
                         \/ Answer(r) \/ Show(r)

Spec == InitDashboard /\ [][Next]_vars

-----------------------------------------------------------------------------
(* Properties *)

Answered(r) == req[r].phase = "answered"

TypeOK ==
  /\ clock \in 1 .. MaxClock
  /\ \A v \in Viewers : cache[v] # Nothing => DOMAIN cache[v].values = Figures
  /\ \A r \in Requests :
       req[r] # Idle =>
         /\ req[r].viewer \in Viewers /\ req[r].entry.start \in 0 .. clock
         /\ \A f \in DOMAIN req[r].entry.values : req[r].entry.values[f] \in Nat

\* Figures that come from the cache were read less than Ttl ago, although the
\* request that read them may have taken long and answered late.
CachedFiguresAreRecent ==
  [][\A r \in Requests :
       req[r] = Idle /\ req'[r] # Idle /\ req'[r].hit => clock - req'[r].entry.start < Ttl]_vars

\* Where nothing was written since they were read, the figures are those of the
\* viewer, from the cache or not.
FiguresAreTheViewersOwn ==
  \A r \in Requests :
    Answered(r) /\ req[r].entry.moved = {}
      => \A f \in Figures : req[r].entry.values[f] = Value(req[r].viewer, day, f)

\* A loan nobody wrote during the reading is in one of the two counts, and one
\* that was written, or whose customer was, is in none, one or both.
LoansCountedOnceUnlessMoved ==
  \A r \in Requests :
    Answered(r) =>
      LET values == req[r].entry.values
          moved == req[r].entry.moved
          counted == values["active"] + values["overdue"]
          still == InStatus(req[r].viewer, Live) \ moved
      IN  /\ counted >= Cardinality(still)
          /\ counted <= Cardinality(still) + 2 * Cardinality(moved)
=============================================================================
