----------------------------- MODULE SettingsPage -----------------------------
(***************************************************************************)
(* The settings page in two tabs: a form for all settings, saved one by    *)
(* one, and the holiday calendar, which is replaced as a whole by every    *)
(* addition and removal.  Imports has the modal that the page also shows;  *)
(* here an import of holidays is one step.                                 *)
(*                                                                         *)
(* The answer to a query is what the server holds when it arrives;         *)
(* QueryCache has the answers that are older than that.                    *)
(***************************************************************************)
EXTENDS Integers, Sequences, FiniteSets, SequencesExt, FiniteSetsExt

CONSTANTS
  Tabs, Keys, Days,
  Parsed,      \* what a text is parsed to, of those that can be: [text -> value]
  Garbage,     \* texts that cannot
  Stringified,     \* stringifySettingValue: [value -> text]
  MaxWrites    \* bound: texts typed, additions, removals and imports

Texts == DOMAIN Parsed \cup Garbage
Values == DOMAIN Stringified

SettingsPageAssumption ==
  /\ Garbage \cap DOMAIN Parsed = {}
  /\ \A v \in Values : Stringified[v] \in DOMAIN Parsed /\ Parsed[Stringified[v]] = v
  /\ \A text \in DOMAIN Parsed : Parsed[text] \in Values
  /\ IsFiniteSet(Keys) /\ MaxWrites \in Nat

VARIABLES
  settings, holidays,  \* the settings table
  form,                \* state of SettingsSection, for each tab
  list,                \* state of HolidaySection and the query of it
  typed,               \* history: what was typed and not saved
  elsewhere,           \* history: tabs whose holidays someone else changed since
  writes

vars == <<settings, holidays, form, list, typed, elsewhere, writes>>
formVars == <<settings, form, typed>>
listVars == <<holidays, list, elsewhere>>

Write == writes < MaxWrites /\ writes' = writes + 1

Init ==
  /\ settings \in [Keys -> Values]
  /\ holidays = {}
  /\ form = [t \in Tabs |-> [hydrated |-> FALSE, original |-> [k \in Keys |-> ""],
                             current |-> [k \in Keys |-> ""], saving |-> <<>>, fetching |-> TRUE]]
  /\ list = [t \in Tabs |-> [loaded |-> FALSE, shown |-> {}, fetching |-> TRUE, put |-> "none", days |-> {}, day |-> 0,
                             removing |-> 0]]
  /\ typed = [t \in Tabs |-> {}]
  /\ elsewhere = {}
  /\ writes = 0

-----------------------------------------------------------------------------
(* The form *)

SetForm(t, f) == form' = [form EXCEPT ![t] = f]

\* only the first answer is taken over
Hydrated(t, texts) ==
  IF form[t].hydrated THEN form[t]
  ELSE [form[t] EXCEPT !.hydrated = TRUE, !.original = texts, !.current = texts]

SettingsArrive(t) ==
  /\ form[t].fetching
  /\ SetForm(t, [Hydrated(t, [k \in Keys |-> Stringified[settings[k]]]) EXCEPT !.fetching = FALSE])
  /\ UNCHANGED <<settings, typed, listVars, writes>>

Type(t, k, text) ==
  /\ Write
  /\ form[t].hydrated /\ form[t].current[k] # text
  /\ SetForm(t, [form[t] EXCEPT !.current[k] = text])
  /\ typed' = [typed EXCEPT ![t] = @ \cup {k}]
  /\ UNCHANGED <<settings, listVars>>

\* getChangedSettings
Changed(t) == {k \in Keys : form[t].current[k] # form[t].original[k]}

ToSave(t) == Changed(t)

\* The changes are those of the moment; more may be typed while they are saved.
PressSave(t) ==
  /\ form[t].saving = <<>> /\ Changed(t) # {}
  /\ SetForm(t, [form[t] EXCEPT
       !.saving = SetToSeq({[key |-> k, text |-> form[t].current[k]] : k \in ToSave(t)})])
  /\ UNCHANGED <<settings, typed, listVars, writes>>

\* A save is committed at once.
Saved(t, edit) == [form[t].original EXCEPT ![edit.key] = edit.text]

\* parseSettingValue
ParsedValue(text) == Parsed[text]

\* Every tab has a client of its own, so only its own query is invalidated.
SaveNext(t) ==
  /\ form[t].saving # <<>>
  /\ LET edit == Head(form[t].saving)
     IN  /\ edit.text \in DOMAIN Parsed
         /\ settings' = [settings EXCEPT ![edit.key] = ParsedValue(edit.text)]
         /\ SetForm(t, [form[t] EXCEPT !.original = Saved(t, edit),
                                       !.saving = Tail(@), !.fetching = TRUE])
         /\ typed' = [typed EXCEPT ![t] = IF form[t].current[edit.key] = edit.text
                                          THEN @ \ {edit.key} ELSE @]
  /\ list' = [list EXCEPT ![t].fetching = TRUE]
  /\ UNCHANGED <<holidays, elsewhere, writes>>

\* A text that cannot be parsed, or a request that fails: the rest is not sent.
SaveFails(t) ==
  /\ form[t].saving # <<>>
  /\ SetForm(t, [form[t] EXCEPT !.saving = <<>>])
  /\ UNCHANGED <<settings, typed, listVars, writes>>

-----------------------------------------------------------------------------
(* The holidays *)

SetList(t, l) == list' = [list EXCEPT ![t] = l]

HolidaysArrive(t) ==
  /\ list[t].fetching
  /\ SetList(t, [list[t] EXCEPT !.loaded = TRUE, !.fetching = FALSE, !.shown = holidays])
  /\ elsewhere' = elsewhere \ {t}
  /\ UNCHANGED <<holidays, formVars, writes>>

Put(t, what, days, d) ==
  SetList(t, [list[t] EXCEPT !.put = what, !.days = days, !.day = d])

\* the list is made of what the page shows; the dialog of a removal covers it
AddHoliday(t, d) ==
  /\ Write
  /\ list[t].loaded /\ list[t].put = "none" /\ list[t].removing = 0
  /\ d \notin list[t].shown
  /\ Put(t, "add", list[t].shown \cup {d}, d)
  /\ UNCHANGED <<holidays, elsewhere, formVars>>

AskRemoval(t, d) ==
  /\ list[t].put = "none" /\ list[t].removing = 0 /\ d \in list[t].shown
  /\ SetList(t, [list[t] EXCEPT !.removing = d])
  /\ UNCHANGED <<holidays, elsewhere, formVars, writes>>

CancelRemoval(t) ==
  /\ list[t].removing # 0
  /\ SetList(t, [list[t] EXCEPT !.removing = 0])
  /\ UNCHANGED <<holidays, elsewhere, formVars, writes>>

ConfirmRemoval(t) ==
  /\ Write
  /\ list[t].put = "none" /\ list[t].removing # 0
  /\ Put(t, "remove", list[t].shown \ {list[t].removing}, list[t].removing)
  /\ UNCHANGED <<holidays, elsewhere, formVars>>

\* Slip: the page is not told.
NotRefreshed(t) == [list[t] EXCEPT !.put = "none", !.removing = 0]

\* useSetHolidays invalidates both queries
Refreshed(t) == [list[t] EXCEPT !.put = "none", !.removing = 0, !.fetching = TRUE]

PutArrives(t) ==
  /\ list[t].put # "none"
  /\ holidays' = list[t].days
  /\ SetList(t, Refreshed(t))
  /\ form' = [form EXCEPT ![t].fetching = TRUE]
  /\ elsewhere' = elsewhere \cup (Tabs \ {t})
  /\ UNCHANGED <<settings, typed, writes>>

PutFails(t) ==
  /\ list[t].put # "none"
  /\ SetList(t, [list[t] EXCEPT !.put = "none"])
  /\ UNCHANGED <<holidays, elsewhere, formVars, writes>>

\* ImportModal for holidays, without an onCommitted: no query is invalidated.
ImportHolidays(days) ==
  /\ Write
  /\ ~(days \subseteq holidays)
  /\ holidays' = holidays \cup days
  /\ elsewhere' = Tabs
  /\ UNCHANGED <<list, formVars>>

Next ==
  \/ \E t \in Tabs :
       \/ SettingsArrive(t) \/ PressSave(t) \/ SaveNext(t) \/ SaveFails(t)
       \/ \E k \in Keys, text \in Texts : Type(t, k, text)
       \/ HolidaysArrive(t) \/ CancelRemoval(t) \/ ConfirmRemoval(t)
       \/ PutArrives(t) \/ PutFails(t)
       \/ \E d \in Days : AddHoliday(t, d) \/ AskRemoval(t, d)
  \/ \E days \in SUBSET Days \ {{}} : ImportHolidays(days)

Spec == Init /\ [][Next]_vars

-----------------------------------------------------------------------------
(* Properties *)

TypeOK ==
  /\ settings \in [Keys -> Values] /\ holidays \subseteq Days
  /\ \A t \in Tabs :
       /\ form[t].hydrated => form[t].current \in [Keys -> Texts]
       /\ list[t].shown \subseteq Days /\ list[t].days \subseteq Days

\* What the form would save is what was typed and is not saved yet: no answer to
\* a query, no setting changed in the other tab and no save that stopped half way
\* makes a key dirty (SettingsSection).
OnlyEditsAreDirty == \A t \in Tabs : Changed(t) \subseteq typed[t]

\* A setting changes only to something typed for it, by somebody who typed it:
\* a save does not take back what the other tab saved (handleSave).
SavesWriteEdits ==
  [][\A k \in Keys : settings'[k] # settings[k] =>
       \E t \in Tabs, text \in DOMAIN Parsed :
         /\ k \in typed[t] /\ settings'[k] = Parsed[text]
         /\ \E i \in DOMAIN form[t].saving : form[t].saving[i] = [key |-> k, text |-> text]]_vars

\* A page that nobody else changed the calendar for shows the calendar, once its
\* own requests are answered (useSetHolidays).  PutFails is a request that had no
\* effect: one that had and whose answer was lost leaves the page behind.
TableIsTheCalendar ==
  \A t \in Tabs :
    ~list[t].fetching /\ t \notin elsewhere => list[t].shown = holidays
=============================================================================
