-------------------------------- MODULE Imports --------------------------------
(***************************************************************************)
(* An administrator downloads the settings, or a blank template, edits the *)
(* sheet, and imports it with the modal of the settings page: upload,      *)
(* preview, commit.  Another administrator may change settings meanwhile,  *)
(* and another tab may import other files.                                 *)
(*                                                                         *)
(* Administration has the import of holidays and of loan products, many    *)
(* administrators and the restart that loses the drafts.                   *)
(***************************************************************************)
EXTENDS Workbook

CONSTANTS
  Kind,          \* [SettingNames -> {"number", "boolean", "array"}]
  MaxEdits,      \* bound: edits of a downloaded sheet
  MaxUploads,    \* bound: files uploaded
  MaxChanges,    \* bound: settings changed by somebody else
  LookBack,      \* import.service.ts: how many imports the look-up takes, 100
  MaxDays        \* bound: days, more than 24 hours from one to the next

SettingNames == DOMAIN Kind
Types == {"number", "boolean", "array"}

ImportsAssumption ==
  /\ Kind \in [SettingNames -> Types] /\ SettingNames # {} /\ IsFiniteSet(SettingNames)
  /\ {MaxEdits, MaxUploads, MaxChanges, MaxDays} \subseteq Nat
  /\ LookBack \in Nat \ {0}

VARIABLES
  settings,  \* settings, without the holiday calendar
  hand,      \* the sheet the administrator has, and where it came from
  drafts,    \* ImportService.drafts
  trail,     \* the data_imported rows of the audit log, newest first
  modal,     \* open, busy and dryRun of ImportModal
  sent,      \* requests of the modal that have not been answered
  trouble,   \* history: an answer was lost, or came to a modal opened anew
  day, changes, uploads

vars == <<settings, hand, drafts, trail, modal, sent, trouble, day, changes, uploads>>

Value(type, of) == [type |-> type, of |-> of]
ValuesOf(type) == {Value(type, of) : of \in {"0", "1"}}

Schema == {"key", "value"}

Closed == [open |-> FALSE, busy |-> "no", draft |-> 0]

-----------------------------------------------------------------------------
(* Texts of values *)

Form == [number |-> "digits", boolean |-> "word", array |-> "brackets"]

\* exportSettings: JSON.stringify of an object, String of anything else
Printed(v) == Cell(Form[v.type], v.of)

\* coerceToExistingType: a boolean may also be written with a digit.
Readable(text, type) ==
  CASE type = "number" -> text.form = "digits"
    [] type = "boolean" -> text.form \in {"word", "digits"}
    [] OTHER -> text.form = "brackets"

Coerced(text, type) == Value(type, text.of)

-----------------------------------------------------------------------------
(* Sheets *)

NoHand == [from |-> "nothing", rows |-> <<>>, edits |-> 0, was |-> <<>>]

SettingsColumns ==
  <<[key |-> "key", label |-> "key", type |-> "name", mask |-> FALSE],
    [key |-> "value", label |-> "value", type |-> "text", mask |-> FALSE],
    [key |-> "description", label |-> "description", type |-> "none", mask |-> FALSE]>>

\* a row of the export: its cells are texts already
SettingRow(k) ==
  [key |-> [type |-> "name", of |-> k],
   value |-> [type |-> Printed(settings[k]).form, of |-> settings[k].of],
   description |-> [type |-> "none", of |-> ""]]

Listed == SetToSeq(SettingNames)

\* exportSettings; no filters, and the count as the summary
SettingsSheet ==
  ExportToBuffer(SettingsColumns, [i \in DOMAIN Listed |-> SettingRow(Listed[i])], FALSE, TRUE, FALSE)

\* generateTemplate: an example, and a note where the filters stand
TemplateSheet ==
  ExportToBuffer(SubSeq(SettingsColumns, 1, 2), <<SettingRow(Listed[1])>>, TRUE, FALSE, FALSE)

Download(from, sheet) ==
  /\ hand.from = "nothing"
  /\ hand' = [from |-> from, rows |-> sheet, edits |-> 0, was |-> settings]
  /\ UNCHANGED <<settings, drafts, trail, modal, sent, trouble, day, changes, uploads>>

\* Bound: a sheet is edited while the modal is closed.
Edit(rows, cost) ==
  /\ hand.from # "nothing" /\ hand.edits + cost <= MaxEdits
  /\ modal = Closed
  /\ hand' = [hand EXCEPT !.rows = rows, !.edits = @ + cost,
                          !.from = IF cost = 0 THEN @ ELSE "edited"]
  /\ UNCHANGED <<settings, drafts, trail, modal, sent, trouble, day, changes, uploads>>

\* The lines above the header are deleted.
DeleteHeading ==
  /\ hand.from = "export" /\ hand.rows[1] = hand.rows[2]
  /\ Edit(SubSeq(hand.rows, 4, Len(hand.rows)), 0)

\* The example of a template is overwritten, as the note in it says.
FillTemplate(k, v) ==
  /\ hand.from = "template"
  /\ Edit([hand.rows EXCEPT ![Len(hand.rows)] = <<Cell("name", k), Printed(v)>>], 0)

InsertBlankRow(i) == Edit(InsertAt(hand.rows, i, <<>>), 1)
DeleteRow(i) == Edit(RemoveAt(hand.rows, i), 1)
\* also of the header, and of a cell with nothing in it
ClearCell(i, c) == Edit([hand.rows EXCEPT ![i][c] = Blank], 1)
InsertColumn ==
  Edit([i \in DOMAIN hand.rows |->
          IF hand.rows[i] = <<>> THEN <<>> ELSE InsertAt(hand.rows[i], 2, Blank)], 1)

-----------------------------------------------------------------------------
(* The modal *)

Open ==
  /\ ~modal.open
  /\ modal' = [modal EXCEPT !.open = TRUE]
  /\ UNCHANGED <<settings, hand, drafts, trail, sent, trouble, day, changes, uploads>>

\* Slip: the preview stays.
ClosedWithPreview == [Closed EXCEPT !.draft = modal.draft]

\* the effect on open; nothing stops a request that is on its way
ClosedAgain == Closed

Belated(requests) == {IF q.ask = "upload" THEN [q EXCEPT !.late = TRUE] ELSE q : q \in requests}

Close ==
  /\ modal.open
  /\ modal' = ClosedAgain
  /\ sent' = Belated(sent)
  /\ UNCHANGED <<settings, hand, drafts, trail, trouble, day, changes, uploads>>

Another ==
  /\ modal.open /\ modal.busy = "no" /\ modal.draft # 0
  /\ modal' = [modal EXCEPT !.draft = 0]
  /\ UNCHANGED <<settings, hand, drafts, trail, sent, trouble, day, changes, uploads>>

\* findRecentDuplicate: a walk over the imports of the last 24 hours, the newest
\* LookBack of them
ImportedRecently(sheet) ==
  \E i \in DOMAIN trail : i <= LookBack /\ trail[i].sheet = sheet /\ trail[i].day = day

\* handleFileChange and dryRun: the file is parsed, and what it holds is kept
\* as a draft.  A file that cannot be parsed is an error.  A look-up that fails
\* is swallowed: there is a draft, and no warning.
Upload ==
  /\ modal.open /\ modal.busy = "no" /\ modal.draft = 0
  /\ hand.from # "nothing" /\ uploads < MaxUploads
  /\ uploads' = uploads + 1
  /\ modal' = [modal EXCEPT !.busy = "uploading"]
  /\ IF Refused(hand.rows, Schema)
     THEN /\ sent' = sent \cup {[ask |-> "upload", draft |-> 0, from |-> hand.from, late |-> FALSE]}
          /\ UNCHANGED drafts
     ELSE /\ \E looked \in BOOLEAN :
               drafts' = drafts \cup
                 {[id |-> uploads + 1, sheet |-> hand.rows, from |-> hand.from, was |-> hand.was,
                   parsed |-> ParseToRows(hand.rows, Schema), looked |-> looked,
                   warned |-> looked /\ ImportedRecently(hand.rows),
                   day |-> day, seen |-> Len(trail)]}
          /\ sent' = sent \cup
               {[ask |-> "upload", draft |-> uploads + 1, from |-> hand.from, late |-> FALSE]}
  /\ UNCHANGED <<settings, hand, trail, trouble, day, changes>>

\* The answer is shown, whatever the modal shows by now.
UploadAnswered(q) ==
  /\ q \in sent /\ q.ask = "upload"
  /\ sent' = sent \ {q}
  /\ modal' = [modal EXCEPT !.busy = "no", !.draft = IF q.draft = 0 THEN @ ELSE q.draft]
  /\ trouble' = (trouble \/ q.late)
  /\ UNCHANGED <<settings, hand, drafts, trail, day, changes, uploads>>

Offered == CHOOSE d \in drafts : d.id = modal.draft
Known == \E d \in drafts : d.id = modal.draft

PressCommit ==
  /\ modal.open /\ modal.busy = "no" /\ modal.draft # 0
  /\ Known => Offered.parsed.valid # <<>>
  /\ modal' = [modal EXCEPT !.busy = "committing"]
  /\ sent' = sent \cup
       {IF Known
        THEN [ask |-> "commit", n |-> modal.draft, body |-> Offered, next |-> 1,
              wrote |-> {}, skipped |-> {}, step |-> "rows", heard |-> TRUE]
        ELSE [ask |-> "commit", n |-> modal.draft, step |-> "refused", heard |-> TRUE]}
  /\ UNCHANGED <<settings, hand, drafts, trail, trouble, day, changes, uploads>>

\* SettingsImporter.applyRow, one row of a commit after the other: the key must
\* exist, and the text must be one for a value of its type.
Acceptable(cells) ==
  /\ cells["key"].form = "name" /\ cells["key"].of \in SettingNames
  /\ Readable(cells["value"], settings[cells["key"].of].type)

Replace(q, r) == sent' = (sent \ {q}) \cup {r}

ApplyRow(q) ==
  /\ q \in sent /\ q.ask = "commit" /\ q.step = "rows"
  /\ q.next <= Len(q.body.parsed.valid)
  /\ LET cells == q.body.parsed.valid[q.next].cells
         key == cells["key"].of
     IN  IF Acceptable(cells)
         THEN LET v == Coerced(cells["value"], settings[key].type)
              IN  /\ settings' = [settings EXCEPT ![key] = v]
                  /\ Replace(q, [q EXCEPT !.next = @ + 1, !.wrote = @ \cup {<<key, v>>}])
         ELSE /\ Replace(q, [q EXCEPT !.next = @ + 1, !.skipped = @ \cup {q.next}])
              /\ UNCHANGED settings
  /\ UNCHANGED <<hand, drafts, trail, modal, trouble, day, changes, uploads>>

\* The draft goes and the audit log is written, or is not.
EndCommit(q) ==
  /\ q \in sent /\ q.ask = "commit" /\ q.step = "rows"
  /\ q.next > Len(q.body.parsed.valid)
  /\ Replace(q, [q EXCEPT !.step = "done"])
  /\ drafts' = drafts \ {q.body}
  /\ \/ trail' = <<[sheet |-> q.body.sheet, day |-> day, draft |-> q.body]>> \o trail
     \/ UNCHANGED trail
  /\ UNCHANGED <<settings, hand, modal, trouble, day, changes, uploads>>

\* A commit that was answered closes the modal; one that was refused, the draft
\* being gone, leaves it open.
CommitAnswered(q) ==
  /\ q \in sent /\ q.ask = "commit" /\ q.step \in {"done", "refused"}
  /\ LET closes == q.heard /\ q.step = "done" /\ modal.open
     IN  /\ sent' = IF closes THEN Belated(sent \ {q}) ELSE sent \ {q}
         /\ modal' = CASE ~q.heard -> modal
                      [] closes -> ClosedAgain
                      [] OTHER -> [modal EXCEPT !.busy = "no"]
  /\ UNCHANGED <<settings, hand, drafts, trail, trouble, day, changes, uploads>>

\* The connection breaks: an error for the modal, while the server goes on.
CommitLost(q) ==
  /\ q \in sent /\ q.ask = "commit" /\ q.heard
  /\ changes < MaxChanges
  /\ changes' = changes + 1
  /\ Replace(q, [q EXCEPT !.heard = FALSE])
  /\ modal' = [modal EXCEPT !.busy = "no"]
  /\ trouble' = TRUE
  /\ UNCHANGED <<settings, hand, drafts, trail, day, uploads>>

-----------------------------------------------------------------------------
(* Beside the modal *)

ChangeSetting(k, v) ==
  /\ changes < MaxChanges /\ v.type = Kind[k] /\ v # settings[k]
  /\ settings' = [settings EXCEPT ![k] = v]
  /\ changes' = changes + 1
  /\ UNCHANGED <<hand, drafts, trail, modal, sent, trouble, day, uploads>>

\* somebody imports another file
ImportElsewhere ==
  /\ changes < MaxChanges
  /\ changes' = changes + 1
  /\ trail' = <<[sheet |-> <<>>, day |-> day, draft |-> <<>>]>> \o trail
  /\ UNCHANGED <<settings, hand, drafts, modal, sent, trouble, day, uploads>>

\* More than 24 hours pass.  Bound: only once something was imported.
NextDay ==
  /\ trail # <<>> /\ day < MaxDays
  /\ day' = day + 1
  /\ UNCHANGED <<settings, hand, drafts, trail, modal, sent, trouble, changes, uploads>>

Init ==
  /\ settings = [k \in SettingNames |-> Value(Kind[k], "1")]
  /\ hand = NoHand /\ drafts = {} /\ trail = <<>>
  /\ modal = Closed /\ sent = {} /\ trouble = FALSE
  /\ day = 1 /\ changes = 0 /\ uploads = 0

Editing ==
  \/ Download("export", SettingsSheet) \/ Download("template", TemplateSheet)
  \/ DeleteHeading \/ InsertColumn
  \/ \E k \in SettingNames : \E v \in ValuesOf(Kind[k]) : FillTemplate(k, v) \/ ChangeSetting(k, v)
  \/ \E i \in DOMAIN hand.rows :
       \/ InsertBlankRow(i) \/ DeleteRow(i)
       \/ \E c \in DOMAIN hand.rows[i] : ClearCell(i, c)

Next ==
  \/ Editing
  \/ Open \/ Close \/ Another \/ Upload \/ PressCommit
  \/ \E q \in sent : \/ UploadAnswered(q) \/ ApplyRow(q) \/ EndCommit(q)
                     \/ CommitAnswered(q) \/ CommitLost(q)
  \/ ImportElsewhere \/ NextDay

Spec == Init /\ [][Next]_vars

-----------------------------------------------------------------------------
(* Properties *)

Commits == {q \in sent : q.ask = "commit"}
Outcomes == {q \in Commits : q.step = "done"}

\* The settings keep their types, what is shown is nothing or a file that was
\* uploaded, and no request is sent but by a modal that is waiting.
TypeOK ==
  /\ \A k \in SettingNames : settings[k] \in ValuesOf(Kind[k])
  /\ modal \in [open : BOOLEAN, busy : {"no", "uploading", "committing"}, draft : 0 .. uploads]
  /\ \A d \in drafts : d.id \in 1 .. uploads
  /\ hand.edits \in 0 .. MaxEdits

\* Every row of a file that is not empty is either complete, and for the commit,
\* or named among the errors, never both and never neither (parseToRows).
EveryRowIsAccountedFor ==
  \A d \in drafts :
    LET good == {d.parsed.valid[i].index : i \in DOMAIN d.parsed.valid}
        bad == {e.index : e \in d.parsed.errors}
    IN  /\ good \cup bad = 1 .. d.parsed.total /\ good \cap bad = {}
        /\ \A i \in DOMAIN d.parsed.valid : \A key \in Schema :
             ~IsBlank(d.parsed.valid[i].cells[key])

\* Settings that were exported and are imported again, the lines above the
\* header deleted, get the values they had, all of them, whatever became of them
\* in between: what the export prints, the import reads (exportSettings,
\* exportToBuffer, parseToRows, coerceToExistingType).
RoundTrip ==
  \A q \in Outcomes :
    q.body.from = "export" => q.wrote = {<<k, q.body.was[k]>> : k \in SettingNames}

Overlapping(q, r) == q # r /\ q.n = r.n /\ q.step # "refused" /\ r.step # "refused"

\* A draft is committed again while a commit of it is under way only after an
\* answer was lost, or reached a modal that was closed and opened since: closing
\* the modal during a commit does not give the button back (ImportModal).
CommitsOverlapOnlyAfterTrouble ==
  \A q, r \in Commits : Overlapping(q, r) => trouble

\* Where the import logged as trail[j] was in the log, counted from the newest,
\* when the draft was made; not positive if it was not logged by then.
PlaceAtUpload(j, draft) == draft.seen - (Len(trail) - j)

\* Of two imports of one file within a day, the second was announced as such in
\* its preview, if the first had been logged by then, fewer than LookBack imports
\* were logged between them and the look-up did not fail; in each of the three
\* other cases the second goes unannounced (findRecentDuplicate).
SecondImportIsAnnounced ==
  \A i \in DOMAIN trail : \A j \in i + 1 .. Len(trail) :
    /\ trail[i].sheet = trail[j].sheet /\ trail[i].sheet # <<>>
    /\ trail[i].draft.looked
    /\ PlaceAtUpload(j, trail[i].draft) \in 1 .. LookBack
    /\ trail[i].draft.day = trail[j].day
    => trail[i].draft.warned
=============================================================================
