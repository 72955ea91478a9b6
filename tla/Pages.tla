-------------------------------- MODULE Pages --------------------------------
(***************************************************************************)
(* Four pages of the web client with the handlers they call: the page of a *)
(* loan, the documents of a customer, the import of settings, and the      *)
(* settings.  A behaviour is about one of them, `screen', and the others   *)
(* stay as they begin: they write no row of each other's, but for the      *)
(* settings, which import and settings page each have in the form they     *)
(* need.                                                                   *)
(***************************************************************************)
EXTENDS Documents

CONSTANTS
  MaxOwed, Fine, QuoteDrift, MaxQuotes,                              \* LoanDesk
  Kind, MaxImportRows, MaxEdits, MaxUploads, MaxChanges,
  LookBack, MaxDays,                                                 \* Imports
  Tabs, SettingKeys, Days, Parsed, Garbage, Stringified, MaxWrites       \* SettingsPage

VARIABLES
  screen,
  role, loan, hidden, quotes, view, pending, desk, request, stale,   \* LoanDesk
  settings, hand, previews, trail, modal, sent, trouble,             \* Imports
  day, changes, uploaded,
  values, holidays, form, list, typed, elsewhere, writes             \* SettingsPage

deskVars == <<role, loan, hidden, quotes, view, pending, desk, request, stale>>
importVars == <<settings, hand, previews, trail, modal, sent, trouble, day, changes, uploaded>>
settingVars == <<values, holidays, form, list, typed, elsewhere, writes>>

Desk == INSTANCE LoanDesk

Import == INSTANCE Imports WITH drafts <- previews, uploads <- uploaded

Form == INSTANCE SettingsPage WITH Keys <- SettingKeys, settings <- values

ASSUME PagesAssumption ==
  /\ Desk!LoanDeskAssumption /\ Form!SettingsPageAssumption
  /\ Import!WorkbookAssumption /\ Import!ImportsAssumption

pageVars == <<screen, deskVars, vars, importVars, settingVars>>

PagesInit ==
  /\ screen \in {"loan", "documents", "import", "settings"}
  /\ Desk!Init /\ Init /\ Import!Init /\ Form!Init

PagesNext ==
  /\ \/ screen = "loan" /\ Desk!Next /\ UNCHANGED <<vars, importVars, settingVars>>
     \/ screen = "documents" /\ Next /\ UNCHANGED <<deskVars, importVars, settingVars>>
     \/ screen = "import" /\ Import!Next /\ UNCHANGED <<deskVars, vars, settingVars>>
     \/ screen = "settings" /\ Form!Next /\ UNCHANGED <<deskVars, vars, importVars>>
  /\ UNCHANGED screen

PagesSpec == PagesInit /\ [][PagesNext]_pageVars

-----------------------------------------------------------------------------
\* One quote settles a loan and forecloses it; a button that a current page
\* offers is accepted but for what the page cannot know; and a rebate reaches a
\* quote only by way of an expired one (page.tsx, ForeclosureService).
DeskAgreesWithServer ==
  screen = "loan" =>
    Desk!TypeOK /\ Desk!OneSettlement /\ Desk!OfferedIsAccepted /\ Desk!RebateNeedsAnExpiredQuote

\* Every row of a file is imported or named, what was exported comes back as it
\* was, and neither a second commit of a draft nor a second import of a file
\* goes unannounced (ImportModal, ImportService).
ImportsAreAnnounced ==
  screen = "import" =>
    /\ Import!TypeOK /\ Import!EveryRowIsAccountedFor /\ Import!RoundTrip
    /\ Import!CommitsOverlapOnlyAfterTrouble /\ Import!SecondImportIsAnnounced

\* What a form shows as changed was typed into it, the table of holidays is the
\* calendar, and a setting changes only to something typed for it
\* (SettingsSection, HolidaySection).
FormsFollowTheTable ==
  /\ [](screen = "settings" =>
         Form!TypeOK /\ Form!OnlyEditsAreDirty /\ Form!TableIsTheCalendar)
  /\ Form!SavesWriteEdits

=============================================================================
