------------------------------ MODULE BackOffice ------------------------------
(***************************************************************************)
(* The back office: Office, or a page that reads the tables of Portfolio   *)
(* while they are written: the reports, the dashboard or the exports.  A   *)
(* reading page writes none of what the others read, so `screen' says      *)
(* which of the four a behaviour is about; the others stay as they begin.  *)
(***************************************************************************)
EXTENDS Office

CONSTANTS
  Lent, Officers, Parts, DueIn, MaxDay, MaxPosted,      \* Portfolio
  Manager,
  Collector, AreaOfficers, Readers, Types,              \* Reports
  Watchers, Refreshes, Figures, Ttl, MaxClock,          \* Dashboard
  MaxImportRows, FileCap, PageSize, Inputs, CanUnmask   \* Exports

VARIABLES
  screen,
  today, night, loans, collections, entries,  \* Portfolio
  desk, reassigned, changed,                  \* Reports
  clock, cache, req,                          \* Dashboard
  page, button                                \* Exports

tables == <<today, night, loans, collections, entries>>
reportVars == <<desk, reassigned, changed>>
dashboardVars == <<clock, cache, req>>
exportVars == <<page, button>>

Rep == INSTANCE Reports WITH
         Loans <- Lent, MaxEntries <- MaxPosted, Viewers <- Readers, day <- today,
         journal <- entries

Board == INSTANCE Dashboard WITH
           Loans <- Lent, MaxEntries <- MaxPosted, Viewers <- Watchers, Requests <- Refreshes,
           day <- today, journal <- entries

Lists == INSTANCE Exports WITH
           Loans <- Lent, MaxEntries <- MaxPosted, day <- today, journal <- entries

ASSUME BackOfficeAssumption ==
  /\ Rep!PortfolioAssumption /\ Rep!ReportsAssumption /\ Board!DashboardAssumption
  /\ Lists!WorkbookAssumption /\ Lists!ExportsAssumption

readingVars == <<tables, reportVars, dashboardVars, exportVars>>
backOfficeVars == <<screen, officeVars, readingVars>>

BackOfficeInit ==
  /\ screen \in {"office", "reports", "dashboard", "exports"}
  /\ OfficeInit /\ Rep!InitReports /\ Board!InitDashboard /\ Lists!InitExports
  /\ screen = "office" => \A l \in Lent : loans[l].officer = CHOOSE o \in Officers : TRUE

BackOfficeNext ==
  /\ \/ screen = "office" /\ OfficeNext /\ UNCHANGED readingVars
     \/ screen = "reports" /\ Rep!Next /\ UNCHANGED <<officeVars, dashboardVars, exportVars>>
     \/ screen = "dashboard" /\ Board!Next /\ UNCHANGED <<officeVars, reportVars, exportVars>>
     \/ screen = "exports" /\ Lists!Next /\ UNCHANGED <<officeVars, reportVars, dashboardVars>>
  /\ UNCHANGED screen

BackOfficeSpec == BackOfficeInit /\ [][BackOfficeNext]_backOfficeVars

-----------------------------------------------------------------------------
\* A report shows all the rows it is about, its sums are those of its rows, and
\* its file is what was on screen, although scope, rows and journal lines are
\* read one after another; in the four reports that filter by customer a field
\* officer sees rows of the own customers only.  The disbursement and the
\* dpd-aging report show her the whole book (ReportService).  A
\* file of the exports has what the list had with the filters that were applied,
\* no more than its dates allow, and full numbers if they were chosen
\* (ExportService).
ReadersTellTheirRows ==
  /\ screen = "reports" =>
       /\ Rep!TypeOK /\ Rep!DailyTotalMatchesItsRows /\ Rep!StatementsBalance
       /\ Rep!OfficersSeeTheirCustomers /\ Rep!DailyReportMissesNothing
       /\ Rep!FileHasWhatThePageShows
  /\ screen = "exports" =>
       /\ Lists!TypeOK /\ Lists!ListedRowsAreExported /\ Lists!FileIsWithinTheDates
       /\ Lists!FullNumbersWereChosen

\* "field_officer: sees only own assigned data" (report.service.ts), in all six
\* reports about loans.
OfficersSeeOnlyTheirCustomers ==
  screen = "reports" => Rep!OnlyOwnRowsIn(Rep!AboutLoans)

\* The figures of the dashboard are the viewer's own, from the cache or not,
\* and count each loan once unless it was written while the figures were read
\* one after another; those that come from the cache were read less than Ttl ago,
\* however long the request took that read them (DashboardService).
FiguresCountOnce ==
  /\ [](screen = "dashboard" =>
         Board!TypeOK /\ Board!FiguresAreTheViewersOwn /\ Board!LoansCountedOnceUnlessMoved)
  /\ Board!CachedFiguresAreRecent
===============================================================================
