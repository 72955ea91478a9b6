CONSTANTS
  meera = meera
  ravi = ravi
  sita = sita
  v1 = v1
  v2 = v2
  r1 = r1
  r2 = r2
  gold = gold
  silver = silver
  l1 = l1
  l2 = l2
  None = None
  Days = {1, 2}
  Amounts = {0, 1, 2}
  Staff = {meera, ravi, sita}
  Receivers = {meera, sita}
  Verifiers = {v1, v2}
  MaxEntries = 2
  MaxHandovers = 1
  MaxVerdicts = 3
  Users = {meera, ravi, sita}
  InitialUsers <- MCUsers
  Holidays = {1, 2}
  Products = {gold, silver}
  Files <- MCFiles
  Requests = {r1, r2}
  MaxUpdates = 2
  MaxImports = 3
  Lent = {l1, l2}
  Officers = {"asha", "ravi"}
  Parts = 2
  DueIn = 0
  MaxDay = 2
  MaxPosted = 3
  Manager = "manager"
  Collector = "collector"
  AreaOfficers = {"asha"}
  Readers = {"manager", "collector", "asha"}
  Types = {"daily-collection", "overdue", "disbursement", "loan-portfolio", "dpd-aging",
           "trial-balance", "profit-loss", "balance-sheet", "emi-schedule", "customer"}
  Watchers = {"manager", "asha"}
  Refreshes = {1}
  Figures = {"active", "overdue", "outstanding"}
  Ttl = 1
  MaxClock = 2
  MaxImportRows = 1
  FileCap = 1
  PageSize = 1
  Inputs <- MCInputs
  CanUnmask = TRUE
SPECIFICATION BackOfficeSpec
CONSTRAINTS SecondLoanStays ThreeOfALoan
INVARIANT OfficersSeeOnlyTheirCustomers
CHECK_DEADLOCK FALSE
