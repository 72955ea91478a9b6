CONSTANTS
  asha = asha
  meera = meera
  ravi = ravi
  Nobody = Nobody
  NoDay = NoDay
  MonthLengths <- MCMonthLengths
  HolidayCalendar <- MCHolidays
  RateBase = 1
  MaxLoans = 1
  Customers = {asha}
  Staff = {meera, ravi}
  Unrestricted = {meera}
  Bypass = {}
  Officer <- MCOfficer
  Documented = {asha}
  FirstTerms <- MCFirstTerms
  Rates = {1}
  Caps = {1, 2}
  Principals = {5}
  Tenures = {2}
  FirstDates <- MCFirstDates
  Days <- MCDays
  MaxVersion = 6
  MaxEdits = 2
  AuditPrincipals <- MCAuditPrincipals
  AuditRates <- MCAuditRates
  AuditTenures <- MCAuditTenures
  AuditDays <- MCAuditDays
SPECIFICATION Spec
INVARIANTS
  FourEyes
  ScheduleInForce
  CurrentVersionIsLatest
  SchedulesAddUp
PROPERTIES
  ImplementsWorkflow
  ScheduleKeptOncePaid
CHECK_DEADLOCK FALSE
