CONSTANTS
  k1 = k1
  k2 = k2
  k3 = k3
  rate = rate
  grace = grace
  Staff = {"manager", "officer"}
  FieldOfficers = {"officer"}
  AssignedOfficer = "officer"
  Keys = {k1, k2, k3}
  DocTypes = {"pan"}
  Other = "other"
  MaxDeaths = 1
  MaxOwed = 2
  Fine = 2
  QuoteDrift = 1
  MaxQuotes = 2
  Kind <- MCKind
  MaxImportRows = 3
  MaxEdits = 1
  MaxUploads = 2
  MaxChanges = 1
  LookBack = 1
  MaxDays = 2
  Tabs = {1, 2}
  SettingKeys = {rate, grace}
  Days = {26, 27}
  Parsed <- MCParsed
  Garbage = {"x"}
  Stringified <- MCStringified
  MaxWrites = 2
SPECIFICATION MCSpec
CONSTRAINTS TwoQuotesOnePosting OneThingWrong
SYMMETRY KeySymmetry
INVARIANTS
  DeskAgreesWithServer
  DocumentsAreKept
  ImportsAreAnnounced
PROPERTIES
  FormsFollowTheTable
CHECK_DEADLOCK FALSE
