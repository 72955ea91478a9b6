CONSTANTS
  asha = asha
  bina = bina
  NoForm = NoForm
  Kinds = {"collection", "reversal", "group", "disbursement", "foreclosure", "expense", "handover", "application", "decision"}
  Inputs = {asha, bina}
  MaxVisits = 2
  MaxSubmits = 3
  Staff = {"manager", "officer", "caller"}
  FieldOfficers = {"officer"}
  ApiCallers = {"caller"}
  Ids = {"c1", "c2"}
  Aadhaars = {1, 2}
  Mobiles = {1, 2}
  NotesTexts = {1}
  Registered = {"c1"}
  FirstOfficer = "officer"
  MaxRequests = 2
SPECIFICATION WebSpec
INVARIANTS
  ToldIsPosted
  OneEffectPerVisit
  
PROPERTIES
  OwnWritesReachTheScreen
  WritesMeetWhatWasRead
CHECK_DEADLOCK FALSE
