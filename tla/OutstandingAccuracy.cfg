CONSTANTS
  N = 2
  Principal <- MCPrincipal
  Interest <- MCInterest
  DueDay <- MCDueDay
  Periods = 1
  PenaltyType = "flat_per_period"
  PenaltyValue = 2
  GraceDays = 0
  ProcessingFee = 0
  Order <- PenaltyFirst
  InterestType = "reducing_balance"
  RateNum = 1
  RateDen = 8
  QuoteDrift = 1
  QuoteDays = 1
  Amounts = {1, 2}
  Rebates = {1}
  MaxDay = 2
  MaxCollections = 3
  MaxQuotes = 0
SPECIFICATION Spec
INVARIANTS
  OutstandingAccuracy
CHECK_DEADLOCK FALSE
