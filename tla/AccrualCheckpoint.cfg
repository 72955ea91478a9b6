CONSTANTS
  N = 2
  Principal <- MCPrincipal
  Interest <- MCInterest
  DueDay <- MCDueDay
  Periods = 0
  PenaltyType = "flat_per_period"
  PenaltyValue = 0
  GraceDays = 0
  ProcessingFee = 0
  Order <- PenaltyFirst
  InterestType = "reducing_balance"
  RateNum = 1
  RateDen = 8
  QuoteDrift = 1
  QuoteDays = 1
  Amounts = {1, 2}
  Rebates = {0}
  MaxDay = 2
  MaxCollections = 2
  MaxQuotes = 1
SPECIFICATION Spec
PROPERTIES
  PaymentsMoveTheCheckpoint
CHECK_DEADLOCK FALSE
