CONSTANTS
  N = 2
  Principal <- MCPrincipal
  Interest <- MCInterest
  DueDay <- MCDueDay
  Periods = 1
  PenaltyType = "flat_per_period"
  PenaltyValue = 2
  GraceDays = 0
  ProcessingFee = 1
  Order <- PenaltyFirst
  InterestType = "reducing_balance"
  RateNum = 1
  RateDen = 2
  QuoteDrift = 1
  QuoteDays = 1
  Amounts = {1, 2}
  Rebates = {1}
  MaxDay = 2
  MaxCollections = 4
  MaxQuotes = 2
SPECIFICATION Spec
INVARIANTS
  ReversalsPairUp
  NeverOverpaid
  PaidIsNetAllocated
  CachedBracketsOutstanding
  SettledOnce
  PaidFlagsFollowPayments
  LedgerTiesToAccounts
PROPERTIES
  SettlementCoversDues
  ClosesOnlySettled
CHECK_DEADLOCK FALSE
