CONSTANTS
  c1 = c1
  c2 = c2
  e1 = e1
  e2 = e2
  collectionKey = collectionKey
  expenseKey = expenseKey
  loan1 = loan1
  tab1 = tab1
  None = None
  Requests <- MCRequests
  Keys <- MCKeys
  KeyOf <- MCKeyOf
  Transactional <- MCTransactional
  Loans = {loan1}
  LoanOf <- MCLoanOf
  TTL = 1
  MaxTime = 3
  Tabs = {tab1}
  Absent = Absent
  Attempts = 2
  CacheTtl = 2
  LastTick = 2
  MaxTokens = 3
  MaxChanges = 1
SPECIFICATION ServicesSpec
INVARIANTS
  NoDuplicateEffects
CHECK_DEADLOCK FALSE
