CONSTANTS
  asha = asha
  bina = bina
  chand = chand
  l1 = l1
  l2 = l2
  l3 = l3
  k1 = k1
  k2 = k2
  meera = meera
  ravi = ravi
  anil = anil
  sita = sita
  Nobody = Nobody
  NoDraft = NoDraft
  Customers = {asha, bina, chand}
  Loans = {l1, l2}
  RequestKeys = {k1, k2}
  CustomerOf <- MCCustomerOf
  Lent <- MCLent
  Breakdowns <- MCBreakdowns
  Files <- MCFiles
  Clerks = {meera, ravi}
  Admins = {anil, sita}
  MIN_GROUP_SIZE = 2
  MAX_GROUP_SIZE = 2
  MaxRequests = 3
  MaxRows = 4
  MaxDrafts = 2
SPECIFICATION BranchSpec
INVARIANTS
  MigrationWhole
PROPERTIES
  GroupsStayWhole
  RequestsEnd
CHECK_DEADLOCK FALSE
