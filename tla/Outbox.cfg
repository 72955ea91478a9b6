CONSTANTS
  Count = 2
  Workers = {w1, w2}
  BatchSize = 2
  MaxRetries = 2
  Lease = 2
  Backoff <- MCBackoff
  MaxFaults = 1
  MaxManual = 1
SPECIFICATION FairSpec
INVARIANTS
  SingleDispatch
  SentWasDelivered
PROPERTIES
  SentUndoneOnlyByOverrun
  EveryMessageSettles
CHECK_DEADLOCK FALSE
