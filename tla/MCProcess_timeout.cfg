SPECIFICATION FairSpec
CONSTANTS
  w1 = w1
  w2 = w2
  i1 = i1
  i2 = i2
  Workers = {w1, w2}
  Items = {i1, i2}
  NoItem = NoItem
  Retries = 2
  BackoffAfter = {1}
  HasTimeout = TRUE
CHECK_DEADLOCK FALSE
INVARIANTS
  TypeOK
  EachItemOnce
  NoSendOnClosed
  ResultsHonest
  RetryOnlyAfterFailure
PROPERTIES
  ImplementsPool
  Finishes
