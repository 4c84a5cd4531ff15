SPECIFICATION FairSpec
CONSTANTS
  Width = 4
  NumItems = 4
  NumShards = 2
  Index = 0
  NumWorkers = 2
  MaxAttempts = 2
  Base = 1
  MaxDelay = 7
  NumOuts = 2
  Writers = {2}
CHECK_DEADLOCK FALSE
INVARIANTS
  TypeOK
  BoundedConcurrency
  HandleKept
  SinksAgree
  BackoffIsExact
PROPERTIES
  PipelineEnds
