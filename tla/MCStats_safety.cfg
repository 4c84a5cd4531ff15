SPECIFICATION FairSpec
CONSTANTS
  o1 = o1
  Total = 2
  Observers = {o1}
CHECK_DEADLOCK FALSE
INVARIANTS
  TypeOK
  CountsMatchStream
  SuccessNotInflated
  FinalCountsSeen
PROPERTIES
  StreamCloses
