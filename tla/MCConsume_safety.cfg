SPECIFICATION FairSpec
CONSTANTS
  Messages = {1, 2}
  Pool = 1
  MaxDeliveries = 2
  Cancellable = TRUE
  MaxFaults = 1
  MaxCount <- Counts
CHECK_DEADLOCK FALSE
INVARIANTS
  TypeOK
  LeasesAreHeld
  LapsesExplainRepeats
  ResultMatchesBackend
  FillAccountsForAll
PROPERTIES
  ImplementsDelivery
  WorksOff
