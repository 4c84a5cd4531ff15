SPECIFICATION Spec
CONSTANTS
  Messages = {1}
  Pool = 1
  MaxDeliveries = 2
  Cancellable = FALSE
  MaxFaults = 2
  MaxCount <- Counts
CHECK_DEADLOCK FALSE
INVARIANTS
  DivertedInTime
