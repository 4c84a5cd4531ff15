SPECIFICATION Spec
CONSTANTS
  Messages = {1}
  Pool = 2
  MaxDeliveries = 2
  Cancellable = FALSE
  MaxFaults = 0
  MaxCount <- Counts
CHECK_DEADLOCK FALSE
INVARIANTS
  OneResultPerMessage
