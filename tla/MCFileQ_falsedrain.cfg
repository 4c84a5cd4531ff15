SPECIFICATION Spec
CONSTANTS
  c1 = c1
  c2 = c2
  Messages = {1}
  Poison = {}
  Consumers = {c1, c2}
  Cancellable = {}
  MaxCrashes = 0
  MaxDeliveries = 1
CHECK_DEADLOCK FALSE
INVARIANTS
  DrainIsSound
