SPECIFICATION FairSpec
CONSTANTS
  c1 = c1
  c2 = c2
  Messages = {1, 2}
  Poison = {2}
  Consumers = {c1, c2}
  Cancellable = {c1}
  MaxCrashes = 1
  MaxDeliveries = 2
CHECK_DEADLOCK FALSE
INVARIANTS
  TypeOK
  OneOwner
  LastOneDrains
PROPERTIES
  WorkedOff
  ImplementsDelivery
