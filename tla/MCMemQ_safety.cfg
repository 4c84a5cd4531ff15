SPECIFICATION FairSpec
CONSTANTS
  p1 = p1
  p2 = p2
  r1 = r1
  r2 = r2
  NoItem = NoItem
  Payloads = {p1, p2}
  Receivers = {r1, r2}
  Cancellable = {r1}
  MaxDeliveries = 2
CHECK_DEADLOCK FALSE
INVARIANTS
  TypeOK
  OutstandingIsExact
  NoLostWakeup
PROPERTIES
  ImplementsDelivery
