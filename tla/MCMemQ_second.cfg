SPECIFICATION FairSpec
CONSTANTS
  p1 = p1
  r1 = r1
  r2 = r2
  NoItem = NoItem
  Payloads = {p1}
  Receivers = {r1, r2}
  Cancellable = {}
  MaxDeliveries = 1
CHECK_DEADLOCK FALSE
PROPERTIES
  DrainCloses
