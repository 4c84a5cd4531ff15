SPECIFICATION Spec
CONSTANTS
  m1 = m1
  c1 = c1
  c2 = c2
  Messages = {m1}
  Poison = {}
  Hasty = {m1}
  Consumers = {c1, c2}
  MaxCrashes = 0
  MaxClaims = 3
CHECK_DEADLOCK FALSE
INVARIANTS
  CountedOnce
