SPECIFICATION FairSpec
CONSTANTS
  m1 = m1
  m2 = m2
  m3 = m3
  c1 = c1
  c2 = c2
  Messages = {m1, m2, m3}
  Poison = {m3}
  Hasty = {m1}
  Consumers = {c1, c2}
  MaxCrashes = 1
  MaxClaims = 2
CHECK_DEADLOCK FALSE
INVARIANTS
  TypeOK
  NeverLost
  Reclaimable
  DrainIsSound
PROPERTIES
  ResumesAfterCrash
  ImplementsDelivery
