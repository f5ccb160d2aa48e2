SPECIFICATION MCSpec
CONSTANTS
  Payments = {p1, p2}
  p1 = p1
  Kinds = {captured, paid}
  Jobs = {j1, j2}
  j1 = j1
  MAX_ATTEMPTS = 2
  MaxTotal = 2
  s1 = s1
  g1 = g1
  w1 = w1
  Listings = {s1, s2}
  Generations = {g1, g2}
  Indexers = {w1, w2}
  MaxQueued = 1
  MaxFailures = 1
  Nobody = Nobody
INVARIANT TypeOK
INVARIANT DecidedIsAccounted
INVARIANT PendingIsOwed
INVARIANT AdvancesOnce
PROPERTY IndexConverges
CHECK_DEADLOCK FALSE
