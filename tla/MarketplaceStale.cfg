SPECIFICATION RankingSpec
CONSTANTS
  Listings = {s1}
  Generations = {g1}
  Indexers = {w1, w2}
  MaxQueued = 1
  MaxFailures = 0
  Nobody = Nobody
PROPERTY OverIsUnlisted
CHECK_DEADLOCK FALSE
