SPECIFICATION FairSpec
CONSTANTS
  Requests = {r1, r2}
  Views = {k1, k2}
  Limits = {1}
  None = None
  Permits = 1
  MaxAttempts = 2
  MaxChunks = 1
  MaxVersion = 0
  MaxTime = 1
  MaxBegun = 2
INVARIANT FenceCovers
PROPERTIES StaleIsAnnounced EveryRequestEnds
CHECK_DEADLOCK FALSE
