SPECIFICATION FairSpec
CONSTANTS
  Requests = {r1}
  Views = {k1}
  Limits = {1}
  None = None
  Permits = 1
  MaxAttempts = 1
  MaxChunks = 2
  MaxVersion = 1
  MaxTime = 0
  MaxBegun = 2
PROPERTY CursorKeepsList
CHECK_DEADLOCK FALSE
