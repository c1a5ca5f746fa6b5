SPECIFICATION Spec
SYMMETRY Symmetry
CONSTANTS
  Requests = {r1, r2}
  Views = {k1}
  Limits = {1, 2}
  None = None
  Permits = 2
  MaxAttempts = 1
  MaxChunks = 2
  MaxVersion = 1
  MaxTime = 1
  MaxBegun = 3
INVARIANTS FenceCovers RevisionIncludes RowsContiguous
CHECK_DEADLOCK FALSE
