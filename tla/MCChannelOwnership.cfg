SPECIFICATION BoundedSpec
CONSTANTS
  Connections = {c1, c2, c3}
  SwitchIds = {s1, s2}
  None = None
  QueueCapacity = 1
  MaxConcurrent = 1
  MaxCommits = 3
  MaxPending = 2
INVARIANTS TypeOK AtMostOneServes FlagsFollowGroup LeaseHasGroup SnapshotSettles CallsAreOwned
PROPERTIES ClosedReleases ServiceSpec
CHECK_DEADLOCK FALSE
