SPECIFICATION Spec
CONSTANTS
  MaxEvents = 4
  MaxSegments = 4
  Retained = 2
  LiveCount = 1
  FlushRows = 2
  MaxFaults = 1
  MaxCrashes = 2
INVARIANTS HistoryHoldsEvents PagesContinue PollerMissesNothing
CHECK_DEADLOCK FALSE
