SPECIFICATION Spec
CONSTANTS
  i1 = i1
  Instances = {i1}
  Turns = {t1}
  Calls = {c1, c2}
  Owner <- OwnerOfTurn
  None = None
  Permits = 1
  Restarts = TRUE
  MaxGenerations = 1
INVARIANT EndedTurnsHoldNothing
PROPERTIES IdleStopSparesWork QuietInstancesAreReleased
CHECK_DEADLOCK FALSE
