SPECIFICATION Spec
CONSTANTS
  Clients = {c1}
  MaxIssued = 2
  MaxCredentials = 2
  Sessions = {s1, s2}
  Lan = {s1}
  Operators = {o1}
  None = None
  MaxSessions = 2
  MaxRestarts = 1
INVARIANTS TypeOK DiskNeverBehind DisconnectIsTrue EndedAreTold
PROPERTIES LifeSpec RevokedSessionsEnd
CHECK_DEADLOCK FALSE
