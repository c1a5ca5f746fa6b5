SPECIFICATION FairSpec
CONSTANTS
  Clients = {c1}
  Capacity = 2
  RingCapacity = 2
  MaxVersion = 4
  Off = Off
INVARIANT HandshakeCovers
PROPERTIES UpdatesArrive EventsArrive FeedSpec
CHECK_DEADLOCK FALSE
