SPECIFICATION Spec
CONSTANTS
  Clients = {c1}
  Capacity = 2
  RingCapacity = 2
  MaxVersion = 4
  Off = Off
INVARIANT HandshakeCoversAll
CHECK_DEADLOCK FALSE
