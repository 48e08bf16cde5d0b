SPECIFICATION Spec
CONSTANTS
  VConts <- MCVConts
  Tids = {1, 2}
  MaxInput = 1
  MaxSessions = 2
INVARIANTS
  PacketIsOwned
  AllStop
PROPERTIES
  PacketIsServed
CHECK_DEADLOCK FALSE
