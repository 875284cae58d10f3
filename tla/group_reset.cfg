SPECIFICATION Spec
CONSTANTS
  Members = {m1}
  NoMember = nobody
  MaxRetries = 3
  MaxEvents = 2
  BatchMax = 1
  Poison <- NoRecords
  Malformed <- NoRecords
  MaxCrashes = 1
  MaxRebalances = 0
  MaxFaults = 0
PROPERTIES
  AtLeastOnce
CHECK_DEADLOCK FALSE
