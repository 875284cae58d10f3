SPECIFICATION Spec
CONSTANTS
  Workers = {w1, w2}
  Signals = {g1, g2}
  Cooldown = 2
  MaxRetries = 2
  MaxClock = 2
  MaxFaults = 2
SYMMETRY AlertSymmetry
INVARIANTS
  TypeOK
  UpdatesResolve
  SuppressedIsAlerted
  NotifiedIsPublished
PROPERTIES
  RowKeepsIdentity
CHECK_DEADLOCK FALSE
