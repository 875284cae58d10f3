SPECIFICATION FairSpec
CONSTANTS
  Members = {m1, m2}
  NoMember = nobody
  MaxRetries = 2
  MaxEvents = 3
  BatchMax = 2
  Poison <- FirstRecord
  Malformed <- ThirdRecord
  MaxCrashes = 1
  MaxRebalances = 1
  MaxFaults = 1
INVARIANTS
  EffectOnce
  NoSilentSkip
  OrderInv
PROPERTIES
  ImplementsLedger
  EveryRecordSettled
CHECK_DEADLOCK FALSE
