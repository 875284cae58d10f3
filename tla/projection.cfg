SPECIFICATION FairSpec
CONSTANTS
  Steps = {s1, s2}
  MaxTerminals = 3
  MaxCosts = 2
  MaxParked = 2
INVARIANTS
  RowFollowsLog
  ReferencesResolve
PROPERTIES
  OnlyLateStartReopens
  ReadModelCatchesUp
CHECK_DEADLOCK FALSE
