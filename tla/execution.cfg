SPECIFICATION FairSpec
CONSTANTS
  Executors = {e1, e2}
  MaxRetries = 2
  MaxPasses = 3
  MaxFaults = 2
INVARIANTS
  TypeOK
  FinishedIsComplete
  MarkerHasOutcome
PROPERTIES
  ImplementsEvents
  RunIsDecided
CHECK_DEADLOCK FALSE
