SPECIFICATION Spec
CONSTANTS
  Steps = {s1}
  MaxTerminals = 1
  MaxCosts = 2
  MaxParked = 1
INVARIANTS
  TerminalEventShows
CHECK_DEADLOCK FALSE
