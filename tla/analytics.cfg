SPECIFICATION Spec
CONSTANTS
  Values = {1, 9}
  Threshold = 8
  HistoryLimit = 5
  WindowSize = 3
  Multiplier = 2
  LatencyZ = 20
  CostZ = 25
  DriftHistory = 6
  BaselineSize = 5
  CurrentSize = 3
  MaxRetries = 2
  MaxSamples = 6
  MaxFaults = 2
INVARIANTS
  TypeOK
  ThresholdReported
  SpikeReported
  WarmUp
  SteadySeriesIsQuiet
CHECK_DEADLOCK FALSE
