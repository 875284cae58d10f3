SPECIFICATION SeedSpec
CONSTANTS
  Agents = {a1, a2}
  Models = {}
  Graphs = {g1, g2}
  Tools = {}
  Environments = {v1, v2}
  Deployments = {d1, d2}
  DemoName = n1
  Names = {n1}
  NoName = noname
  MaxCommands = 10
  MaxFaults = 1
  Plan <- DemoPlan
  MaxRuns = 2
  MaxSetbacks = 1
INVARIANTS
  SeedTypeOK
  DoneMeansSeeded
  NeverAheadOfProjection
  QuietRunsPostOnce
PROPERTIES
  ImplementsCatalog
  RerunSucceeds
CHECK_DEADLOCK FALSE
