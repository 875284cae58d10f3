SPECIFICATION Spec
CONSTANTS
  Agents = {a1}
  Models = {}
  Graphs = {}
  Tools = {}
  Environments = {v1, v2}
  Deployments = {d1}
  Names = {n1}
  NoName = noname
  MaxCommands = 3
  MaxFaults = 0
INVARIANTS
  EnvironmentSelectedByName
CHECK_DEADLOCK FALSE
