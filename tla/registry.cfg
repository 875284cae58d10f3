SPECIFICATION FairSpec
CONSTANTS
  Agents = {a1}
  Models = {m1}
  Graphs = {g1}
  Tools = {t1}
  Environments = {v1, v2}
  Deployments = {d1}
  Names = {n1}
  NoName = noname
  MaxCommands = 5
  MaxFaults = 1
INVARIANTS
  RowFollowsPartition
  DeploymentComplete
  VersionsStayResolvable
PROPERTIES
  CatalogCatchesUp
CHECK_DEADLOCK FALSE
