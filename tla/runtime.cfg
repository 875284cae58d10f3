SPECIFICATION HealthSpec
CONSTANTS
  Role = "execution"
  Ttl = 3
  Floor = 1
  Slack = 1
  Delay = 1
  MaxLost = 1
INVARIANTS
  LiveTasksHaveProducer
  LeftOpenOnlyByFailure
  StoppedInOrder
  LiveNotStale
  DeadReported
PROPERTIES
  DeadTaskEndsProcess
