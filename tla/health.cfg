SPECIFICATION FairHealthSpec
CONSTANTS
  SuccessThreshold = 2
  FailureThreshold = 3
  Interval = 1
  ProbeTimeout = 2
  StartupTimeout = 8
INVARIANTS
  HealthTypeOK
  HealthFollowsHistory
  BoundedWait
PROPERTY AwaitEnds
