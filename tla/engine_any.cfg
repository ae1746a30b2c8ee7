SPECIFICATION FairEngineSpec
CONSTANTS
  Releases = {r1, r2}
  NoRelease = NoRelease
  KeepPrevious = 0
  Faults <- EngineFaults
  CrashSteps <- EngineSteps
  Procs = {p1, p2, p3}
  NoProc = NoProc
  HealthKind = "network"
PROPERTIES
  OkIsTracked
  OperationsEnd
