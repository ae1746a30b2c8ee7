SPECIFICATION DeviceSpec
CONSTANTS
  Releases = {r1, r2}
  NoRelease = NoRelease
  KeepPrevious = 0
  Faults <- EngineFaults
  CrashSteps <- EngineCrashSteps
  Procs = {p1, p2}
  NoProc = NoProc
  HealthKind = "process"
  Files = {f1, f2}
  Messages <- DeviceMessages
  None = None
  MaxAttempts = 1
  AgentFaults <- SomeAgentFaults
  HandlerCrashSteps <- SomeHandlerCrashSteps
  MaxQueued = 1
SYMMETRY DeviceSymmetry
INVARIANTS
  RunsVerified
  CacheVerified
PROPERTIES
  SuccessIsActive
  ImplementsAgent
