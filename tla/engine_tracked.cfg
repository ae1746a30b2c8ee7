SPECIFICATION EngineSpec
CONSTANTS
  Releases = {r1, r2, r3}
  NoRelease = NoRelease
  KeepPrevious = 0
  Faults <- TrackedFaults
  CrashSteps <- TrackedCrashSteps
  Procs = {p1, p2}
  NoProc = NoProc
  HealthKind = "process"
SYMMETRY DeviceSymmetry
INVARIANTS
  EngineTypeOK
  SingleInstance
  RunsActive
  RecoverReturns
