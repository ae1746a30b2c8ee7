SPECIFICATION InstallerSpec
CONSTANTS
  Releases = {r1, r2}
  NoRelease = NoRelease
  KeepPrevious = 0
  Faults <- AllFaults
  CrashSteps <- AllCrashSteps
INVARIANTS
  PublishesWhole
  DistinctPointers
