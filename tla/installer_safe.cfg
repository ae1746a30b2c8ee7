SPECIFICATION InstallerSpec
CONSTANTS
  Releases = {r1, r2, r3}
  NoRelease = NoRelease
  KeepPrevious = 1
  Faults <- SafeFaults
  CrashSteps <- SafeCrashSteps
SYMMETRY ReleaseSymmetry
INVARIANTS
  InstallerTypeOK
  ReferencedWhole
PROPERTIES
  ImplementsStore
  PruneRetains
