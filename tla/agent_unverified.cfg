SPECIFICATION AgentSpec
CONSTANTS
  r1 = r1
  Releases = {r1}
  Files = {f1, f2}
  Messages <- DownloadAndApply
  None = None
  MaxAttempts = 5
  MaxQueued = 2
  Faults <- NoFaults
  CrashSteps <- CrashInDownload
INVARIANT VerifiedBeforeInstall
