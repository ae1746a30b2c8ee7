SPECIFICATION FairSupervisorSpec
CONSTANTS
  Pids = {p1, p2}
  MaxToken = 5
  Faults = {"token", "wait", "signal"}
INVARIANTS
  SupervisorTypeOK
  DownIsDown
  SignalsOwn
PROPERTIES
  StoppedIsDown
  CallsEnd
