SPECIFICATION FairApiSpec
CONSTANTS
  q1 = q1
  q2 = q2
  kiosk = kiosk
  gate = gate
  Queues = {q1, q2}
  GroupOf <- Registered
  DeviceGroup <- Configured
  Groups = {kiosk, gate}
  AnyGroup = AnyGroup
  Requests = {d1}
  Polls = {c1, c2}
  MaxConcurrentSends = 1
  BatchSize = 2
  Undecodable = {q2}
  Faults = {"send", "report", "delete"}
INVARIANTS
  ReportsKept
  ExecutesOwnGroup
PROPERTY RequestsAnswered
