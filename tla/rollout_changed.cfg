SPECIFICATION RolloutSpec
CONSTANTS
  kiosk = kiosk
  lab = lab
  Queues = {q1}
  GroupOf <- AllKiosk
  DeviceGroup <- AllKiosk
  Groups = {kiosk, lab}
  AnyGroup = ""
  IntMax = 32767
  Requests = {d1}
  Polls = {}
  MaxConcurrentSends = 1
  BatchSize = 1
  Undecodable = {}
  Faults = {}
  Places <- SomeFiles
  FileLists <- BothFiles
  Settings <- SomeSettings
  Commands <- JustDeploy
  Updates <- SomeUpdates
  JsonObjects <- TheObjects
  Document <- TheDocument
  MergeObject <- Merge
  Seconds = {s1}
  NoTime = NoTime
  MaxEdits = 1
INVARIANT UploadedAsHashed
CHECK_DEADLOCK FALSE
