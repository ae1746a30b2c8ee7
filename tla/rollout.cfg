SPECIFICATION RolloutSpec
CONSTANTS
  kiosk = kiosk
  lab = lab
  Queues = {q1}
  GroupOf <- AllKiosk
  DeviceGroup <- AllLab
  Groups = {kiosk, lab}
  AnyGroup = ""
  IntMax = 32767
  Requests = {d1, d2}
  Polls = {}
  MaxConcurrentSends = 1
  BatchSize = 1
  Undecodable = {}
  Faults = {"upload", "download", "remove", "die", "network", "kill"}
  Places <- SomeFiles
  FileLists <- SomeFileLists
  Settings <- SomeSettings
  Commands <- Kinds
  Updates <- SomeUpdates
  JsonObjects <- TheObjects
  Document <- TheDocument
  MergeObject <- Merge
  Seconds = {s1}
  NoTime = NoTime
  MaxEdits = 1
CONSTRAINT SomeTogether
SYMMETRY RolloutSymmetry
INVARIANTS
  RolloutTypeOK
  PublishedIsStored
  DownloadedAsPublished
  CleansAsMeant
  OkIsPublished
  PathsAgree
PROPERTY UpdatesWhatItNames
CHECK_DEADLOCK FALSE
