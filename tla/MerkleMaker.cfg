SPECIFICATION Spec
CONSTANTS
  None = None
  MM = "MM"
  Notified = {}
  Getwork = "jsonrpc"
  Takers = {}
  Finders = {"jsonrpc"}
  Templates <- LineTemplates
  DifficultyChangeMod = 2
  ClearMin = 1
  ClearMax = 2
  NextMin = 1
  NextMax = 1
  RegularMin = 1
  RegularMax = 1
  MaxQueues = 7
CHECK_DEADLOCK FALSE
VIEW
  UpToNames
INVARIANTS
  TypeOK
  NoLostWakeup
  WaiterIsWoken
  MakerNeverStuck
  StoresFollowBlock
  ReadyMeansWork
  CleanJobsHaveMP
