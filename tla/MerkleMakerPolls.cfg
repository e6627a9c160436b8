SPECIFICATION Spec
CONSTANTS
  None = None
  MM = "MM"
  Notified = {"p2p"}
  Getwork = "jsonrpc"
  Takers = {"jsonrpc"}
  Finders = {"jsonrpc"}
  Templates <- PairTemplates
  DifficultyChangeMod = 2
  ClearMin = 1
  ClearMax = 2
  NextMin = 1
  NextMax = 1
  RegularMin = 1
  RegularMax = 1
  MaxQueues = 7
CHECK_DEADLOCK FALSE
VIEW
  UpToNames
CONSTRAINT
  Undisturbed
INVARIANTS
  StoresFollowBlock
