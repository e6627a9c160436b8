SPECIFICATION Spec
CONSTANTS
  None = None
  MM = "MM"
  Notified = {}
  Getwork = "jsonrpc"
  Takers = {}
  Finders = {}
  Templates <- LineTemplates
  DifficultyChangeMod = 5
  ClearMin = 1
  ClearMax = 2
  NextMin = 1
  NextMax = 1
  RegularMin = 1
  RegularMax = 1
  MaxQueues = 7
INVARIANT
  BlockChangeIsNotified
