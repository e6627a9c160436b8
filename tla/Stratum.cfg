SPECIFICATION SumSpec
CONSTANTS
  None = None
  Connections = {c1}
  Users = {u1}
  Announcers = {"MM"}
  Loop = "stratum"
  Targets = {1, 2}
  ShareTarget = 2
  KeepTargets = 1
  MaxBlock = 2
  MaxJobs = 3
  MaxFaults = 1
  Tasks = {a, b, c}
  MaxTime = 2
CHECK_DEADLOCK FALSE
INVARIANTS
  UpdateAlwaysComing
  WorkIsKnown
  NoHarsher
  NeverForgotten
PROPERTIES
  EveryoneFollows
  KeepsTimes
VIEW
  InUse
