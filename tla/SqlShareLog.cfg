SPECIFICATION FairSpec
CONSTANTS
  None = None
  Chains = {"blc", "bbtc"}
  BatchSize = 2
  QueueMax = 2
  MaxAttempts = 2
  AbortsOnError = FALSE
  Refused <- OneRefused
  MaxRows = 2
  MaxUnsure = 1
CHECK_DEADLOCK FALSE
INVARIANTS
  NothingForgotten
  TwiceOnlyWhenUnsure
  StopDrains
PROPERTIES
  SurvivesRefusal
  EventuallySettled
  KeepsItsPromise
