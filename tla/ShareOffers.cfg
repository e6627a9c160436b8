SPECIFICATION FairSpec
CONSTANTS
  None = None
  Unknown = Unknown
  Receivers = {"stratum"}
  Pollers = {"MM"}
  Works = {"w"}
  Submissions = {"found"}
  Data = {"solution"}
  DataOf <- Once
  WorkOf <- Solving
  ReceiverOf <- Over
  Solutions = {"solution"}
  Foreign = {"b1", "b2"}
  Servers <- ThreeUpstreams
  Delays = {FALSE, TRUE}
  MaxLives = 1
CHECK_DEADLOCK FALSE
INVARIANTS
  ExactlyOneLogs
  GivenUpByAll
PROPERTIES
  BlockHeard
