SPECIFICATION Spec
CONSTANTS
  None = None
  Unknown = Unknown
  Receivers = {"stratum"}
  Pollers = {"MM", "SIGUSR1"}
  Works = {"w"}
  Submissions = {"first", "again"}
  Data = {"share"}
  DataOf <- Twice
  WorkOf <- Solving
  ReceiverOf <- Over
  Solutions = {}
  Foreign = {"b1", "b2"}
  Servers <- TwoUpstreams
  Delays = {FALSE}
  MaxLives = 3
CHECK_DEADLOCK FALSE
INVARIANTS
  CreditedOnce
  ExitForgetsNothing
