CONSTANTS
 None = None
 Nobody = Nobody
 Pool = Pool
 Parent = Parent
 Chains = {MM}
 AtZero = {}
 Threshold = 1
 Keep = 1
 Users = {key}
 Derived = {key}
 RpcUsers = {key}
 Statuses = {"up", "down"}
 MaxTip = 1
 MaxSolves = 0
 MaxRestarts = 1
SPECIFICATION FairSpec
CHECK_DEADLOCK FALSE

PROPERTIES EveryoneReturns JobsCatchUp
