CONSTANTS
 None = None
 Nobody = Nobody
 Pool = Pool
 Parent = Parent
 Chains = {MM}
 AtZero = {}
 Threshold = 1
 Keep = 5
 Users = {key, addr}
 Derived = {key}
 RpcUsers = {}
 Statuses = {"up", "stale"}
 MaxTip = 1
 MaxSolves = 1
 MaxRestarts = 1
SPECIFICATION Spec
CHECK_DEADLOCK FALSE
INVARIANTS PaysItsMiner SolutionsAreKnown
VIEW View
