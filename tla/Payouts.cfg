CONSTANTS
 Keys = {key}
 Addresses = {addr}
 Labels = {label}
 Works = {0, 1, 2}
 Rewards = {0, 1, 5}
 Kids = {kid}
 KidReward = 7
 LastShares = 2
 KeepRates = {0, 2500}
 MaxQueue = 1
 Recent = 2
 MaxGap = 1
 MaxShares = 3
 MaxTemplates = 2
 MaxSolves = 2
SPECIFICATION Spec
CONSTRAINT Modest
CHECK_DEADLOCK FALSE
INVARIANTS  RewardsAddUp 
