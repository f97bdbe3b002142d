SPECIFICATION MCSpec
CONSTANTS
  FleetWorkers = {"w1", "w2"}
  FleetTasks = {"t1"}
  FleetCalls = {"c1", "c2"}
  MaxStoreFaults = 1
  FleetServers = {"s1", "s2"}
  TokenWorkers = {"w1", "w2"}
  FleetIssues = {"i1", "i2"}
  RegisterLimit = 1
  MaxRotations = 1
  MaxRestarts = 1
  MaxRPCFaults = 1
INVARIANTS
  NoOutcomeLost
  TokensValidateOnEveryServer
  HandedOnce
PROPERTY ClaimTimesAreCleaned
CHECK_DEADLOCK FALSE
