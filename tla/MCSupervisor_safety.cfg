SPECIFICATION Spec
CONSTANTS
  E1 = E1
  E2 = E2
  NoEpic = NoEpic
  Roles <- MCRoles
  RoleOf <- MCRoleOf
  Limit <- MCLimits
  NumAgents = 2
  MCLimit = 1
  Epics <- MCEpics
  Rank <- MCRank
  MaxRetries = 1
  NumFallbacks = 0
  RateLimitNoCount = TRUE
  ExitClasses = {"ok", "Counted"}
  Faults = {"git", "spawn", "bd"}
  Callers = {"Stop"}
  MaxRateRetries = 0
INVARIANT SlotsMatchHolders
INVARIANT WorksOnItsBranch
