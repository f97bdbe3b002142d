SPECIFICATION FairSpec
CONSTANTS
  E1 = E1
  E2 = E2
  NoEpic = NoEpic
  Roles <- MCRoles
  RoleOf <- MCRoleOf
  Limit <- MCLimits
  NumAgents = 2
  MCLimit = 1
  Epics <- NoEpics
  Rank <- NoRank
  MaxRetries = 0
  NumFallbacks = 1
  RateLimitNoCount = TRUE
  ExitClasses = {"ok", "ModelNotFound"}
  Faults = {}
  Callers = {"Stop", "health"}
  MaxRateRetries = 0
PROPERTY ImplementsDispatch
PROPERTY TermBeforeKill
PROPERTY StopTerminates
