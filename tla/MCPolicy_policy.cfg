SPECIFICATION MCSpec
CONSTANTS
  NoEpic = NoEpic
  Roles <- MCRoles
  RoleOf <- MCRoleOf
  Limit <- MCLimits
  NumAgents = 1
  Epics = {e1}
  Rank <- MCRank
  MaxRetries = 2
  NumFallbacks = 1
  RateLimitNoCount = TRUE
  ExitClasses = {"ok", "NoWork", "RateLimited", "ModelNotFound", "Fatal", "Counted"}
  Faults = {"git", "spawn", "bd"}
  Callers = {"health"}
  MaxRateRetries = 5
  AmConfigs <- MCAmConfigs
  MaxTasks = 2
  MaxSupply = 3
  MaxCheckFaults = 1
  FirstIssues <- MCFirstIssues
  OtherIssues <- MCOtherIssues
  Constraints <- MCConstraints
  Claims = {c1}
  Days = {1, 2}
  MaxDaemonEvents = 5
  BufSize = 3
  MaxSize = 4
  MaxBackups = 1
  MaxLogFaults = 1
INVARIANTS
  EventsAreKept
  FutileSessionsAreBounded
  CountedWorkWasClaimed
  RouterNeverStarves
PROPERTIES
  GivesUp
  StopsCleanly
CHECK_DEADLOCK FALSE
