SPECIFICATION FairSpec
CONSTANTS
  Gone = Gone
  Empty = Empty
  Torn = Torn
  NoProc = NoProc
  Procs = {p1, p2}
  Claimers = {c1}
  MaxAttempts = 3
  CrashPoints = {"start", "truncate", "check", "create", "remove", "held", "unlink"}
  WithRecovery = TRUE
INVARIANT HolderOwnsFile
PROPERTY DeadOwnersGiveWay
CHECK_DEADLOCK FALSE
