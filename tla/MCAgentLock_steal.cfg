SPECIFICATION Spec
CONSTANTS
  Gone = Gone
  Empty = Empty
  Torn = Torn
  NoProc = NoProc
  Procs = {p1, p2, p3}
  Claimers = {}
  MaxAttempts = 3
  CrashPoints = {"held"}
  WithRecovery = FALSE
INVARIANT MutualExclusion
