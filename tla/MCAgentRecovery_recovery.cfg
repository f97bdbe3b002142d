SPECIFICATION FairSpec
CONSTANTS
  Tasks = {t1, t2}
  NoTask = NoTask
  MaxCrashes = 1
  EarlyCrash = FALSE
  Finals = {"review", "closed", "blocked"}
  Others = {"claim", "finish", "approve", "close", "reset"}
  Faults = {"bd"}
INVARIANT WorkIsOwned
INVARIANT CheckpointMatches
PROPERTY NoStrandedTask
CHECK_DEADLOCK FALSE
