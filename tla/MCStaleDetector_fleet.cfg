SPECIFICATION FairSpec
CONSTANTS
  Workers = {w1, w2}
  Tasks = {t1}
  Detectors = {d1, d2}
  None = None
  TTL = 3
  StaleThreshold = 2
  LeaderTTL = 2
  Timely = TRUE
  MaxFaults = 1
  MaxCrashes = 1
  Crashing = {w1}
  Completing = {w1}
  Stopping = {d1}
INVARIANT TimelyWorkersKeepTheirTask
PROPERTY DeadWorkersAreForgotten
PROPERTY OrphansAreReopened
