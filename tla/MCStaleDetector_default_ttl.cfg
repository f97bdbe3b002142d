SPECIFICATION FairSpec
CONSTANTS
  Workers = {w1}
  Tasks = {t1}
  Detectors = {d1}
  None = None
  TTL = 2
  StaleThreshold = 2
  LeaderTTL = 1
  Timely = TRUE
  MaxFaults = 0
  MaxCrashes = 1
  Crashing = {w1}
  Completing = {w1}
  Stopping = {}
PROPERTY OrphansAreReopened
