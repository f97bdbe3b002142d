SPECIFICATION MCSpec
CONSTANTS
  Users = {r1, sub}
  Requests = {r1}
  Background = {sub}
  Clients = {c1, c2}
  PoolSize = 1
  FailureThreshold = 1
  HalfOpenMaxProbes = 1
  MaxRetries = 2
  MaxLate = 1
  NoClient = NoClient
  Issues = {i1, i2}
  ListLimit = 2
  LogTasks <- MCLogTasks
  MaxEvents = 4
  MaxLog = 4
  MaxLag = 3
  MaxRotations = 2
  PageFiles <- MCPageFiles
  MaxBytes = 6
  PageSizes = {1, 2, 3}
  Viewers = {v1, v2}
  WebSessions = {lead}
  AgentSession = agent
  TermBackends = {claude}
  FirstBackend = claude
  MaxSessions = 1
  MaxRestarts = 1
  Nonces = {n1, n2}
  TokenExpiry = 2
  NonceMaxAge = 4
  MaxNow = 8
  TabSessions = {s1}
  TabRequests = {q1, q2, q3}
  MaxTabFaults = 1
INVARIANTS
  ShownFreeIsUnblocked
  PoolAccounting
  PoolOutlivesItsUsers
  UnavailableMeansUntouched
  RouterFollowsLock
  StreamIsFaithful
  PagesTileTheLog
  ConnectionsAreAccounted
  TokensWorkOnce
PROPERTIES
  LabelsAreKept
  BreakerRecovers
CHECK_DEADLOCK FALSE
