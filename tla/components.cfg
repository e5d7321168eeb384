SPECIFICATION ComponentsSpec
CONSTANTS
  Pods = {p1, p2}
  Nobody = Nobody
  MaxUpsets = 3
  LogIds = {i1, i2}
  MaxSessions = 1
  MaxCuts = 1
  MaxCrashes = 1
  AlertReplicas = {r1, r2}
  Conditions = {k1}
  MaxEvents = 3
  MaxTurns = 3
  MaxMishaps = 1
  NoSession = NoSession
  Sessions = {s1}
  Replicas = {r1}
  MaxChanges = 1
  MaxDeaths = 1
  MaxFailures = 1
  CommandIds = {c1}
  Tasks = {t1}
  NoId = NoId
  NoTask = NoTask
  CacheSize = 2
  MaxSaved = 0
  MaxConcurrent = 1
  OutboxSize = 0
  MaxRuns = 3
  MaxStops = 1
  MaxKills = 0
INVARIANT ComponentsTypeOK
INVARIANT HandoverIsClean
INVARIANT EndedOnce
INVARIANT NoDuplicates
PROPERTY LeaderReturns
PROPERTY LogViewerIsTold
PROPERTY LogAgentLetsGo
PROPERTY LogIsForgotten
PROPERTY AlertIsTold
PROPERTY AlertEnds
PROPERTY StreamSilenceIsNoticed
PROPERTY StreamRevokedEnds
PROPERTY AgentAnswers
CHECK_DEADLOCK FALSE
