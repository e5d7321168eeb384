SPECIFICATION DeliverySpec
CONSTANTS
  u1 = u1
  u2 = u2
  r1 = r1
  w1 = w1
  w2 = w2
  t1 = t1
  t2 = t2
  NoUser = NoUser
  NoCluster = NoCluster
  NoReplica = NoReplica
  NoCommand = NoCommand
  NoTask = NoTask
  Cluster = c1
  Clusters = {c1}
  Replicas = {r1}
  MaxCommands = 1
  Users = {u1, u2}
  Kinds = {"gated"}
  Workers = {w1}
  Home <- OneHandler
  MaxUnfinished = 1
  MaxWaiting = 1
  MaxWire = 1
  MaxPast = 1
  MaxFaults = 0
  Tasks = {t1}
  CacheSize = 1
  MaxSaved = 1
  MaxConcurrent = 2
  OutboxSize = 1
  MaxRuns = 2
  MaxStops = 0
  MaxKills = 1
  MaxConnects = 2
SYMMETRY People2
INVARIANT SucceededIsDone
INVARIANT OnlySent
