SPECIFICATION SweepSpec
CONSTANTS
  u1 = u1
  u2 = u2
  r1 = r1
  r2 = r2
  w1 = w1
  w2 = w2
  NoUser = NoUser
  NoCluster = NoCluster
  NoReplica = NoReplica
  NoCommand = NoCommand
  MaxCommands = 1
  Users = {u1, u2}
  Kinds = {"plain", "secret", "gated"}
  Clusters = {c1}
  Replicas = {r1, r2}
  Workers = {w1, w2}
  Home <- OneReplica
  MaxUnfinished = 1
  MaxWaiting = 1
  MaxWire = 1
  MaxPast = 1
  MaxFaults = 1
INVARIANT TypeOK
INVARIANT FourEyesInv
PROPERTY FollowsLifecycle
PROPERTY EndsInTime
PROPERTY SecretEndsInTime
PROPERTY QueuedIsSent
