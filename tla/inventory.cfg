CONSTANTS
  n1 = n1
  n2 = n2
  r1 = r1
  r2 = r2
  Names = {n1, n2}
  NoObject = NoObject
  Gone = Gone
  SnapshotIds = {1, 2}
  NoId = NoId
  MaxChanges = 3
  BatchMax = 1
  MaxPending = 2
  OutboxSize = 1
  Replicas = {r1, r2}
  NoReplica = NoReplica
  MaxStreams = 2
  MaxItems = 2
  MaxFaults = 1
  WireSize = 1
SPECIFICATION MixedSpec
INVARIANTS
  StoredWhole
  AddsUp
PROPERTIES
  DeletesTheDead
  Converges
CHECK_DEADLOCK FALSE
