CONSTANTS
  n1 = n1
  n2 = n2
  r1 = r1
  r2 = r2
  Names = {n1}
  NoObject = NoObject
  Gone = Gone
  SnapshotIds = {1, 2}
  NoId = NoId
  MaxChanges = 2
  BatchMax = 1
  MaxPending = 2
  OutboxSize = 1
  Replicas = {r1}
  NoReplica = NoReplica
  MaxStreams = 2
  MaxItems = 1
  MaxFaults = 0
  WireSize = 1
SPECIFICATION InventorySpec
INVARIANT NothingMissed
CHECK_DEADLOCK FALSE
