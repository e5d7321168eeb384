SPECIFICATION Spec
CONSTANTS
  s1 = s1
  s2 = s2
  s3 = s3
  r1 = r1
  r2 = r2
  NoSession = NoSession
  Sessions = {s1, s2}
  Replicas = {r1, r2}
  MaxChanges = 0
  MaxDeaths = 0
  MaxFailures = 0
PROPERTY CleanupSparesNewer
CHECK_DEADLOCK FALSE
