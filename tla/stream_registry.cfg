SPECIFICATION MixedSpec
CONSTANTS
  s1 = s1
  s2 = s2
  s3 = s3
  r1 = r1
  r2 = r2
  NoSession = NoSession
  Sessions = {s1, s2}
  Replicas = {r1, r2}
  MaxChanges = 2
  MaxDeaths = 1
  MaxFailures = 1
INVARIANT RegisteredIsHeld
INVARIANT HealthyIsRegistered
PROPERTY OneStreamRemains
CHECK_DEADLOCK FALSE
