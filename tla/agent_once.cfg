SPECIFICATION Spec
CONSTANTS
  c1 = c1
  c2 = c2
  t1 = t1
  t2 = t2
  NoId = NoId
  NoTask = NoTask
  Ids = {c1}
  Tasks = {t1}
  CacheSize = 1
  MaxSaved = 1
  MaxConcurrent = 1
  OutboxSize = 1
  MaxRuns = 2
  MaxStops = 0
  MaxKills = 0
INVARIANT ExecutedAtMostOnce
