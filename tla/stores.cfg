SPECIFICATION StoresSpec
CONSTANTS
  c1 = c1
  c2 = c2
  t1 = t1
  t2 = t2
  NoId = NoId
  NoTask = NoTask
  Ids = {c1, c2}
  Tasks = {t1, t2}
  CacheSize = 1
  MaxSaved = 1
  MaxConcurrent = 1
  OutboxSize = 0
  MaxRuns = 2
  MaxStops = 0
  MaxKills = 1
  Fetches = {c1, c2}
  DownloadReplicas = {r1, r2}
  NoFetch = NoFetch
  FileKeys = {k1}
  FileOf <- OneFile
  MaxPerCluster = 1
  MaxTotal = 2
  MaxFile = 2
  OutboxRoom = 1
  MaxVersions = 2
  MaxBreaks = 2
  KeyReplicas = {t1, t2}
  Secrets = {c1, c2}
  MaxKeys = 3
  MaxWrites = 3
  People = {p1, p2}
  Founder = p1
  Letters = {c1, c2}
  Requests = {t1, t2}
  NoLetter = NoLetter
  NoPerson = NoPerson
  MaxCalls = 4
  CaReplicas = {c1, c2}
  CaAgents = {a1}
  CaOperators = {t1, t2}
  CertLifetime = 2
  RenewAfter = 1
  MaxCas = 3
  MaxNow = 4
SYMMETRY Symmetric
INVARIANT StoresTypeOK
INVARIANT OneExecution
INVARIANT SearchedInv
INVARIANT SuccessIsReal
INVARIANT CutOffOnlyByMistake
INVARIANT AccountsAddUp
INVARIANT HeldIsWhole
INVARIANT NewestStays
INVARIANT NothingIsLost
INVARIANT AnOwnerRemains
INVARIANT AdmittedOnce
CHECK_DEADLOCK FALSE
