SPECIFICATION CaSpec
CONSTANTS
  CaReplicas = {r1, r2}
  CaAgents = {a1}
  CaOperators = {o1}
  CertLifetime = 3
  RenewAfter = 2
  MaxCas = 3
  MaxNow = 6
INVARIANT NobodyIsCutOff
CHECK_DEADLOCK FALSE
