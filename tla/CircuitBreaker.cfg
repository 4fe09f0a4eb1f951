SPECIFICATION FairSpec
CONSTANTS
  c1 = c1
  c2 = c2
  c3 = c3
  Callers <- MCCallers
  FailureThreshold = 2
  SuccessThreshold = 2
  HalfOpenRequests = 1
INVARIANTS
  TypeOK
  NoLeakedSlot
  ProbeBound
PROPERTY RecoversWhenHealthy
