SPECIFICATION FairSpec
CONSTANTS
  g1 = g1
  g2 = g2
  g3 = g3
  Callers = {g1, g2, g3}
  ConsecutiveFailures = 3
  HalfOpenMaxRequests = 2
  MaxOutages = 2
INVARIANTS
  TypeOK
  FailFast
  QuotaFreeWhenIdle
PROPERTIES
  RecoversWithProvider
