SPECIFICATION FairEmailSpec
CONSTANTS
  m1 = m1
  m2 = m2
  c1 = c1
  c2 = c2
  None = None
  Messages = {m1, m2, m3}
  Consumers = {c1, c2}
  RoutingKey <- SendKeys
  RetryKeys <- BoundKeys
  DeadLetterExchange = TRUE
  MaxRetryAttempts = 0
  Prefetch = 1
  FaultKinds = {"crash"}
  MaxFaults = 1
  m3 = m3
  r1 = r1
  r2 = r2
  s1 = s1
  s2 = s2
  Requests = {r1, r2}
  Services = {s1, s2}
  RequestOf <- CopiedRequest
  ServiceOf <- CrossedService
  EmailOf <- OneMalformed
  HandlerFaultKinds = {"db"}
  MaxHandlerFaults = 1
  ConsecutiveFailures = 2
  HalfOpenMaxRequests = 1
CHECK_DEADLOCK FALSE
INVARIANTS
  OneAttemptAtATime
PROPERTIES
  EmailEventuallySettled
