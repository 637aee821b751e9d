SPECIFICATION EmailSpec
CONSTANTS
  m1 = m1
  m2 = m2
  c1 = c1
  c2 = c2
  None = None
  Messages = {m1, m2, m3}
  Consumers = {c1}
  RoutingKey <- SendKeys
  RetryKeys <- BoundKeys
  DeadLetterExchange = TRUE
  MaxRetryAttempts = 1
  Prefetch = 2
  FaultKinds = {"crash", "channel", "connection"}
  MaxFaults = 2
  m3 = m3
  r1 = r1
  r2 = r2
  s1 = s1
  s2 = s2
  Requests = {r1, r2}
  Services = {s1}
  RequestOf <- CopiedRequest
  ServiceOf <- OneService
  EmailOf <- OneInvalid
  HandlerFaultKinds = {"db", "reply"}
  MaxHandlerFaults = 1
  ConsecutiveFailures = 2
  HalfOpenMaxRequests = 1
SYMMETRY Copies
CHECK_DEADLOCK FALSE
INVARIANTS
  EmailTypeOK
  EmailDuplicatesAreFaults
  LogAgreesWithStatus
  DoneMeansDispatched
PROPERTIES
  EmailImplementsConsumer
