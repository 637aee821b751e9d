SPECIFICATION FairPushSpec
CONSTANTS
  m1 = m1
  m2 = m2
  c1 = c1
  None = None
  Messages = {m1, m2, m3}
  Consumers = {c1}
  RoutingKey <- SendKeys
  RetryKeys <- BoundKeys
  DeadLetterExchange = TRUE
  MaxRetryAttempts = 1
  Prefetch = 1
  FaultKinds = {"crash"}
  MaxFaults = 1
  m3 = m3
  r1 = r1
  r2 = r2
  Requests = {r1, r2}
  RequestOf <- OwnRequest
  NotificationOf <- EveryKind
  HandlerFaultKinds = {"db", "reply"}
  MaxHandlerFaults = 1
  ConsecutiveFailures = 2
  HalfOpenMaxRequests = 1
CHECK_DEADLOCK FALSE
PROPERTIES
  PushEventuallySettled
