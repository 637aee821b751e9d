SPECIFICATION PushSpec
CONSTANTS
  m1 = m1
  m2 = m2
  c1 = c1
  None = None
  Messages = {m1, m2, m3}
  Consumers = {c1}
  RoutingKey <- SendKeys
  RetryKeys <- BoundKeys
  DeadLetterExchange = TRUE
  MaxRetryAttempts = 1
  Prefetch = 2
  FaultKinds = {"crash", "channel", "connection", "broker", "topology"}
  MaxFaults = 2
  m3 = m3
  r1 = r1
  r2 = r2
  Requests = {r1, r2}
  RequestOf <- CopiedRequest
  NotificationOf <- OneInvalid
  HandlerFaultKinds = {"db", "reply", "garbled"}
  MaxHandlerFaults = 1
  ConsecutiveFailures = 2
  HalfOpenMaxRequests = 1
SYMMETRY Copies
CHECK_DEADLOCK FALSE
INVARIANTS
  PushTypeOK
  DuplicatesAreFaults
  DoneMeansSent
  TrialAvailable
  ParkedIsRecorded
PROPERTIES
  SentIsFinal
  ImplementsConsumer
