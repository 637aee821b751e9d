SPECIFICATION Spec
CONSTANTS
  m1 = m1
  m2 = m2
  c1 = c1
  c2 = c2
  None = None
  Messages = {m1}
  Consumers = {c1}
  RoutingKey <- SendKeys
  RetryKeys <- BoundKeys
  DeadLetterExchange = TRUE
  MaxRetryAttempts = 0
  Prefetch = 2
  FaultKinds = {"broker"}
  MaxFaults = 1
CHECK_DEADLOCK FALSE
PROPERTIES
  ParkedStays
