SPECIFICATION Spec
CONSTANTS
  m1 = m1
  m2 = m2
  c1 = c1
  c2 = c2
  None = None
  Messages = {m1, m2}
  Consumers = {c1, c2}
  RoutingKey <- SendKeys
  RetryKeys <- BoundKeys
  DeadLetterExchange = TRUE
  MaxRetryAttempts = 2
  Prefetch = 2
  FaultKinds = {"crash", "channel", "connection", "park", "subscribe", "topology", "broker"}
  MaxFaults = 2
CHECK_DEADLOCK FALSE
INVARIANTS
  TypeOK
  OneCustodian
  RetryBudget
  NeverParkedEarly
  ParkedOnce
  NeverSkipped
