SPECIFICATION BurstSpec
CONSTANTS
  c1 = c1
  u1 = u1
  u2 = u2
  u3 = u3
  e1 = e1
  e2 = e2
  e3 = e3
  p1 = p1
  MaxEvents = 7
  None = None
  Messages <- Numbered
  Consumers = {c1}
  RoutingKey <- OneKey
  RetryKeys = {}
  DeadLetterExchange = FALSE
  MaxRetryAttempts = 0
  Prefetch = 10
  FaultKinds = {"channel", "crash"}
  MaxFaults = 2
  Users = {u1, u2, u3}
  Emails = {e1, e2, e3}
  Phones = {}
SYMMETRY Renaming
CHECK_DEADLOCK FALSE
INVARIANTS
  SyncedFromVerisafe
