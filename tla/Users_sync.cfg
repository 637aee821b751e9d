SPECIFICATION SyncSpec
CONSTANTS
  c1 = c1
  u1 = u1
  u2 = u2
  u3 = u3
  e1 = e1
  e2 = e2
  e3 = e3
  p1 = p1
  MaxEvents = 4
  None = None
  Messages <- Numbered
  Consumers = {c1}
  RoutingKey <- OneKey
  RetryKeys = {}
  DeadLetterExchange = FALSE
  MaxRetryAttempts = 0
  Prefetch = 3
  FaultKinds = {"crash", "channel", "connection", "subscribe", "db"}
  MaxFaults = 2
  Users = {u1, u2}
  Emails = {e1, e2}
  Phones = {p1}
SYMMETRY Renaming
CHECK_DEADLOCK FALSE
INVARIANTS
  SyncTypeOK
  DirectoryConverges
  NothingDiscardedUnapplied
