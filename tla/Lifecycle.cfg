SPECIFICATION FairSpec
CONSTANTS
  m1 = m1
  m2 = m2
  Consumers = {"push", "users"}
  Messages = {m1, m2}
  ConsumerOf <- Senders
  Delays = {"30s", "60s"}
  MaxRetryAttempts = 1
  Existing <- Brokers
  FaultKinds = {"exit", "connection", "channel"}
  MaxFaults = 1
  MaxRedeployments = 1
CHECK_DEADLOCK FALSE
INVARIANTS
  LifecycleTypeOK
  DelayAsConfigured
PROPERTIES
  NothingLostOnceComplete
  SettledApart
