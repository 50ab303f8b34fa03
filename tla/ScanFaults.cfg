\* Every fault and a deletion: what holds whatever happens.
CONSTANTS
  t1 = t1
  s1 = s1
  Tasks = {t1, t2}
  Slots = {s1, s2}
  Engines = {e1}
  EngineOf <- Together
  Requests = {r1, r2}
  MaxRetries <- MixedRetries
  MaxAttempt = 2
  DueLimit = 1
  Env = {"crash", "db", "redis", "delete"}
SPECIFICATION Spec
SYMMETRY Interchangeable
CHECK_DEADLOCK FALSE
INVARIANTS
  TypeOK
  OneCarrier
  RetryBudget
  DeadLettersAreDead
  IInv
  CompletedCoversSuccess
PROPERTIES
  SuccessIsFinal
  ImplementsDelivery
