\* Database errors only: a swallowed one leaves the status as it was.
CONSTANTS
  t1 = t1
  s1 = s1
  Tasks = {t1, t2}
  Slots = {s1, s2}
  Engines = {e1}
  EngineOf <- Together
  Requests = {r1}
  MaxRetries <- MixedRetries
  MaxAttempt = 2
  DueLimit = 2
  Env = {"db"}
SPECIFICATION Spec
SYMMETRY Interchangeable
CHECK_DEADLOCK FALSE
INVARIANT NeverStuckProcessing
