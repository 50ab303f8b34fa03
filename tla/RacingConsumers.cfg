\* Two engines move the same due payload out of the delayed set.
CONSTANTS
  t1 = t1
  s1 = s1
  Tasks = {t1, t2}
  Slots = {s1, s2}
  Engines = {e1, e2}
  EngineOf <- Apart
  Requests = {r1}
  MaxRetries <- MixedRetries
  MaxAttempt = 2
  DueLimit = 2
  Env = {}
SPECIFICATION Spec
CHECK_DEADLOCK FALSE
INVARIANT OneCarrier
