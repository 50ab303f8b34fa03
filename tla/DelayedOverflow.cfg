\* More payloads are due than one read returns; all of them are removed.
CONSTANTS
  t1 = t1
  s1 = s1
  Tasks = {t1, t2}
  Slots = {s1, s2}
  Engines = {e1}
  EngineOf <- Together
  Requests = {r1}
  MaxRetries <- OneRetry
  MaxAttempt = 2
  DueLimit = 1
  Env = {}
SPECIFICATION Spec
SYMMETRY Interchangeable
CHECK_DEADLOCK FALSE
INVARIANT NothingLost
