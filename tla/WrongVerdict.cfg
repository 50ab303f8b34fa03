\* Two completion checks in flight: the later commit carries the older verdict.
CONSTANTS
  t1 = t1
  s1 = s1
  Tasks = {t1, t2}
  Slots = {s1, s2}
  Engines = {e1}
  EngineOf <- Together
  Requests = {r1}
  MaxRetries <- MixedRetries
  MaxAttempt = 2
  DueLimit = 2
  Env = {}
SPECIFICATION Spec
SYMMETRY Interchangeable
CHECK_DEADLOCK FALSE
INVARIANT VerdictMatchesTasks
