\* No faults: every task and the scan come to an end.
CONSTANTS
  t1 = t1
  s1 = s1
  Tasks = {t1, t2}
  Slots = {s1, s2}
  Engines = {e1}
  EngineOf <- Together
  Requests = {r1, r2}
  MaxRetries <- MixedRetries
  MaxAttempt = 2
  DueLimit = 2
  Env = {}
SPECIFICATION FairSpec
CHECK_DEADLOCK FALSE
INVARIANTS
  NothingLost
  VerdictReached
PROPERTY TasksSettle
