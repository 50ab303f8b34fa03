\* Two engines whose consumers race for the delayed set, without faults: what survives the
\* duplicates.  Slots and engines are bound to each other, so no symmetry.
CONSTANTS
  t1 = t1
  s1 = s1
  Tasks = {t1, t2}
  Slots = {s1, s2}
  Engines = {e1, e2}
  EngineOf <- Apart
  Requests = {r1}
  MaxRetries <- MixedRetries
  MaxAttempt = 2
  DueLimit = 2
  Env = {}
SPECIFICATION FairSpec
CHECK_DEADLOCK FALSE
INVARIANTS VerdictReached
PROPERTY TasksRest
