\* Processes that come and go, requests that overlap, scans that vanish or get a
\* second submission.
CONSTANTS
  a1 = a1
  a2 = a2
  w1 = w1
  s1 = s1
  s2 = s2
  t1 = t1
  t2 = t2
  Apis = {a1, a2}
  Workers = {w1}
  Tasks = {t1, t2}
  Slots = {s1, s2}
  Scenarios <- Stories
SPECIFICATION Spec
CHECK_DEADLOCK FALSE
INVARIANTS
  TypeOK
  
  CompletionTold
  SuccessShownWithResponse
  CompletedCountsItsTasks
PROPERTIES
  ViewSettles
  DepartedUnlisted
