\* Redis may fail at any command, so every mixture of the two stores occurs.
CONSTANTS
  c1 = c1
  c2 = c2
  l1 = l1
  global = global
  domain = domain
  Callers = {c1, c2}
  Limiters = {l1}
  LimiterOf <- Shared
  Buckets = {global, domain}
  Route <- TwoRoutes
  Domain <- OneDomain
  Rate <- Slow
  Second = 2
  Cost = 80
  Nap = 1
  Timeout = 2
  MaxTime = 2
  Observed = "local"
  Throttled = {c1}
  Env = {"redis"}
SPECIFICATION FairSpec
CHECK_DEADLOCK FALSE
INVARIANTS
  TypeOK
  WindowBound
PROPERTIES
  AcquireReturns
