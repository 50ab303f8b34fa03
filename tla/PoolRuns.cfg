\* A pool of one or two engines with a slot each, and a third name for an
\* engine that starts while another is still ending.
CONSTANTS
  e1 = e1
  e2 = e2
  e3 = e3
  Engines = {e1, e2, e3}
  Min = 1
  Max = 2
  Slots = 1
  Depths = {0, 10}
  Env = {"redis", "signal", "shutdown"}
SPECIFICATION FairSpec
CHECK_DEADLOCK FALSE
INVARIANTS
  TypeOK
  PoolBounds
  FloorKept
  AtMostOneLate
  RemovedHaveFinished
PROPERTIES
  StopReturns
  GrowsUnderLoad
