\* The first documents already have fuzzing tasks off the target.
CONSTANTS
  admin = admin
  alice = alice
  broken = broken
  none = none
  NoToken = none
  Sites <- TwoSites
  Requests <- SomeRequests
  Claims <- SomeClaims
  Unstorable = {"NUL"}
  QuerySuffixes = {"?admin=true"}
  Statuses = {200, 401}
  Bodies = {"profile", "debug", "stub"}
  Watched = {1, 2, 3, 30}
  NoBody = "none"
  Leaves <- SomeLeaves
  Likeness <- SomeLikeness
  Uuids = {"uuid"}
  Numerals = {}
  IdKeys = {"id"}
  PiiKeys = {"email"}
  SecretKeys = {"debug"}
  AdminHints = {"admin"}
  Upper <- SomeUpper
  NumberValue <- SomeNumbers
  NumberToken <- AllNumerals
  MethodVariants <- SomeVariants
  ExtensionSuffixes <- OneExtension
  JunkSuffixes <- TwoJunks
  TraversalSuffixes <- OneTraversal
  InjectedValues <- TwoInjected
  NullValues <- TwoNulls
  ConfusedValues <- TwoConfused
SPECIFICATION Spec
CHECK_DEADLOCK FALSE
INVARIANT
  FuzzReachesTarget
