SPECIFICATION FairSpec
CONSTANTS
  v1 = v1
  v2 = v2
  NoPrompt = NoPrompt
  Unclassified = Unclassified
  NoRequest = NoRequest
  Version <- MCVersion
  Malformed = {}
  Branch = {"main"}
  Worker = {"a", "b"}
  Node = {"n1", "n2"}
  NodeOf <- LiveNode
  CacheHost = "redis"
  Job <- LiveJob
  Fault = {"redis"}
  Initial = {v1}
  Loadable <- LiveLoadable
  MaxWrites = 2
  MaxCrashes = 1
  TTL = 2
  MaxDelay = 1
INVARIANTS StaleForAtMostTTL
PROPERTIES CacheConverges Untimed
CHECK_DEADLOCK FALSE
