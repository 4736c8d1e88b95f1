SPECIFICATION Spec
CONSTANTS
  v1 = v1
  v2 = v2
  NoPrompt = NoPrompt
  Unclassified = Unclassified
  NoRequest = NoRequest
  Version <- MCVersion
  Malformed = {}
  Branch = {"main"}
  Worker = {"a", "b"}
  Node = {"n1", "n2"}
  NodeOf <- LiveNode
  CacheHost = "redis"
  Job <- ReadJob
  Fault = {}
  Initial = {v1}
  Loadable = {}
  MaxWrites = 2
  MaxCrashes = 0
  TTL = 0
  MaxDelay = 1
INVARIANTS ZeroDisables
CHECK_DEADLOCK FALSE
