SPECIFICATION Spec
CONSTANTS
  v1 = v1
  v2 = v2
  v3 = v3
  bad = bad
  NoPrompt = NoPrompt
  Unclassified = Unclassified
  NoRequest = NoRequest
  Version <- MCVersion
  Malformed = {}
  Branch = {"main", "exp"}
  Worker = {"a", "b"}
  Node = {"n1", "n2"}
  NodeOf <- DuoNode
  CacheHost = "redis"
  Job <- MergeJob
  Fault = {}
  Initial = {v1}
  Loadable = {}
  MaxWrites = 3
  MaxCrashes = 0
PROPERTIES MergeAnnounces
CHECK_DEADLOCK FALSE
