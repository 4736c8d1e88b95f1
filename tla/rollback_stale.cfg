SPECIFICATION Spec
CONSTANTS
  v1 = v1
  v2 = v2
  v3 = v3
  bad = bad
  NoPrompt = NoPrompt
  Unclassified = Unclassified
  NoRequest = NoRequest
  Version <- MCVersion
  Malformed = {}
  Branch = {"main", "exp"}
  Worker = {"a", "b"}
  Node = {"n1", "n2"}
  NodeOf <- DuoNode
  CacheHost = "redis"
  Job <- RollbackJob
  Fault = {}
  Initial = {v1}
  Loadable = {}
  MaxWrites = 2
  MaxCrashes = 0
INVARIANTS RollbackIsServed
