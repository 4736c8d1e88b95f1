SPECIFICATION CommandSpec
CONSTANTS
  v1 = v1
  v2 = v2
  v3 = v3
  bad = bad
  NoPrompt = NoPrompt
  Unclassified = Unclassified
  NoRequest = NoRequest
  Version <- MCVersion
  Malformed = {}
  Branch = {"main", "exp"}
  Worker = {"a"}
  Node = {"n1"}
  NodeOf <- SoloNode
  CacheHost = "redis"
  Job <- SoloJob
  Fault = {"redis", "store"}
  Initial = {v1}
  Loadable = {}
  MaxWrites = 3
  MaxCrashes = 1
  Server = "a"
INVARIANTS VerdictIsOfTheChange
PROPERTIES FreshOnceConfirmed ReportIsTrue
