SPECIFICATION Spec
CONSTANTS
  v1 = v1
  v2 = v2
  v3 = v3
  bad = bad
  NoPrompt = NoPrompt
  Unclassified = Unclassified
  NoRequest = NoRequest
  Version <- MCVersionBad
  Malformed = {bad}
  Branch = {"main", "exp"}
  Worker = {"a", "b"}
  Node = {"n1", "n2"}
  NodeOf <- DuoNode
  CacheHost = "n1"
  Job <- CLIJob
  Fault = {"store", "lostreply", "embedder"}
  Initial = {v1, NoPrompt}
  Loadable = {bad}
  MaxWrites = 3
  MaxCrashes = 1
INVARIANTS StaleHasCause CacheIsValid
PROPERTIES ConfirmedPublishTookEffect
