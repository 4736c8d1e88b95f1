SPECIFICATION Spec
CONSTANTS
  v1 = v1
  v2 = v2
  v3 = v3
  bad = bad
  NoPrompt = NoPrompt
  Unclassified = Unclassified
  NoRequest = NoRequest
  Version <- MCVersion
  Malformed = {}
  Branch = {"main", "exp"}
  Worker = {"a", "b"}
  Node = {"n1", "n2"}
  NodeOf <- DuoNode
  CacheHost = "redis"
  Job <- DuoJob
  Fault = {"redis"}
  Initial = {v1}
  Loadable = {}
  MaxWrites = 3
  MaxCrashes = 1
INVARIANTS TypeOK StaleHasCause EventsAreOfTheHistory
PROPERTIES ConfirmedPublishTookEffect ChangesAreAnnounced History
