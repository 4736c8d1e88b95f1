SPECIFICATION Spec
CONSTANTS
  v1 = v1
  v2 = v2
  NoPrompt = NoPrompt
  Version = {v1, v2}
  Branch = {"main", "exp"}
  MaxCommits = 2
  MaxRows = 3
  MaxFiles = 2
  MaxCrashes = 0
INVARIANTS BackupRestores
SYMMETRY Interchangeable
CHECK_DEADLOCK FALSE
