SPECIFICATION Spec
CONSTANTS
  v1 = v1
  v2 = v2
  NoPrompt = NoPrompt
  Version = {v1, v2}
  Branch = {"main", "exp"}
  MaxCommits = 2
  MaxRows = 3
  MaxFiles = 2
  MaxCrashes = 1
INVARIANTS TypeOK PointersHaveHistory RestoredHoldsBackup ServedIsInHistory
INVARIANTS QuietBackupRestores HistoriesStayApart
PROPERTIES RestoreIsIdempotent
SYMMETRY Interchangeable
CHECK_DEADLOCK FALSE
