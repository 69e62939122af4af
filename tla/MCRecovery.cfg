SPECIFICATION MCSpec
CONSTANTS
  Parts = {"use", "reopen", "errors", "repair"}
  k1 = k1
  k2 = k2
  KillInRename = FALSE
INVARIANTS
  DatabaseRecovers
  RepairIsSafe
PROPERTIES
  ImplementsDurable
  TablesAreFinal
  EventuallyOpen
CHECK_DEADLOCK FALSE
