SPECIFICATION MCSpec
CONSTANTS
  Parts = {"reopen"}
  k1 = k1
  k2 = k2
  KillInRename = TRUE
PROPERTY ImplementsDurable
CHECK_DEADLOCK FALSE
