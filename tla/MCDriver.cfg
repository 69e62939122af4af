SPECIFICATION MCFairSpec
CONSTANTS
  Parts = {"months", "restart", "report"}
  NumFiles = 3
  Blocks <- MCBlocks
  Offset <- MCOffset
  Height <- MCHeight
  FirstTx <- MCFirstTx
  Stops <- MCStops
  MayFail = {0, 2}
  MaxCrashes = 2
  a = a
  b = b
  c = c
  MaxTorn = 0
  before = 3
  after = 6
  RangeCount = 2
INVARIANTS
  BlocksAreNumbered
  NoneLostOrDoubled
  MonthIsClosed
  RestartIsSafe
  ReportIsRight
PROPERTIES
  CursorAdvances
  Completes
CHECK_DEADLOCK FALSE
