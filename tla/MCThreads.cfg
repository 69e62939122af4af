SPECIFICATION MCFairSpec
CONSTANTS
  Parts = {"wake", "write", "flush", "range", "single"}
  w1 = w1
  w2 = w2
  w3 = w3
  Waiter <- MCThread
  Client <- MCThread
  Requests <- MCRequests
  MaxCalls = 1
  MaxFaults = 1
  Ops = {"Signal", "SignalAll"}
  Events = 3
  MaxParts = 1
  Small = 1
  MaxSize = 4
  write_buffer_size = 1
  L0_CompactionTrigger = 1
  L0_SlowdownWritesTrigger = 1
  L0_StopWritesTrigger = 1
INVARIANTS
  WakesOne
  WritesAreSafe
PROPERTIES
  AllReturn
CHECK_DEADLOCK FALSE
