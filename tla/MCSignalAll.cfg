SPECIFICATION CvFairSpec
CONSTANTS
  Waiter = {w1, w2}
  Ops = {"Signal", "SignalAll"}
  Events = 1
PROPERTIES
  WakesAll
CHECK_DEADLOCK FALSE
