SPECIFICATION Spec
CONSTANTS
  Period = 2
  Minute = 3
  MaxCall = 2
  Skew <- MCSkew
  MaxWait = 2
  MaxWaiting = 1
  MaxNow = 6
  MaxEvents = 2
  None = None
CHECK_DEADLOCK FALSE
INVARIANTS CacheIsCurrent ClockLag
PROPERTIES BellConverges
