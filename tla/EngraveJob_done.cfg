SPECIFICATION Spec
CONSTANTS
  Knots = 6
  T <- MCT
  SafeKnots <- MCSafeKnots
  LineTicks = 1
  WordTicks = 2
  RingTicks = 2
  Faults = {"home", "stall", "block"}
  MaxStarts = 2
INVARIANT DoneIsComplete
CHECK_DEADLOCK FALSE
