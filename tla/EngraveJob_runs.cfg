SPECIFICATION FairSpec
CONSTANTS
  Knots = 6
  T <- MCT
  SafeKnots <- MCSafeKnots
  LineTicks = 1
  WordTicks = 2
  RingTicks = 2
  Faults = {"open", "home", "block", "stall"}
  MaxStarts = 2
INVARIANTS TypeOK ResumeIsExact
PROPERTIES WorkerIsAlone JobEnds
CHECK_DEADLOCK FALSE
