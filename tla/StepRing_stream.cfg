SPECIFICATION FairSpec
CONSTANTS
  RingSize = 5
  FifoDepth = 2
  MaxBatch = 3
  MaxWords = 9
INVARIANTS TypeOK ReportsAreHonest
PROPERTIES ImplementsStream CallsReturn
