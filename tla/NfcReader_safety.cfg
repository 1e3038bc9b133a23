SPECIFICATION ReaderSpec
CONSTANTS
  Screens = 2
  RecordLens = {1, 4}
  BufChunks = 3
  MaxRecords = 1
  Failures = TRUE
INVARIANTS TypeOK DeliveredWhole ScannerKeepsPace NoTouchAfterClose
CHECK_DEADLOCK FALSE
