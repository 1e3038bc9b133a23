SPECIFICATION Spec
CONSTANTS
  Regions <- MCRegions
  MaxRecords = 3
INVARIANT BuffersConfined
INVARIANT OnlyWholeOffered
PROPERTY UnwindEnds
