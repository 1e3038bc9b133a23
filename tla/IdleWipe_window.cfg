SPECIFICATION FairSpec
CONSTANTS
  Idle = 3
  Warning = 2
  Slices = 4
INVARIANT WipedInTime
PROPERTIES WarnedBeforeWipe NoWipeMidCut PanelIsTrue DerivationEnds
