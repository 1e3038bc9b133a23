SPECIFICATION Spec
CONSTANTS
  NumSlots = 3
  KeyRows = 2
  OurKey <- MCOurKey
  TableSize = 3
  Unicode = {0}
  Labels <- MCLabels
  Space = 9
  Copies = 2
  Memories <- MCMemories
INVARIANTS LockedBoots
