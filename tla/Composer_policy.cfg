SPECIFICATION Spec
CONSTANTS
  Wrappers = {"tr", "wsh", "sh"}
  Presets <- MCPresets
  Hashes = {"h1"}
  Payloads <- MCPayloads
  Seeds = {"f1"}
  MaxPaths = 2
  MaxKeys = 2
  MaxSlots = 3
  MaxTyped = 1
  MaxEdits = 3
INVARIANTS SeatingHolds ConsentedIsSound
PROPERTIES NoSilentDiscard OriginsAreFlagged
CHECK_DEADLOCK FALSE
