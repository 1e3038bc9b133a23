SPECIFICATION Spec
CONSTANTS
  Words = {"w1", "w2"}
  Phrases = {"p"}
  Strangers <- MCStrangers
  MaxForeign = 1
  MaxSlots = 2
  Payloads <- MCPayloads
  Supplied <- MCSupplied
  MaxSeeds = 3
INVARIANT SteelIsPolicy
INVARIANT VerifiedIsSteel
INVARIANT RemedyReoffered
CHECK_DEADLOCK FALSE
