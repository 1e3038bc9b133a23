SPECIFICATION Spec
CONSTANTS
  key1 = key1
  key2 = key2
  key3 = key3
  key4 = key4
  desc = desc
  stamped = stamped
  single = single
  Cards <- MCCards
  Standalone <- MCStandalone
  Sound <- MCSound
  Key <- MCKey
  Total <- MCTotal
  Payloads <- MCPayloads
  PerPlate = 2
INVARIANTS TypeOK GatheredWhole ResumeKeeps SteelIsWhole
PROPERTIES PayloadOrder
CHECK_DEADLOCK FALSE
