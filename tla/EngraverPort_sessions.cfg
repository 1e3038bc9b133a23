SPECIFICATION FairSpec
CONSTANTS
  boot = boot
  qa = qa
  Clients = {boot, qa}
  Nostall = {qa}
  HomingWords = 4
  RingWords = 2
  Faults = {"power", "stall", "powerloss"}
INVARIANTS TypeOK OriginFromLimits RestWhenFree
PROPERTIES PlateOnPins Served
CHECK_DEADLOCK FALSE
