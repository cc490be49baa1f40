SPECIFICATION FairSpec
CONSTANTS
  Call = {c1}
  Device = {d1}
  Watchdog = Watchdog
  NoCall = NoCall
  Requests <- CreateOnly
  Faults = FALSE
  MaxAge = 1
  KeyTTL = 9
  MaxCrash = 0
  MaxTime = 4
PROPERTY SilentIsMarked
