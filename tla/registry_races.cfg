SPECIFICATION FairSpec
CONSTANTS
  Call = {c1, c2}
  Device = {d1}
  Watchdog = Watchdog
  NoCall = NoCall
  Requests <- RaceRequests
  Faults = TRUE
  MaxAge = 1
  KeyTTL = 2
  MaxCrash = 1
  MaxTime = 3
INVARIANTS
  TypeOK
  KeyMatchesCertificate
PROPERTIES
  ImplementsDirectory
  EveryCallAnswered
  ScanEnds
