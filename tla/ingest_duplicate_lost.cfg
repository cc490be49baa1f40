SPECIFICATION FairSpec
CONSTANTS
  Request = {r1, r2, r3}
  NoRequest = NoRequest
  d1 = d1
  d2 = d2
  m1 = m1
  m2 = m2
  Device = {d1, d2}
  KnownDevice = {d1}
  Metric = {m1, m2}
  Calls <- RetryCalls
  MaxBatch = 2
  QueueCap = 1
  TicksPerSecond = 2
  FutureSkew = 0
  StartTime = 6
  MaxTime = 6
  ScanModes = {FALSE}
  Faults = {}
PROPERTY DuplicateIsPersisted
