SPECIFICATION FairSpec
CONSTANTS
  Request = {r1, r2}
  NoRequest = NoRequest
  d1 = d1
  d2 = d2
  m1 = m1
  m2 = m2
  Device = {d1, d2}
  KnownDevice = {d1}
  Metric = {m1, m2}
  Calls <- LivenessCalls
  MaxBatch = 2
  QueueCap = 1
  TicksPerSecond = 2
  FutureSkew = 0
  StartTime = 4
  MaxTime = 4
  ScanModes = {FALSE, TRUE}
  Faults = {"redis", "db", "ctx"}
PROPERTIES
  AbandonedNeverWritten
  EveryCallAnswered
  StoredIsEvaluated
