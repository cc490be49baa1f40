SPECIFICATION Spec
CONSTANTS
  d1 = d1
  m1 = m1
  Device = {d1}
  Metric = {m1}
  Blank = blank
  Registered = {d1}
  Configured <- OneThreshold
  Recorded <- EarlierAlerts
  Base = 4
  HttpClient = {h1}
  GrpcClient = {g1}
  HttpRequests <- AllHttp
  GrpcRequests <- DirectRequests
  IntMax = 3
  DefaultLimit = 2
  DefaultPage = 1
  Fired <- SomeAlerts
  MaxPage = 1
  Keep = 0
  Faults = TRUE
  MaxAsks = 1
  MaxIds = 5
  MaxTime = 2
INVARIANTS
  TypeOK
  AcknowledgedIsListed
  DeletedStaysDeleted
  NewestAlertsFirst
  StatsMissNothing
PROPERTIES
  EveryRequestAnswered
  DrainCompletes
