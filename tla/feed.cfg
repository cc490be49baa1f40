SPECIFICATION Spec
CONSTANTS
  Worker = {"sim_dev_000"}
  Registered = {"sim_dev_000"}
  Text <- Texts
  Foreign <- Stranger
  MinInterval = 1
  MaxInterval = 1
  MaxReadings = 2
  MaxLosses = 1
  MaxStops = 1
  MaxRuns = 2
  MaxInbox = 2
  MaxLapses = 1
INVARIANTS
  TypeOK
  NothingLostSilently
  EvaluatedOnce
PROPERTIES
  FeedComesBack
