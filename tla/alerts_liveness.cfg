SPECIFICATION FairSpec
CONSTANTS
  Device = {d1}
  Metric = {m1}
  AllMetrics = AllMetrics
  Eval = {e1}
  Values = {1, 9}
  NoValue = NoValue
  Configured <- HighAndRange
  Thresholds <- EveryKind
  Updates <- Enable
  Durations = {1}
  TTL = 1
  Faults = TRUE
  MaxRules = 1
  MaxTime = 2
INVARIANTS
  PublishedIsRecorded
  AnnouncedOnce
PROPERTY EvaluationEnds
CHECK_DEADLOCK FALSE
