SPECIFICATION Spec
CONSTANTS
  Device = {d1}
  Metric = {m1}
  AllMetrics = AllMetrics
  Eval = {e1, e2}
  Values = {2, 9}
  NoValue = NoValue
  Configured <- HighEverywhere
  Thresholds <- ChangeOrHigh
  Updates = {}
  Durations = {0, 1}
  TTL = 1
  Faults = FALSE
  MaxRules = 2
  MaxTime = 2
SYMMETRY Symmetry
INVARIANTS
  TypeOK
  SilenceHolds
  QuietPeriod
  ChangeIsReal
CHECK_DEADLOCK FALSE
