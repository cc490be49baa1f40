SPECIFICATION Spec
CONSTANTS
  Reader = {r1}
  Requests <- SomeRequests
  DefaultLimit = 1
  MaxLimit = 2
  Day = 2
  Keep = 3
  IntMax = 7
  MaxTime = 5
INVARIANTS
  TypeOK
  PagesMissNothing
