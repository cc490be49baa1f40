SPECIFICATION FairSpec
CONSTANTS
  NumBrokers = 2
  BufferSize <- Sizes
  DefaultBuffer = 2
  Unreachable = {}
  Misconfigured = {2}
  d1 = d1
  m1 = m1
  External = External
  NoName = NoName
  Names = {d1, m1, External}
  Inputs <- MixedInputs
  MaxRecv = 3
  MaxTime = 2
INVARIANTS
  TypeOK
  KeepsFreshest
  NothingUnaccounted
  RequestsAreComplete
PROPERTIES
  ImplementsQueue
  EveryReadingSettles
  StopCompletes
