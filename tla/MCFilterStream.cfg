SPECIFICATION FairSpec
CONSTANTS
  r1 = r1
  r2 = r2
  w1 = w1
  Streams = {r1, r2}
  WorkerOf <- OneWorker
  Requests <- SmallRequests
  MaxBody <- Limits
  CacheEnabled = {r1}
INVARIANTS
  TypeOK
  NotStranded
  ChecksTheWholeBody
  OversizedFailsClosed
  FailsClosed
CHECK_DEADLOCK FALSE
PROPERTIES
  ActsAsGate
  EndedIsConcluded
