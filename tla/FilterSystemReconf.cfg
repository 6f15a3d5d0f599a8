SPECIFICATION AllowSpec
CONSTANTS
  Streams = {r1, r2}
  WorkerOf <- OwnWorkers
  Requests <- JustChecks
  MaxBody <- OneByte
  CacheEnabled = {r1, r2}
  Old = {r1}
  Keys = {2, 3}
  NumShards = 1
  MaxEntries <- Pair
  Absent = Absent
  ForeignKey = ForeignKey
  Ttl <- TwoTimes
  MaxTime = 4
  Timeout <- ShortTime
  MaxStall = 1
  MayLeave = {r1}
  MaxPolicy = 1
  Undecided = Undecided
SYMMETRY StreamSymmetry
INVARIANTS
  ReplayIsGenuine
  StalenessBounded
CHECK_DEADLOCK FALSE
