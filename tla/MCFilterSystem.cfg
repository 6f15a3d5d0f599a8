SPECIFICATION PurgeSpec
CONSTANTS
  Streams = {r1, r2, r3}
  WorkerOf <- OwnWorkers
  Requests <- CheckOrPurge
  MaxBody <- OneByte
  CacheEnabled = {r1, r2, r3}
  Old = {}
  Keys = {2}
  NumShards = 1
  MaxEntries <- Pair
  Absent = Absent
  ForeignKey = ForeignKey
  Ttl <- ShortTime
  MaxTime = 2
  Timeout <- ShortTime
  MaxStall = 0
  MayLeave = {}
  MaxPolicy = 1
  Undecided = Undecided
SYMMETRY StreamSymmetry
INVARIANTS
  TypeOK
  ReplayIsGenuine
  StalenessBounded
CHECK_DEADLOCK FALSE
