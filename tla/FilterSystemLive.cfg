SPECIFICATION FairPurgeSpec
CONSTANTS
  Streams = {r1, r2, r3}
  WorkerOf <- OwnWorkers
  Requests <- CheckOrPurge
  MaxBody <- OneByte
  CacheEnabled = {r1, r2, r3}
  Old = {}
  Keys = {2}
  NumShards = 1
  MaxEntries <- Pair
  Absent = Absent
  ForeignKey = ForeignKey
  Ttl <- ShortTime
  MaxTime = 0
  Timeout <- ShortTime
  MaxStall = 0
  MayLeave = {r1, r2, r3}
  MaxPolicy = 0
  Undecided = Undecided
CHECK_DEADLOCK FALSE
PROPERTIES
  EndedIsConcluded
