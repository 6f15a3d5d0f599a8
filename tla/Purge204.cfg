SPECIFICATION OnePurgeSpec
CONSTANTS
  Keys = {2, 3}
  NumShards = 1
  Old = {}
  MaxEntries <- TwoEntries
  Streams = {r1, r2, r3, r4, r5}
  Decisions = {d1}
  Absent = Absent
  ForeignKey = ForeignKey
  Ttl <- ShortTtl
  MaxTime = 0
SYMMETRY StreamSymmetry
CHECK_DEADLOCK FALSE
INVARIANT ReturnedPurgeHasPurged
