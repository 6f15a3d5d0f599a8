SPECIFICATION Spec
CONSTANTS
  Keys = {2}
  NumShards = 1
  Old = {}
  MaxEntries <- OneEntry
  Streams = {r1, r2, r3, r4, r5}
  Decisions = {d1}
  Absent = Absent
  ForeignKey = ForeignKey
  Ttl <- ShortTtl
  MaxTime = 0
SYMMETRY StreamSymmetry
INVARIANTS
  LandedPurgeIsFinal
PROPERTIES
  ActsAsDecisionCache
CHECK_DEADLOCK FALSE
