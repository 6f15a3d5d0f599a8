SPECIFICATION Spec
CONSTANTS
  Keys = {2, 4, 5}
  NumShards = 2
  Old = {r1, r2}
  MaxEntries <- TwoQuotas
  Streams = {r1, r2, r3}
  Decisions = {d1}
  Absent = Absent
  ForeignKey = ForeignKey
  Ttl <- TwoTtls
  MaxTime = 2
SYMMETRY StreamSymmetry
INVARIANTS
  TypeOK
  QuotaRespected
  LandedPurgeIsFinal
PROPERTIES
  StoreKeepsOthers
  ActsAsDecisionCache
CHECK_DEADLOCK FALSE
