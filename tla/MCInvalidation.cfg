SPECIFICATION Spec
CONSTANTS
  lowercase <- SpellingsToLower
  PseudoNames <- NoPseudoNames
  rank <- NameRank
  Streams = {r1, r2, r3}
  Requests <- SmallRequests
  Secrets <- SmallSecrets
  Hashes = {0, 1}
  NumShards = 2
  NotJson = NotJson
SYMMETRY StreamSymmetry
INVARIANTS
  TypeOK
  OnlyAuthorizedPurges
  RepliesAsDocumented
CHECK_DEADLOCK FALSE
