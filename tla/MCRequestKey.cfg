SPECIFICATION PairSpec
CONSTANTS
  lowercase <- SpellingsToLower
  rank <- NameRank
  PseudoNames <- FewPseudoNames
  Candidates <- SmallRequests
  Policies <- SmallPolicies
INVARIANTS
  EqualKeysEqualChecks
  RequestIdSharesDecision
CHECK_DEADLOCK FALSE
