SPECIFICATION Spec
CONSTANTS
  lowercase <- SpellingsToLower
  PseudoNames <- FewPseudoNames
  Values <- FewValues
  Responses <- SomeResponses
  HeaderMaps <- SomeHeaderMaps
INVARIANTS
  ReplayMatchesAnswer
  RoutingHeadersStay
  AdditionsArrive
  ReplyStatusIsHttp
CHECK_DEADLOCK FALSE
