SPECIFICATION GuardsSpec
CONSTANTS
  p1 = p1
  p2 = p2
  Units <- AllUnits
  SpreadFlows <- OneFlow
  SpreadRequests <- OneName
  Reqs <- Two
  FailureThreshold = 2
  SuccessThreshold = 2
  OpenDuration = 2
INVARIANTS NoMissedTransition  CollectedUndone
PROPERTIES LegalTransitions  ConfigSpreads HitsOwn WaitersReleased
CHECK_DEADLOCK FALSE
