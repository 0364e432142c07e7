SPECIFICATION GuardsSpec
CONSTANTS
  p1 = p1
  p2 = p2
  Units <- OnlySpread
  SpreadFlows <- TwoFlows
  SpreadRequests <- FlowAndApi
  Reqs <- Two
  FailureThreshold = 2
  SuccessThreshold = 2
  OpenDuration = 2
PROPERTY Converges
CHECK_DEADLOCK FALSE
