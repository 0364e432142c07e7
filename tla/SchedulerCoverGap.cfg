SPECIFICATION Spec
CONSTANTS
  Instances = {i1}
  Workers = {w1}
  Names = {n1}
  Backend = "postgres"
  Operations = {"upsert"}
  Period = 2
  Lookahead = 8
  MinInterval = 1
  WheelSlots = 9
  SlotCap = 2
  DispatchCap = 2
  CancelMargin = 1
  ClaimTTL = 3
  Retries = 0
  MaxRun = 1
  MaxTime = 10
  MaxInputs = 1
INVARIANTS Covered
CHECK_DEADLOCK FALSE
