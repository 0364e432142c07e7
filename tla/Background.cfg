SPECIFICATION BackgroundSpec
CONSTANTS
  i1 = i1
  i2 = i2
  w1 = w1
  w2 = w2
  n1 = n1
  n2 = n2
  n3 = n3
  Instances <- TwoInstances
  Workers <- OneWorker
  Names <- OneName
  Backend = "postgres"
  Operations = {"upsert", "crash", "storeError"}
  Period = 2
  Lookahead = 4
  MinInterval = 1
  WheelSlots = 5
  SlotCap = 2
  DispatchCap = 1
  CancelMargin = 1
  ClaimTTL = 2
  Retries = 1
  MaxRun = 1
  MaxTime = 6
  MaxInputs = 3
SYMMETRY BackgroundSymmetry
CONSTRAINT BackgroundBound
INVARIANTS AtMostOneExecution     RecordsExact
CHECK_DEADLOCK FALSE
