SPECIFICATION TrafficSpec
CONSTANTS
  p1 = p1
  p2 = p2
  a1 = a1
  k1 = k1
  m1 = m1
  m2 = m2
  Requests <- TwoRequests
  Admins <- OneAdmin
  Overrides = {1}
  InitialLimit = 2
  MinLimit = 1
  MaxLimit = 3
  AddStep = 2
  CutPercent = 50
  CooldownTicks = 1
  MinSamples = 1
  MaxServed = 3
  MaxTicks = 2
  MaxPatches = 1
SYMMETRY RequestSymmetry
INVARIANTS AdmittedWithinLimit CutHasEvidence WithinLimit IndexInOnePlace TripHolds  OvershootBounded
PROPERTIES DenialIsFull
CHECK_DEADLOCK FALSE
