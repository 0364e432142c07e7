SPECIFICATION FlowSpec
CONSTANTS
  p1 = p1
  p2 = p2
  key = key
  val = val
  nil = nil
  i1 = i1
  i2 = i2
  t1 = t1
  t2 = t2
  run = run
  r1 = r1
  r2 = r2
  Elements = {1}
  Units <- AllUnits
  RegistryOps = 3
  RegistryAliases = {t1, t2}
SYMMETRY FlowSymmetry
CONSTRAINT FlowBound
INVARIANTS FlowAsWritten  RefsHold  CatchesUp AnswerIsOwn  
CHECK_DEADLOCK FALSE
