SPECIFICATION WorkSpec
CONSTANTS
  p1 = p1
  p2 = p2
  p3 = p3
  Instances <- Two
  MaxFaults = 2
INVARIANTS OneRunner InOnePlace
 
CHECK_DEADLOCK FALSE
