SPECIFICATION StorageSpec
CONSTANTS
  k1 = k1
  k2 = k2
  k3 = k3
  p1 = p1
  p2 = p2
CONSTRAINT StorageBound
INVARIANTS StoreNotSuperseded  
CHECK_DEADLOCK FALSE
