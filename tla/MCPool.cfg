SPECIFICATION FairPoolSpec
CONSTANTS
  r1 = r1
  r2 = r2
  r3 = r3
  Reqs <- MCReqs
  Configs <- MCConfigs
INVARIANTS
  PoolTypeOK
  Capped
  NoIdleSlot
  Balanced
PROPERTIES
  RequestsEnd
CHECK_DEADLOCK FALSE
