SPECIFICATION FairSpec
CONSTANTS
  c1 = c1
  c2 = c2
  c3 = c3
  NoConn = NoConn
  Reqs <- MCConns
  Configs <- MCConfigs
INVARIANTS
  TypeOK
  CloseJoins
PROPERTIES
  CloseEnds
  ConnsEnd
CHECK_DEADLOCK FALSE
