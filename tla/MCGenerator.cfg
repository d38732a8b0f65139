SPECIFICATION FairSpec
CONSTANTS
  p1 = p1
  p2 = p2
  p3 = p3
  Procs <- MCProcs
  Bodies <- MCBodies
  Scripts <- MCScripts
INVARIANTS
  TypeOK
  NothingLost
  EndIsTrue
PROPERTIES
  CloseEndsProducer
  CallsReturn
CHECK_DEADLOCK FALSE
