SPECIFICATION FairSpec
CONSTANTS
  a = a
  b = b
  c = c
  w = w
  User = User
  Cancelled <- MCCancelled
  NoResult = NoResult
  NoTask = NoTask
  NoProc = NoProc
  Tasks <- MCTasks
  Procs <- MCProcs
  Results <- MCResults
  Shapes <- MCShapes
CHECK_DEADLOCK FALSE
PROPERTIES
  AllFailsFast
