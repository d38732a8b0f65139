SPECIFICATION FairSpec
CONSTANTS
  c0 = c0
  c1 = c1
  p1 = p1
  p2 = p2
  p3 = p3
  Null = Null
  NoProc = NoProc
  va = va
  vb = vb
  Vals <- MCVals
  NoChan = NoChan
  Scripts <- MCScripts
  Chans <- MCChans
  Procs <- MCProcs
  Cap <- MCCap
INVARIANTS
  TypeOK
  NoSendPanic
  EndIsFinal
  CloseWakesAll
CHECK_DEADLOCK FALSE
PROPERTIES
  OnlySendersBlock
