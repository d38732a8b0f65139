SPECIFICATION Spec
CONSTANTS
  Main = Main
  t1 = t1
  t2 = t2
  g1 = g1
  i1 = i1
  i2 = i2
  Tasks <- MCTasks
  Gens <- MCGens
  Insts <- MCInsts
INVARIANTS
  NeverRaces
CHECK_DEADLOCK FALSE
