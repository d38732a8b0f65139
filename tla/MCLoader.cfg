SPECIFICATION Spec
CONSTANTS
  g1 = g1
  g2 = g2
  Goroutines = {g1, g2}
  Modules <- MCModules
  Slots = {1, 2}
  Sources <- MCSources
  Path <- MCPath
  Builtins = {"c", "n"}
  Graphs <- MCGraphs
  MayFail = {"b", "pb"}
  InitCalls <- MCInitCalls
  FunImports = {"c"}
  Entry = {"a", "c"}
  Callable = {"a", "b"}
  Wrapped = {"a"}
  Stateful = {"a"}
  Escaping = {"a"}
  Counters = {1}
  Budgets <- MCBudgets
  MaxWrites = 2
  MaxPooled = 1
  MaxVMs = 3
INVARIANTS OneLoad PublishedWhole LoadStateClean WorkerExclusive 
PROPERTY LoadsEnd
CHECK_DEADLOCK FALSE
