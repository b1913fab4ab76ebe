SPECIFICATION Spec
CONSTANTS
  Calls = {c1, c2}
  States = {s1, s2}
  Kinds = {"static", "stack", "bound", "mock"}
  Habits = {"args", "set", "own", "panic", "recover"}
  ChainLen = 1
  MaxProceed = 2
SYMMETRY Symmetry
CHECK_DEADLOCK FALSE
INVARIANTS
  TypeOK
  ExclusiveState
  ArgsPreserved
  ArgsAlive
  StoredResultAlive
  DeliveredIsMeant
