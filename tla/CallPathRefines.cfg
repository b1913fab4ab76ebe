SPECIFICATION Spec
CONSTANTS
  Calls = {c1, c2}
  States = {s1}
  Kinds = {"static", "mock"}
  Habits = {"args", "set", "own", "panic"}
  ChainLen = 2
  MaxProceed = 2
CHECK_DEADLOCK FALSE
PROPERTY ImplementsAroundAdvice
