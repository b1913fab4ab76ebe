SPECIFICATION Spec
CONSTANTS
  Calls = {c1}
  States = {s1}
  Kinds = {"static"}
  Habits = {"panic", "recover"}
  ChainLen = 1
  MaxProceed = 2
CHECK_DEADLOCK FALSE
INVARIANT SwallowedPanicGivesZeros
