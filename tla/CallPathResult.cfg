SPECIFICATION Spec
CONSTANTS
  Calls = {c1}
  States = {s1}
  Kinds = {"static"}
  Habits = {}
  ChainLen = 1
  MaxProceed = 2
CHECK_DEADLOCK FALSE
INVARIANT DeliveredAlive
