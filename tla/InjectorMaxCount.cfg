SPECIFICATION Spec
CONSTANTS
  Threads = {t1, t2}
  Binders = {b1}
  Ifaces = {"Repo"}
  Methods = {"Get"}
  Wildcard = ""
  NoRule = NoRule
  IfaceOf <- MCIfaceOf
  NoError = {}
  RuleSets <- OnlyFailOnce
  Commands = {}
  MaxPlans = 1
  MaxBindings = 2
  MaxCalls = 2
  MaxClock = 1
SYMMETRY Symmetry
CHECK_DEADLOCK FALSE
INVARIANTS
  MaxCountHolds
