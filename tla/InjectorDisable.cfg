SPECIFICATION Spec
CONSTANTS
  Threads = {t1}
  Binders = {b1}
  Ifaces = {"Repo"}
  Methods = {"Get"}
  Wildcard = ""
  NoRule = NoRule
  IfaceOf <- MCIfaceOf
  NoError = {}
  RuleSets <- OnlyFailOnce
  Commands = {"disable", "enable"}
  MaxPlans = 3
  MaxBindings = 3
  MaxCalls = 2
  MaxClock = 1
SYMMETRY Symmetry
CHECK_DEADLOCK FALSE
INVARIANTS
  CountSurvivesDisable
