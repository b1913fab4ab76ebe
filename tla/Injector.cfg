SPECIFICATION Spec
CONSTANTS
  Threads = {t1, t2}
  Binders = {b1, b2}
  Ifaces = {"Repo"}
  Methods = {"Get", "Put"}
  Wildcard = ""
  NoRule = NoRule
  IfaceOf <- MCIfaceOf
  NoError = {"Put"}
  RuleSets <- MCRuleSets
  Commands = {"set", "disable", "enable"}
  MaxPlans = 2
  MaxBindings = 2
  MaxCalls = 3
  MaxClock = 3
SYMMETRY Symmetry
CHECK_DEADLOCK FALSE
INVARIANTS
  TypeOK
  CallUsesItsPlan
  OwnerDecides
  FaultsAreDue
  OrdinalsDistinct
  BoundedOverrun
