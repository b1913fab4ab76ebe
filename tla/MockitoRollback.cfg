SPECIFICATION Spec
CONSTANTS
  Goroutines = {g1, g2}
  Recorders = {g1}
  Methods = {"Hello"}
  Values = {"", "ada"}
  Placeholder = ""
  Checks <- MCChecks
  MaxMade = 3
  MaxStubs = 1
  MaxGroups = 1
SYMMETRY Symmetry
CHECK_DEADLOCK FALSE
INVARIANTS
  TriggersDoNotCount
