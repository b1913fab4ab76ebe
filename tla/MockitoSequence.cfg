SPECIFICATION Spec
CONSTANTS
  Goroutines = {g1, g2}
  Recorders = {g1}
  Methods = {"Hello"}
  Values = {"", "ada"}
  Placeholder = ""
  Checks <- MCChecks
  MaxMade = 4
  MaxStubs = 1
  MaxGroups = 2
SYMMETRY Symmetry
CHECK_DEADLOCK FALSE
INVARIANTS
  OneGroupPerCall
