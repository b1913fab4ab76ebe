SPECIFICATION Spec
CONSTANTS
  Goroutines = {g1, g2}
  Recorders = {g1, g2}
  Methods = {"Hello"}
  Values = {"", "ada"}
  Placeholder = ""
  Checks <- MCChecks
  MaxMade = 3
  MaxStubs = 1
  MaxGroups = 2
SYMMETRY Symmetry
CHECK_DEADLOCK FALSE
INVARIANTS
  TypeOK
  RecordsItsTrigger
  LogLengthExact
  LogIsReal
  MarksFollowCalls
  CursorIsPast
  AtLeastStands
