SPECIFICATION Spec
CONSTANTS
  Ifaces = {"Repo"}
  Methods = {"Get"}
  Wildcard = ""
  NoRule = "nobody"
  Documents <- MCDocuments
  DurationOf <- MCDurationOf
  TimeOf <- MCTimeOf
  Edits <- MCEdits
  Width = 4
INVARIANTS
  TypeOK
  PlanIsWhatWasSet
