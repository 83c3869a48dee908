CONSTANTS
  s1 = s1
  s2 = s2
  j1 = j1
  server = server
  NoMatch = NoMatch
  Auditors = {s1, s2, j1}
  Synchronous = {s1, s2}
  Window = 1
  MaxRuns = 3
  MaxCrashes = 2
  Torn = Torn
  RawRows <- MCRawRows
  MaxRows = 5
  MinRows = 3
  Categories = {"food", "supplies"}
  PersonalCategories = {"food"}
  BusinessHints = {"utilities"}
  PersonalHints = {"housing"}
  MatchOf <- MCMatchOf
  Leaning <- MCLeaning
  LabelOrder <- MCLabelOrder
  Unit = 4
  Curves <- MCCurves
  Trainers = {server}
  MaxTrainings = 5
  MaxDeaths = 3
  CanFail = TRUE
SPECIFICATION ModelsSpec
CHECK_DEADLOCK FALSE
INVARIANTS
  ModelsTypeOK
  MonitorFollowsSuccess CorrectionsReachTheRun ServedAsTrained OnlyPinned
PROPERTY ServedNeverOlder
