CONSTANTS
  f1 = f1
  f2 = f2
  m1 = m1
  Submits = {f1, f2}
  Retrains = {m1}
  Threshold = 1
  MinRows = 1
  AutoRetrain = {TRUE, FALSE}
  Cooldown = TRUE
  MayFail = TRUE
  NoRun = NoRun
  MaxStops = 2
SPECIFICATION FairSpec
INVARIANTS TypeOK NoOrphanRun AppliedIsInModel
PROPERTIES RunsEnd AppliedOnce
CHECK_DEADLOCK FALSE
