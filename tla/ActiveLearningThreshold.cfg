CONSTANTS
  f1 = f1
  f2 = f2
  Submits = {f1, f2}
  Retrains = {}
  Threshold = 1
  MinRows = 1
  AutoRetrain = {TRUE}
  Cooldown = FALSE
  MayFail = FALSE
  NoRun = NoRun
  MaxStops = 0
SPECIFICATION FairSpec
PROPERTY ThresholdRetrains
CHECK_DEADLOCK FALSE
