CONSTANTS
  w1 = w1
  e1 = e1
  r1 = r1
  r2 = r2
  Webhooks = {w1}
  Emails = {e1}
  NeedsApproval = {w1, e1}
  Requests = {r1, r2}
  MaxAttempts = 2
  Live = TRUE
  Connected = {}
  NoTask = NoTask
  MaxChanges = 0
  MaxFaults = 0
SPECIFICATION Spec
INVARIANT LiveModeNeedsConnectors
CHECK_DEADLOCK FALSE
