CONSTANTS
  w1 = w1
  e1 = e1
  r1 = r1
  r2 = r2
  Webhooks = {w1}
  Emails = {e1}
  NeedsApproval = {w1, e1}
  Requests = {r1, r2}
  MaxAttempts = 2
  Live = FALSE
  Connected = {e1}
  NoTask = NoTask
  MaxChanges = 1
  MaxFaults = 1
SPECIFICATION Spec
SYMMETRY Symmetry
INVARIANTS TypeOK EffectsApproved ExecutedIsBacked ApprovalOnRecord OneMailPerRequest
CHECK_DEADLOCK FALSE
