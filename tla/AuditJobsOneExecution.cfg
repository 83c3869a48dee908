CONSTANTS
  k1 = k1
  s2 = s2
  s3 = s3
  s1 = s1
  w1 = w1
  Keys = {k1}
  FailingKeys = {k1}
  AsyncCalls = {}
  TickCalls = {}
  SyncCalls = {s1, s2, s3}
  Workers = {w1}
  NoKey = NoKey
  MaxStops = 0
SPECIFICATION Spec
INVARIANT OneExecutionPerKey
CHECK_DEADLOCK FALSE
