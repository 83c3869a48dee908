CONSTANTS
  k1 = k1
  a1 = a1
  t1 = t1
  s1 = s1
  w1 = w1
  Keys = {k1}
  FailingKeys = {k1}
  AsyncCalls = {a1}
  TickCalls = {t1}
  SyncCalls = {s1}
  Workers = {w1}
  NoKey = NoKey
  MaxStops = 0
SPECIFICATION Spec
PROPERTY SucceededIsFinal
CHECK_DEADLOCK FALSE
