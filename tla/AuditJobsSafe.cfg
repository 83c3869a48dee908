CONSTANTS
  k1 = k1
  k2 = k2
  a1 = a1
  t1 = t1
  s1 = s1
  w1 = w1
  w2 = w2
  Keys = {k1, k2}
  FailingKeys = {k1}
  AsyncCalls = {a1}
  TickCalls = {t1}
  SyncCalls = {s1}
  Workers = {w1, w2}
  NoKey = NoKey
  MaxStops = 1
SPECIFICATION Spec
SYMMETRY Symmetry
INVARIANTS TypeOK NoOrphanJob SucceededHasAudit
PROPERTY KeepsLedger
CHECK_DEADLOCK FALSE
