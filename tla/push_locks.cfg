SPECIFICATION FairSpec
CONSTANTS
  s1 = s1  s2 = s2  r1 = r1  r2 = r2  k1 = k1  k2 = k2  A = A  B = B  mine = mine  theirs = theirs
  NoKey = NoKey  NoRow = NoRow  Nobody = Nobody
  Base = 2  Digits = 1
  Sessions = {s1, s2}
  Records = {r1, r2}
  Keys = {k1, k2}
  FullKeys = {k1}
  Requests <- TwoRecords
  Granted <- AllGranted
  PoolSize = 3
  MaxClock = 0
  MaxRequests = 3
INVARIANTS TypeOK UniqueActiveKeys
PROPERTIES RequestsEnd ImplementsLedger
CHECK_DEADLOCK FALSE
