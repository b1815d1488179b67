SPECIFICATION Spec
CONSTANTS
  s1 = s1  s2 = s2  r1 = r1  r2 = r2  k1 = k1  k2 = k2  A = A  B = B  mine = mine  theirs = theirs
  NoKey = NoKey  NoRow = NoRow  Nobody = Nobody
  Base = 2  Digits = 1
  Sessions = {s1, s2}
  Records = {r1}
  Keys = {}
  FullKeys = {}
  Requests <- Statuses
  Granted <- AllGranted
  PoolSize = 3
  MaxClock = 5
  MaxRequests = 3
SYMMETRY HandlerSymmetry
INVARIANTS PullYieldsCanonical
CHECK_DEADLOCK FALSE
