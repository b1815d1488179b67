SPECIFICATION FairFeedSpec
CONSTANTS
  s1 = s1  s2 = s2  r1 = r1  r2 = r2  r3 = r3  r4 = r4  A = A  B = B  c1 = c1
  mine = mine  theirs = theirs
  NoKey = NoKey  NoRow = NoRow  Nobody = Nobody
  Base = 2  Digits = 1
  Sessions = {s1}
  Records = {r1, r2}
  Keys = {}
  FullKeys = {}
  Requests <- Edits
  Granted <- AllGranted
  PoolSize = 3
  MaxClock = 1
  MaxRequests = 2
  Clients = {c1}
  Limit = 1
INVARIANTS FeedTypeOK NothingSkipped NoDuplicates CaughtUpIsCanonical
PROPERTIES CursorAdvances CatchesUp
CHECK_DEADLOCK FALSE
